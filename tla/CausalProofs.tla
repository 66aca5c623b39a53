---------------------------- MODULE CausalProofs ----------------------------
(***************************************************************************)
(* Safety of causal mode for any nodes, clients, keys, payloads, wall      *)
(* readings and bound on the writes, with or without lost RPCs.            *)
(*                                                                         *)
(* The invariants come in layers, each inductive given the ones before:    *)
(*   Base      types; calls, requests and stamps come from the history     *)
(*   Buffered  what the buffer was handed is settled or in hand, once      *)
(*   Drained   what drainLocked leaves behind is not ready                 *)
(*   Causal    a write travels with what its client read and waits for it  *)
(***************************************************************************)
EXTENDS CausalCluster, ReplicaLemmas, SequenceTheorems

----------------------------------------------------------------------------
(* Sequences: their entries, and whether no two are equal.                 *)

Entries(s) == {s[i] : i \in 1 .. Len(s)}

Distinct(s) == \A i, j \in 1 .. Len(s) : i # j => s[i] # s[j]

(* The empty sequence has no entries.                                      *)
LEMMA EmptyEntries == Entries(<<>>) = {} /\ Distinct(<<>>)
BY DEF Entries, Distinct

(* A sequence of one has one.                                              *)
LEMMA SingleEntries ==
    ASSUME NEW x
    PROVE  Entries(<<x>>) = {x} /\ Distinct(<<x>>)
BY DEF Entries, Distinct

(* Concatenation joins the entries, and repeats none if neither part does  *)
(* and they share none.                                                    *)
LEMMA ConcatEntries ==
    ASSUME NEW S, NEW s \in Seq(S), NEW t \in Seq(S)
    PROVE  /\ s \o t \in Seq(S)
           /\ Entries(s \o t) = Entries(s) \cup Entries(t)
           /\ Distinct(s \o t) <=>
                 Distinct(s) /\ Distinct(t) /\ Entries(s) \cap Entries(t) = {}
<1> DEFINE u == s \o t
<1>1. /\ u \in Seq(S) /\ Len(s) \in Nat /\ Len(t) \in Nat
      /\ Len(u) = Len(s) + Len(t)
      /\ \A i \in 1 .. Len(s) : u[i] = s[i]
      /\ \A i \in 1 .. Len(t) : u[Len(s) + i] = t[i]
  OBVIOUS
<1> HIDE DEF u
<1>2. /\ \A i \in 1 .. Len(s) : i \in 1 .. Len(u)
      /\ \A i \in 1 .. Len(t) : Len(s) + i \in 1 .. Len(u)
  BY <1>1
<1>3. ASSUME NEW i \in 1 .. Len(u), i \notin 1 .. Len(s)
      PROVE  i - Len(s) \in 1 .. Len(t) /\ u[i] = t[i - Len(s)]
  <2>1. i - Len(s) \in 1 .. Len(t) /\ i = Len(s) + (i - Len(s))
    BY <1>1, <1>3
  <2> QED BY <1>1, <2>1
<1>4. Entries(u) = Entries(s) \cup Entries(t)
  <2>1. Entries(u) \subseteq Entries(s) \cup Entries(t)
    BY <1>1, <1>3 DEF Entries
  <2>2. Entries(s) \subseteq Entries(u)
    BY <1>1, <1>2 DEF Entries
  <2>3. Entries(t) \subseteq Entries(u)
    BY <1>1, <1>2 DEF Entries
  <2> QED BY <2>1, <2>2, <2>3
<1>5. ASSUME Distinct(u)
      PROVE  Distinct(s) /\ Distinct(t) /\ Entries(s) \cap Entries(t) = {}
  <2>1. Distinct(s)
    BY <1>1, <1>2, <1>5 DEF Distinct
  <2>2. Distinct(t)
    <3> SUFFICES ASSUME NEW i \in 1 .. Len(t), NEW j \in 1 .. Len(t), i # j
                 PROVE  t[i] # t[j]
      BY DEF Distinct
    <3>1. Len(s) + i # Len(s) + j
      BY <1>1
    <3> QED BY <1>1, <1>2, <1>5, <3>1 DEF Distinct
  <2>3. Entries(s) \cap Entries(t) = {}
    <3> SUFFICES ASSUME NEW i \in 1 .. Len(s), NEW j \in 1 .. Len(t), s[i] = t[j]
                 PROVE  FALSE
      BY DEF Entries
    <3>1. i # Len(s) + j
      BY <1>1
    <3> QED BY <1>1, <1>2, <1>5, <3>1 DEF Distinct
  <2> QED BY <2>1, <2>2, <2>3
<1>6. ASSUME Distinct(s), Distinct(t), Entries(s) \cap Entries(t) = {}
      PROVE  Distinct(u)
  <2> SUFFICES ASSUME NEW i \in 1 .. Len(u), NEW j \in 1 .. Len(u), i # j
               PROVE  u[i] # u[j]
    BY DEF Distinct
  <2>0. \A a \in 1 .. Len(s), b \in 1 .. Len(t) : s[a] # t[b]
    BY <1>6 DEF Entries
  <2>1. CASE i \in 1 .. Len(s) /\ j \in 1 .. Len(s)
    BY <1>1, <1>6, <2>1 DEF Distinct
  <2>2. CASE i \in 1 .. Len(s) /\ j \notin 1 .. Len(s)
    BY <1>1, <1>3, <2>0, <2>2
  <2>3. CASE i \notin 1 .. Len(s) /\ j \in 1 .. Len(s)
    BY <1>1, <1>3, <2>0, <2>3
  <2>4. CASE i \notin 1 .. Len(s) /\ j \notin 1 .. Len(s)
    <3>1. i - Len(s) # j - Len(s)
      BY <1>1
    <3> QED BY <1>1, <1>3, <1>6, <2>4, <3>1 DEF Distinct
  <2> QED BY <2>1, <2>2, <2>3, <2>4
<1> QED BY <1>1, <1>4, <1>5, <1>6 DEF u

(* Append is concatenation with a sequence of one, and so are Head and     *)
(* Tail taken together.                                                    *)
LEMMA AppendAsConcat ==
    ASSUME NEW S, NEW s \in Seq(S), NEW x \in S
    PROVE  Append(s, x) = s \o <<x>> /\ Append(s, x) \in Seq(S)
OBVIOUS

LEMMA HeadTailConcat ==
    ASSUME NEW S, NEW s \in Seq(S), s # <<>>
    PROVE  Head(s) \in S /\ Tail(s) \in Seq(S) /\ s = <<Head(s)>> \o Tail(s)
BY HeadTailProperties

(* One entry and the rest.                                                 *)
LEMMA ConsEntries ==
    ASSUME NEW S, NEW x \in S, NEW t \in Seq(S)
    PROVE  /\ Entries(<<x>> \o t) = {x} \cup Entries(t)
           /\ Distinct(<<x>> \o t) => Distinct(t) /\ x \notin Entries(t)
<1> DEFINE s == <<x>>
<1>1. s \in Seq(S) /\ Entries(s) = {x}
  BY SingleEntries
<1> HIDE DEF s
<1>2. /\ Entries(s \o t) = Entries(s) \cup Entries(t)
      /\ Distinct(s \o t) => Distinct(t) /\ Entries(s) \cap Entries(t) = {}
  BY <1>1, ConcatEntries
<1> QED BY <1>1, <1>2 DEF s

(* An entry more at the end.                                               *)
LEMMA AppendEntries ==
    ASSUME NEW S, NEW x \in S, NEW t \in Seq(S)
    PROVE  /\ Append(t, x) \in Seq(S)
           /\ Entries(Append(t, x)) = Entries(t) \cup {x}
           /\ Distinct(t) /\ x \notin Entries(t) => Distinct(Append(t, x))
<1> DEFINE s == <<x>>
<1>1. s \in Seq(S) /\ Entries(s) = {x} /\ Distinct(s)
  BY SingleEntries
<1>2. Append(t, x) = t \o s /\ Append(t, x) \in Seq(S)
  BY AppendAsConcat
<1> HIDE DEF s
<1>3. /\ Entries(t \o s) = Entries(t) \cup Entries(s)
      /\ Distinct(t) /\ Distinct(s) /\ Entries(t) \cap Entries(s) = {} => Distinct(t \o s)
  BY <1>1, ConcatEntries
<1> QED BY <1>1, <1>2, <1>3

----------------------------------------------------------------------------
(* Types.                                                                  *)

(* The stages of a client's call.                                          *)
LEMMA CallStages ==
    /\ \A x \in Call :
          /\ x.stage \in {"stamped", "attached", "read"}
          /\ x.stage = "stamped" => x.op \in Op
          /\ x.stage = "attached" => x.op \in Op /\ x.deps \subseteq Dependency
          /\ x.stage = "read" => x.dep \in Dependency
    /\ \A op \in Op : [stage |-> "stamped", op |-> op] \in Call
    /\ \A op \in Op, deps \in SUBSET Dependency :
          [stage |-> "attached", op |-> op, deps |-> deps] \in Call
    /\ \A dep \in Dependency : [stage |-> "read", dep |-> dep] \in Call
BY DEF Call

(* What drainLocked goes on with: nothing, the next entry of this pass, or *)
(* the first entry of a new pass over the remaining ones.                  *)
Stops(next, todo, remaining, progressed) ==
    /\ next = Free
    /\ todo = <<>>
    /\ ~progressed \/ remaining = <<>>

SamePass(next, todo, remaining, progressed) ==
    /\ todo = <<next.cur>> \o next.todo
    /\ next.remaining = remaining
    /\ next.progressed = progressed

NewPass(next, todo, remaining, progressed) ==
    /\ progressed
    /\ todo = <<>>
    /\ remaining = <<next.cur>> \o next.todo
    /\ next.remaining = <<>>

LEMMA DrainResult ==
    ASSUME NEW todo \in Seq(Message), NEW remaining \in Seq(Message),
           NEW progressed \in BOOLEAN, NEW next,
           next = Drain(todo, remaining, progressed)
    PROVE  \/ Stops(next, todo, remaining, progressed)
           \/ /\ next \in Worker /\ next # Free /\ next.draining
              /\ next.unchecked = next.cur.deps
              /\ \/ SamePass(next, todo, remaining, progressed)
                 \/ NewPass(next, todo, remaining, progressed)
<1>1. CASE todo # <<>>
  <2>1. next = LookAt(Head(todo), TRUE, Tail(todo), remaining, progressed)
    BY <1>1 DEF Drain
  <2>2. /\ Head(todo) \in Message /\ Tail(todo) \in Seq(Message)
        /\ todo = <<Head(todo)>> \o Tail(todo)
    BY <1>1, HeadTailConcat
  <2>3. next \in Worker
    BY <2>1, <2>2 DEF LookAt, Worker, Message
  <2>4. /\ next.cur = Head(todo) /\ next.todo = Tail(todo) /\ next.draining
        /\ next.unchecked = Head(todo).deps
        /\ next.remaining = remaining /\ next.progressed = progressed
    BY <2>1 DEF LookAt
  <2>5. SamePass(next, todo, remaining, progressed)
    BY <2>2, <2>4 DEF SamePass
  <2> QED BY <2>3, <2>4, <2>5, FreeAssumption
<1>2. CASE todo = <<>> /\ progressed /\ remaining # <<>>
  <2>1. next = LookAt(Head(remaining), TRUE, Tail(remaining), <<>>, FALSE)
    BY <1>2 DEF Drain
  <2>2. /\ Head(remaining) \in Message /\ Tail(remaining) \in Seq(Message)
        /\ remaining = <<Head(remaining)>> \o Tail(remaining)
    BY <1>2, HeadTailConcat
  <2>3. next \in Worker
    BY <2>1, <2>2 DEF LookAt, Worker, Message
  <2>4. /\ next.cur = Head(remaining) /\ next.todo = Tail(remaining) /\ next.draining
        /\ next.unchecked = Head(remaining).deps
        /\ next.remaining = <<>>
    BY <2>1 DEF LookAt
  <2>5. NewPass(next, todo, remaining, progressed)
    BY <1>2, <2>2, <2>4 DEF NewPass
  <2> QED BY <2>3, <2>4, <2>5, FreeAssumption
<1>3. CASE todo = <<>> /\ (~progressed \/ remaining = <<>>)
  BY <1>3 DEF Drain, Stops
<1> QED BY <1>1, <1>2, <1>3

----------------------------------------------------------------------------
(* Base: types, and where calls, requests and stamps come from.            *)

(* Client c has a write under way.                                         *)
Writing(c) == call[c] # Idle /\ call[c].stage # "read"

(* The write a client has under way is its own and in the history.         *)
CallsAreWrites ==
    \A c \in Client : Writing(c) =>
        /\ call[c].op.val.by = c
        /\ \E w \in writes : w.op = call[c].op

(* A node's clock is not behind a write of its clients.                    *)
StampsBelowClock ==
    \A w \in writes : AfterOrEqual(clock[Home[w.op.val.by]], w.op.val.ts)

(* Wall parts of clocks and stamps are readings.                           *)
WallsAreReadings ==
    /\ \A n \in Node : clock[n].wall \in Wall
    /\ \A w \in writes : w.op.val.ts.wall \in Wall

(* Every request that was sent and not lost.                               *)
Sent == wire \cup serving \cup UNION {received[n] : n \in Node}

RequestsAreWrites == \A m \in Sent : \E w \in writes : Carries(m, w.op)

(* A buffer is handed the requests for its own node.                       *)
ReceivedHere == \A n \in Node : \A m \in received[n] : m.to = n

Base ==
    /\ TypeOK
    /\ CallsAreWrites
    /\ StampsBelowClock
    /\ WallsAreReadings
    /\ RequestsAreWrites
    /\ ReceivedHere

(* The operation of a write of the history is well formed.                 *)
LEMMA WriteTypes ==
    ASSUME TypeOK, NEW w \in writes
    PROVE  /\ w.op \in Op /\ w.op.key \in Key /\ w.op.val \in Value
           /\ w.op.val.ts \in Timestamp /\ w.op.val.by \in Client
           /\ Home[w.op.val.by] \in Node
           /\ w.need \subseteq Dependency
BY HomeAssumption DEF TypeOK, History, Op, Value

(* The initial states.                                                     *)
LEMMA InitBase == Init => Base
<1> SUFFICES ASSUME Init PROVE Base
  OBVIOUS
<1>1. clock \in [Node -> Timestamp]
  BY NewIsTimestamp DEF Init
<1>2. <<>> \in Seq(Message)
  OBVIOUS
<1>3. TypeOK
  BY <1>1, <1>2 DEF Init, TypeOK, NewStore
<1>4. WallsAreReadings
  BY DEF Init, WallsAreReadings, New
<1>5. Sent = {}
  BY DEF Init, Sent
<1> QED BY <1>3, <1>4, <1>5
        DEF Base, Init, CallsAreWrites, Writing, StampsBelowClock,
            RequestsAreWrites, ReceivedHere

(* A step that changes neither clocks nor history, sends nothing and       *)
(* starts no write.                                                        *)
LEMMA BaseKept ==
    ASSUME Base, TypeOK', ReceivedHere', UNCHANGED <<clock, writes>>, Sent' \subseteq Sent,
           \A c \in Client : Writing(c)' => Writing(c) /\ call'[c].op = call[c].op
    PROVE  Base'
<1>1. CallsAreWrites'
  BY DEF Base, CallsAreWrites
<1>2. StampsBelowClock' /\ WallsAreReadings' /\ RequestsAreWrites'
  BY DEF Base, StampsBelowClock, WallsAreReadings, RequestsAreWrites
<1> QED BY <1>1, <1>2 DEF Base

(* Clock.Send: the new stamp is after every earlier one of the node.       *)
LEMMA StampIsLater ==
    ASSUME Base, NEW c \in Client, NEW now \in Wall, ~SendFails(clock[Home[c]], now),
           NEW ts, ts = Send(clock[Home[c]], now)
    PROVE  /\ Home[c] \in Node
           /\ ts \in Timestamp /\ ts.wall \in Wall /\ After(ts, clock[Home[c]])
           /\ \A w \in writes : Home[w.op.val.by] = Home[c] =>
                 After(ts, w.op.val.ts) /\ w.op.val.ts # ts
<1>1. Home[c] \in Node /\ clock[Home[c]] \in Timestamp /\ clock[Home[c]].wall \in Wall
  BY HomeAssumption DEF Base, TypeOK, WallsAreReadings
<1>2. ts \in Timestamp /\ ts.wall \in Wall /\ After(ts, clock[Home[c]])
  BY <1>1, SendAdvances
<1>3. ASSUME NEW w \in writes, Home[w.op.val.by] = Home[c]
      PROVE  After(ts, w.op.val.ts) /\ w.op.val.ts # ts
  <2>1. w.op.val.ts \in Timestamp /\ AfterOrEqual(clock[Home[c]], w.op.val.ts)
    BY <1>3, WriteTypes DEF Base, StampsBelowClock
  <2> QED BY <1>1, <1>2, <2>1, CompareIsTotalOrder
<1> QED BY <1>1, <1>2, <1>3

LEMMA StampBase ==
    ASSUME Base, NEW c \in Client, NEW k \in Key, NEW x \in Data \cup {Missing},
           NEW now \in Wall, Stamp(c, k, x, now)
    PROVE  Base'
<1> DEFINE n == Home[c]
           ts == Send(clock[n], now)
           op == OpFor(k, x, ts, c)
<1> USE DEF Base
<1>1. /\ n \in Node /\ ts \in Timestamp /\ ts.wall \in Wall /\ After(ts, clock[n])
      /\ \A w \in writes : Home[w.op.val.by] = n => After(ts, w.op.val.ts)
  BY StampIsLater DEF Stamp
<1>2. op \in Op /\ op.key = k /\ op.val.by = c /\ op.val.ts = ts
  BY <1>1, OpForType
<1>3. /\ clock' = [clock EXCEPT ![n] = ts]
      /\ call' = [call EXCEPT ![c] = [stage |-> "stamped", op |-> op]]
      /\ writes' = writes \cup {[op |-> op, need |-> seen[c]]}
      /\ seen' = [seen EXCEPT ![c] = {}]
      /\ UNCHANGED <<data, reads, held, buf, wire, serving, received, settled>>
  BY DEF Stamp
<1> HIDE DEF ts, op
<1>4. [op |-> op, need |-> seen[c]] \in History
  BY <1>2 DEF History, TypeOK
<1>5. TypeOK'
  <2>1. call' \in [Client -> Call \cup {Idle}]
    BY <1>2, <1>3, CallStages DEF TypeOK
  <2>2. clock' \in [Node -> Timestamp] /\ seen' \in [Client -> SUBSET Dependency]
    BY <1>1, <1>3 DEF TypeOK
  <2> QED BY <1>3, <1>4, <2>1, <2>2 DEF TypeOK
<1>6. CallsAreWrites'
  <2> SUFFICES ASSUME NEW e \in Client, Writing(e)'
               PROVE  /\ call'[e].op.val.by = e
                      /\ \E w \in writes' : w.op = call'[e].op
    BY DEF CallsAreWrites
  <2>1. CASE e = c
    <3>1. call'[e].op = op
      BY <1>3, <2>1 DEF TypeOK
    <3>2. PICK w \in writes' : w = [op |-> op, need |-> seen[c]]
      BY <1>3
    <3>3. w.op = op
      BY <3>2
    <3> QED BY <1>2, <2>1, <3>1, <3>3
  <2>2. CASE e # c
    <3>1. call'[e] = call[e] /\ Writing(e)
      BY <1>3, <2>2 DEF TypeOK, Writing
    <3> QED BY <1>3, <3>1 DEF CallsAreWrites
  <2> QED BY <2>1, <2>2
<1>7. StampsBelowClock'
  <2> SUFFICES ASSUME NEW w \in writes'
               PROVE  AfterOrEqual(clock'[Home[w.op.val.by]], w.op.val.ts)
    BY DEF StampsBelowClock
  <2>1. clock'[n] = ts /\ \A o \in Node : o # n => clock'[o] = clock[o]
    BY <1>1, <1>3 DEF TypeOK
  <2>2. CASE w = [op |-> op, need |-> seen[c]]
    BY <1>1, <1>2, <2>1, <2>2, CompareIsTotalOrder
  <2>3. CASE w \in writes /\ Home[w.op.val.by] = n
    BY <1>1, <2>1, <2>3, WriteTypes, CompareIsTotalOrder
  <2>4. CASE w \in writes /\ Home[w.op.val.by] # n
    BY <2>1, <2>4, WriteTypes DEF StampsBelowClock
  <2> QED BY <1>3, <2>2, <2>3, <2>4
<1>8. WallsAreReadings'
  BY <1>1, <1>2, <1>3 DEF WallsAreReadings, TypeOK
<1>9. RequestsAreWrites' /\ ReceivedHere'
  BY <1>3 DEF RequestsAreWrites, ReceivedHere, Sent
<1> QED BY <1>5, <1>6, <1>7, <1>8, <1>9

(* The local store and OnWrite: the requests carry the write under way.    *)
LEMMA StoreBase ==
    ASSUME Base, NEW c \in Client, StoreThenReplicate(c)
    PROVE  Base'
<1> DEFINE n == Home[c]
           op == call[c].op
           deps == call[c].deps
<1> USE DEF Base
<1>1. /\ n \in Node /\ data[n] \in Map /\ op \in Op /\ deps \subseteq Dependency
      /\ Writing(c)
  BY HomeAssumption, CallStages DEF StoreThenReplicate, TypeOK, Map, Writing
<1>2. /\ data' = [data EXCEPT ![n] = StoreLocally(data[n], op)]
      /\ wire' = wire \cup Broadcast(op, deps)
      /\ call' = [call EXCEPT ![c] = Idle]
      /\ UNCHANGED <<clock, reads, held, buf, serving, seen, writes, received, settled>>
  BY DEF StoreThenReplicate
<1>3. Broadcast(op, deps) \subseteq Message
  BY <1>1, BroadcastType
<1>4. StoreLocally(data[n], op) \in Map
  BY <1>1, StoreLocallyResult
<1>5. PICK w \in writes : w.op = op
  BY <1>1 DEF CallsAreWrites
<1> HIDE DEF op, deps
<1>6. TypeOK'
  BY <1>1, <1>2, <1>3, <1>4 DEF TypeOK, Map
<1>7. CallsAreWrites'
  BY <1>2 DEF CallsAreWrites, Writing, TypeOK
<1>8. RequestsAreWrites'
  <2> SUFFICES ASSUME NEW m \in Sent'
               PROVE  \E v \in writes : Carries(m, v.op)
    BY <1>2 DEF RequestsAreWrites
  <2>1. CASE m \in Sent
    BY <2>1 DEF RequestsAreWrites
  <2>2. CASE m \in Broadcast(op, deps)
    BY <1>5, <2>2, BroadcastCarries
  <2> QED BY <1>2, <2>1, <2>2 DEF Sent
<1>9. StampsBelowClock' /\ WallsAreReadings' /\ ReceivedHere'
  BY <1>2 DEF StampsBelowClock, WallsAreReadings, ReceivedHere
<1> QED BY <1>6, <1>7, <1>8, <1>9

(* Clock.Receive: the clock moves forward to a reading.                    *)
LEMMA ServeBase ==
    ASSUME Base, NEW m \in wire, NEW now \in Wall, Serve(m, now)
    PROVE  Base'
<1> DEFINE new == Receive(clock[m.to], m.ts, now)
<1> USE DEF Base
<1>0. m \in Message /\ m.to \in Node /\ m.ts \in Timestamp /\ clock[m.to] \in Timestamp
  BY DEF TypeOK, Message
<1>1. m.ts.wall \in Wall
  BY DEF RequestsAreWrites, Sent, Carries, WallsAreReadings
<1>2. new \in Timestamp /\ After(new, clock[m.to]) /\ new.wall \in Wall
  BY <1>0, <1>1, ReceiveAdvances DEF Serve, WallsAreReadings
<1>3. /\ clock' = [clock EXCEPT ![m.to] = new]
      /\ wire' = wire \ {m}
      /\ serving' = serving \cup {m}
      /\ UNCHANGED <<data, reads, held, buf, call, seen, writes, received, settled>>
  BY DEF Serve
<1> HIDE DEF new
<1>4. TypeOK'
  BY <1>0, <1>2, <1>3 DEF TypeOK
<1>5. StampsBelowClock'
  <2> SUFFICES ASSUME NEW w \in writes
               PROVE  AfterOrEqual(clock'[Home[w.op.val.by]], w.op.val.ts)
    BY <1>3 DEF StampsBelowClock
  <2>1. /\ w.op.val.ts \in Timestamp /\ Home[w.op.val.by] \in Node
        /\ clock[Home[w.op.val.by]] \in Timestamp
        /\ AfterOrEqual(clock[Home[w.op.val.by]], w.op.val.ts)
    BY WriteTypes DEF TypeOK, StampsBelowClock
  <2>2. CASE Home[w.op.val.by] = m.to
    <3>1. clock'[m.to] = new
      BY <1>0, <1>3 DEF TypeOK
    <3> QED BY <1>2, <2>1, <2>2, <3>1, CompareIsTotalOrder
  <2>3. CASE Home[w.op.val.by] # m.to
    BY <1>3, <2>1, <2>3 DEF TypeOK
  <2> QED BY <2>2, <2>3
<1>6. WallsAreReadings'
  BY <1>0, <1>2, <1>3 DEF WallsAreReadings, TypeOK
<1>7. CallsAreWrites' /\ RequestsAreWrites' /\ ReceivedHere'
  BY <1>3 DEF CallsAreWrites, Writing, RequestsAreWrites, Sent, ReceivedHere
<1> QED BY <1>4, <1>5, <1>6, <1>7

(* The worker of a buffer that goes on is well formed.                     *)
LEMMA UnmetTypes ==
    ASSUME TypeOK, NEW n \in Node, NEW dep, DependencyUnmet(n, dep)
    PROVE  buf' \in [Node -> Worker \cup {Free}] /\ held' \in [Node -> Seq(Message)]
<1> DEFINE b == buf[n]
           remaining == Append(b.remaining, b.cur)
           next == IF b.draining THEN Drain(b.todo, remaining, b.progressed) ELSE Free
<1>1. b \in Worker
  BY DEF TypeOK, DependencyUnmet
<1>2. /\ b.cur \in Message /\ b.draining \in BOOLEAN /\ b.todo \in Seq(Message)
      /\ b.remaining \in Seq(Message) /\ b.progressed \in BOOLEAN
      /\ remaining \in Seq(Message) /\ Append(held[n], b.cur) \in Seq(Message)
  BY <1>1 DEF Worker, TypeOK
<1>3. /\ buf' = [buf EXCEPT ![n] = next]
      /\ held' = [held EXCEPT ![n] = IF b.draining THEN HeldWhile(next, remaining)
                                     ELSE Append(held[n], b.cur)]
  BY DEF DependencyUnmet
<1> HIDE DEF b, remaining
<1>4. next \in Worker \cup {Free}
  BY <1>2, DrainResult DEF Stops
<1> HIDE DEF next
<1>5. HeldWhile(next, remaining) \in Seq(Message)
  BY <1>2 DEF HeldWhile
<1> QED BY <1>2, <1>3, <1>4, <1>5 DEF TypeOK

LEMMA ApplyTypes ==
    ASSUME TypeOK, NEW n \in Node, BufferApply(n)
    PROVE  /\ buf' \in [Node -> Worker \cup {Free}] /\ held' \in [Node -> Seq(Message)]
           /\ data' \in [Node -> [Key -> Value \cup {Missing}]]
           /\ settled' \in [Node -> SUBSET Message]
<1> DEFINE b == buf[n]
           next == IF b.draining THEN Drain(b.todo, b.remaining, TRUE)
                   ELSE Drain(held[n], <<>>, FALSE)
<1>1. b \in Worker
  BY DEF TypeOK, BufferApply
<1>2. /\ b.cur \in Message /\ b.draining \in BOOLEAN /\ b.todo \in Seq(Message)
      /\ b.remaining \in Seq(Message) /\ held[n] \in Seq(Message)
      /\ data[n] \in Map
  BY <1>1 DEF Worker, TypeOK, Map
<1>3. /\ buf' = [buf EXCEPT ![n] = next]
      /\ held' = [held EXCEPT ![n] = HeldWhile(next, b.remaining)]
      /\ data' = [data EXCEPT ![n] = ApplyReplicated(data[n], b.cur)]
      /\ settled' = [settled EXCEPT ![n] = settled[n] \cup {b.cur}]
  BY DEF BufferApply
<1> HIDE DEF b
<1>4. next \in Worker \cup {Free}
  <2>1. <<>> \in Seq(Message) /\ TRUE \in BOOLEAN /\ FALSE \in BOOLEAN
    OBVIOUS
  <2>2. Drain(b.todo, b.remaining, TRUE) \in Worker \cup {Free}
    BY <1>2, <2>1, DrainResult DEF Stops
  <2>3. Drain(held[n], <<>>, FALSE) \in Worker \cup {Free}
    BY <1>2, <2>1, DrainResult DEF Stops
  <2> QED BY <2>2, <2>3
<1> HIDE DEF next
<1>5. HeldWhile(next, b.remaining) \in Seq(Message)
  BY <1>2 DEF HeldWhile
<1>6. ApplyReplicated(data[n], b.cur) \in Map
  BY <1>2, ApplyReplicatedResult
<1> QED BY <1>2, <1>3, <1>4, <1>5, <1>6 DEF TypeOK, Map

(* depsSatisfied goes on: one dependency less to check, all else the same. *)
LEMMA MetWorker ==
    ASSUME TypeOK, NEW n \in Node, NEW dep, DependencyMet(n, dep)
    PROVE  /\ buf[n] \in Worker /\ buf'[n] \in Worker /\ buf'[n] # Free
           /\ buf'[n].cur = buf[n].cur /\ buf'[n].draining = buf[n].draining
           /\ buf'[n].todo = buf[n].todo /\ buf'[n].remaining = buf[n].remaining
           /\ buf'[n].progressed = buf[n].progressed
           /\ buf'[n].unchecked = buf[n].unchecked \ {dep}
           /\ \A o \in Node : o # n => buf'[o] = buf[o]
           /\ buf' \in [Node -> Worker \cup {Free}]
<1> DEFINE b == buf[n]
           next == [b EXCEPT !.unchecked = b.unchecked \ {dep}]
<1>1. b \in Worker
  BY DEF TypeOK, DependencyMet
<1>2. /\ next \in Worker /\ next.cur = b.cur /\ next.draining = b.draining
      /\ next.todo = b.todo /\ next.remaining = b.remaining
      /\ next.progressed = b.progressed /\ next.unchecked = b.unchecked \ {dep}
  BY <1>1 DEF Worker
<1>3. buf' = [buf EXCEPT ![n] = next]
  BY DEF DependencyMet
<1> HIDE DEF next
<1>4. buf'[n] = next /\ \A o \in Node : o # n => buf'[o] = buf[o]
  BY <1>3 DEF TypeOK
<1>5. buf' \in [Node -> Worker \cup {Free}]
  BY <1>2, <1>3 DEF TypeOK
<1> QED BY <1>1, <1>2, <1>4, <1>5, FreeAssumption

(* Every step keeps Base.                                                  *)
LEMMA NextBase == Base /\ [Next]_vars => Base'
<1> SUFFICES ASSUME Base, [Next]_vars PROVE Base'
  OBVIOUS
<1> USE DEF Base
<1>1. ASSUME NEW c \in Client, NEW k \in Key, NEW x \in Data \cup {Missing},
             NEW now \in Wall, Stamp(c, k, x, now)
      PROVE  Base'
  BY <1>1, StampBase
<1>2. ASSUME NEW c \in Client, AttachDeps(c) PROVE Base'
  <2>1. call[c].op \in Op /\ Writing(c) /\ Home[c] \in Node /\ reads[Home[c]] \subseteq Dependency
    BY <1>2, CallStages, HomeAssumption DEF AttachDeps, TypeOK, Writing
  <2>2. /\ call' = [call EXCEPT ![c] =
              [stage |-> "attached", op |-> call[c].op, deps |-> reads[Home[c]]]]
        /\ reads' = [reads EXCEPT ![Home[c]] = {}]
        /\ UNCHANGED <<clock, data, held, buf, wire, serving, seen, writes,
                       received, settled>>
    BY <1>2 DEF AttachDeps
  <2>3. call' \in [Client -> Call \cup {Idle}]
    BY <2>1, <2>2, CallStages DEF TypeOK
  <2>4. TypeOK'
    BY <2>1, <2>2, <2>3 DEF TypeOK
  <2>5. \A e \in Client : Writing(e)' => Writing(e) /\ call'[e].op = call[e].op
    BY <2>1, <2>2 DEF TypeOK, Writing
  <2> QED BY <2>2, <2>4, <2>5, BaseKept DEF Sent, ReceivedHere
<1>3. ASSUME NEW c \in Client, StoreThenReplicate(c) PROVE Base'
  BY <1>3, StoreBase
<1>4. ASSUME NEW c \in Client, NEW k \in Key, GetRead(c, k) PROVE Base'
  <2> DEFINE dep == [key |-> k, minTS |-> data[Home[c]][k].ts]
  <2>0. data[Home[c]][k] \in Value
    <3>1. Home[c] \in Node /\ data[Home[c]][k] # Missing
      BY <1>4, HomeAssumption DEF GetRead, Found
    <3> QED BY <3>1 DEF TypeOK
  <2>1. dep \in Dependency
    BY <2>0 DEF Dependency, Value
  <2>2. /\ call' = [call EXCEPT ![c] = [stage |-> "read", dep |-> dep]]
        /\ UNCHANGED <<clock, data, reads, held, buf, wire, serving, seen,
                       writes, received, settled>>
    BY <1>4 DEF GetRead
  <2> HIDE DEF dep
  <2>3. call' \in [Client -> Call \cup {Idle}]
    BY <2>1, <2>2, CallStages DEF TypeOK
  <2>4. TypeOK'
    BY <2>2, <2>3 DEF TypeOK
  <2>5. \A e \in Client : Writing(e)' => Writing(e) /\ call'[e].op = call[e].op
    BY <2>2 DEF TypeOK, Writing
  <2> QED BY <2>2, <2>4, <2>5, BaseKept DEF Sent, ReceivedHere
<1>5. ASSUME NEW c \in Client, GetRecord(c) PROVE Base'
  <2>1. call[c].dep \in Dependency
    BY <1>5, CallStages DEF GetRecord, TypeOK
  <2>2. TypeOK'
    BY <1>5, <2>1, HomeAssumption DEF GetRecord, TypeOK
  <2>3. \A e \in Client : Writing(e)' => Writing(e) /\ call'[e].op = call[e].op
    BY <1>5 DEF GetRecord, TypeOK, Writing
  <2> QED BY <1>5, <2>2, <2>3, BaseKept DEF GetRecord, Sent, ReceivedHere
<1>6. ASSUME NEW m \in wire, NEW now \in Wall, Serve(m, now) PROVE Base'
  BY <1>6, ServeBase
<1>7. CASE /\ wire' \subseteq wire
           /\ UNCHANGED <<clock, data, reads, held, buf, call, serving, seen, writes,
                          received, settled>>
  <2>1. TypeOK'
    BY <1>7 DEF TypeOK
  <2> QED BY <1>7, <2>1, BaseKept DEF Sent, ReceivedHere, Writing
<1>8. ASSUME NEW m \in serving, BufferReceive(m) PROVE Base'
  <2>1. m \in Message /\ m.to \in Node
    BY DEF TypeOK, Message
  <2>2. LookAt(m, FALSE, <<>>, <<>>, FALSE) \in Worker
    BY <2>1 DEF LookAt, Worker, Message
  <2>3. TypeOK'
    BY <1>8, <2>1, <2>2 DEF BufferReceive, TypeOK
  <2>4. ReceivedHere'
    BY <1>8, <2>1 DEF BufferReceive, TypeOK, ReceivedHere
  <2>5. \A n \in Node : received'[n] \subseteq received[n] \cup {m}
    BY <1>8, <2>1 DEF BufferReceive, TypeOK
  <2>6. Sent' \subseteq Sent
    BY <1>8, <2>5 DEF BufferReceive, Sent
  <2> QED BY <1>8, <2>3, <2>4, <2>6, BaseKept DEF BufferReceive, Writing
<1>9. ASSUME NEW n \in Node, NEW dep, DependencyMet(n, dep) PROVE Base'
  <2>1. TypeOK'
    BY <1>9, MetWorker DEF DependencyMet, TypeOK
  <2> QED BY <1>9, <2>1, BaseKept DEF DependencyMet, Sent, ReceivedHere, Writing
<1>10. ASSUME NEW n \in Node, NEW dep, DependencyUnmet(n, dep) PROVE Base'
  <2>1. TypeOK'
    BY <1>10, UnmetTypes DEF DependencyUnmet, TypeOK
  <2> QED BY <1>10, <2>1, BaseKept DEF DependencyUnmet, Sent, ReceivedHere, Writing
<1>11. ASSUME NEW n \in Node, BufferApply(n) PROVE Base'
  <2>1. TypeOK'
    BY <1>11, ApplyTypes DEF BufferApply, TypeOK
  <2> QED BY <1>11, <2>1, BaseKept DEF BufferApply, Sent, ReceivedHere, Writing
<1> QED BY <1>1, <1>2, <1>3, <1>4, <1>5, <1>6, <1>7, <1>8, <1>9, <1>10, <1>11
        DEF Next, Deliver, Continue, BufferStep, ServeError, Lose, Rest, vars

(* Base holds in every behaviour of causal mode.                           *)
THEOREM CausalBase == Spec => []Base
BY InitBase, NextBase, PTL DEF Spec

(* Type correctness of causal mode, the buffer's worker included.          *)
THEOREM CausalTypeCorrect == Spec => []TypeOK
<1>1. Base => TypeOK
  BY DEF Base
<1> QED BY <1>1, CausalBase, PTL

----------------------------------------------------------------------------
(* Buffered: every request handed to a buffer is settled or in hand, once. *)

(* A worker that drains has taken all entries of held; one that does not   *)
(* has taken none.                                                         *)
WorkerShape ==
    \A n \in Node : buf[n] # Free =>
        IF buf[n].draining THEN held[n] = <<>>
        ELSE buf[n].todo = <<>> /\ buf[n].remaining = <<>>

(* A request is in one place only, and a write under way has not been sent.*)
SentOnce ==
    /\ wire \cap serving = {}
    /\ \A n \in Node : (wire \cup serving) \cap received[n] = {}
    /\ \A c \in Client : Writing(c) =>
          \A m \in Sent : RequestId(m) # OpId(call[c].op)

Buffered == WorkerShape /\ SentOnce /\ NoneForgotten

(* What a buffer has in hand, given its worker and held.                   *)
Hand(b, h) == IF b = Free THEN h ELSE <<b.cur>> \o b.todo \o b.remaining \o h

(* NoneForgotten in terms of entries.                                      *)
Kept(r, done, q) ==
    /\ r = done \cup Entries(q)
    /\ Entries(q) \cap done = {}
    /\ Distinct(q)

LEMMA ForgottenAsKept ==
    /\ NoneForgotten <=>
          \A n \in Node : Kept(received[n], settled[n], Hand(buf[n], held[n]))
    /\ NoneForgotten' <=>
          \A n \in Node : Kept(received'[n], settled'[n], Hand(buf'[n], held'[n]))
<1>1. \A n \in Node : /\ InHand(n) = Hand(buf[n], held[n])
                      /\ InHand(n)' = Hand(buf'[n], held'[n])
  BY DEF InHand, Hand
<1>2. NoneForgotten <=>
        \A n \in Node : Kept(received[n], settled[n], Hand(buf[n], held[n]))
  BY <1>1 DEF NoneForgotten, Kept, Entries, Distinct
<1>3. NoneForgotten' <=>
        \A n \in Node : Kept(received'[n], settled'[n], Hand(buf'[n], held'[n]))
  BY <1>1 DEF NoneForgotten, Kept, Entries, Distinct
<1> QED BY <1>2, <1>3

(* The entries in hand are those of the four parts, and they are distinct  *)
(* if those of each part are and no two parts share one.                   *)
LEMMA HandEntries ==
    ASSUME NEW b \in Worker, NEW h \in Seq(Message)
    PROVE  /\ Entries(Hand(b, h)) =
                 {b.cur} \cup Entries(b.todo) \cup Entries(b.remaining) \cup Entries(h)
           /\ Distinct(Hand(b, h)) <=>
                 /\ Distinct(b.todo) /\ Distinct(b.remaining) /\ Distinct(h)
                 /\ b.cur \notin Entries(b.todo) \cup Entries(b.remaining) \cup Entries(h)
                 /\ Entries(b.todo) \cap Entries(b.remaining) = {}
                 /\ (Entries(b.todo) \cup Entries(b.remaining)) \cap Entries(h) = {}
<1> DEFINE s == <<b.cur>>
           t == s \o b.todo
           u == t \o b.remaining
<1>1. b # Free /\ b.cur \in Message /\ b.todo \in Seq(Message) /\ b.remaining \in Seq(Message)
  BY FreeAssumption DEF Worker
<1>2. s \in Seq(Message) /\ Entries(s) = {b.cur} /\ Distinct(s)
  BY <1>1, SingleEntries
<1> HIDE DEF s
<1>3. /\ t \in Seq(Message) /\ Entries(t) = Entries(s) \cup Entries(b.todo)
      /\ Distinct(t) <=> Distinct(s) /\ Distinct(b.todo) /\ Entries(s) \cap Entries(b.todo) = {}
  BY <1>1, <1>2, ConcatEntries
<1> HIDE DEF t
<1>4. /\ u \in Seq(Message) /\ Entries(u) = Entries(t) \cup Entries(b.remaining)
      /\ Distinct(u) <=> Distinct(t) /\ Distinct(b.remaining)
                           /\ Entries(t) \cap Entries(b.remaining) = {}
  BY <1>1, <1>3, ConcatEntries
<1> HIDE DEF u
<1>5. /\ Entries(u \o h) = Entries(u) \cup Entries(h)
      /\ Distinct(u \o h) <=> Distinct(u) /\ Distinct(h) /\ Entries(u) \cap Entries(h) = {}
  BY <1>4, ConcatEntries
<1>6. Hand(b, h) = u \o h
  BY <1>1 DEF Hand, s, t, u
<1> QED BY <1>2, <1>3, <1>4, <1>5, <1>6

(* drainLocked keeps the entries of the pass and the remaining ones.       *)
LEMMA DrainHand ==
    ASSUME NEW todo \in Seq(Message), NEW remaining \in Seq(Message),
           NEW progressed \in BOOLEAN, NEW next, NEW h,
           next = Drain(todo, remaining, progressed), h = HeldWhile(next, remaining),
           Distinct(todo), Distinct(remaining), Entries(todo) \cap Entries(remaining) = {}
    PROVE  /\ Entries(Hand(next, h)) = Entries(todo) \cup Entries(remaining)
           /\ Distinct(Hand(next, h))
           /\ next # Free => next.draining /\ h = <<>>
<1>1. CASE next = Free
  <2>1. todo = <<>>
    BY <1>1, DrainResult DEF Stops
  <2> QED BY <1>1, <2>1, EmptyEntries DEF Hand, HeldWhile
<1>2. CASE next # Free
  <2>1. /\ next \in Worker /\ next.draining
        /\ \/ SamePass(next, todo, remaining, progressed)
           \/ NewPass(next, todo, remaining, progressed)
    BY <1>2, DrainResult DEF Stops
  <2>2. h = <<>> /\ h \in Seq(Message) /\ Entries(h) = {} /\ Distinct(h)
    BY <1>2, EmptyEntries DEF HeldWhile
  <2>3. /\ next.cur \in Message /\ next.todo \in Seq(Message)
        /\ next.remaining \in Seq(Message)
    BY <2>1 DEF Worker
  <2>4. /\ Entries(<<next.cur>> \o next.todo) = {next.cur} \cup Entries(next.todo)
        /\ Distinct(<<next.cur>> \o next.todo) =>
              Distinct(next.todo) /\ next.cur \notin Entries(next.todo)
    BY <2>3, ConsEntries
  <2>5. /\ Entries(Hand(next, h)) =
              {next.cur} \cup Entries(next.todo) \cup Entries(next.remaining)
        /\ Distinct(Hand(next, h)) <=>
              /\ Distinct(next.todo) /\ Distinct(next.remaining)
              /\ next.cur \notin Entries(next.todo) \cup Entries(next.remaining)
              /\ Entries(next.todo) \cap Entries(next.remaining) = {}
    <3>1. /\ Entries(Hand(next, h)) =
                {next.cur} \cup Entries(next.todo) \cup Entries(next.remaining) \cup Entries(h)
          /\ Distinct(Hand(next, h)) <=>
                /\ Distinct(next.todo) /\ Distinct(next.remaining) /\ Distinct(h)
                /\ next.cur \notin Entries(next.todo) \cup Entries(next.remaining)
                                    \cup Entries(h)
                /\ Entries(next.todo) \cap Entries(next.remaining) = {}
                /\ (Entries(next.todo) \cup Entries(next.remaining)) \cap Entries(h) = {}
      BY <2>1, <2>2, HandEntries
    <3> QED BY <2>2, <3>1
  <2>6. CASE SamePass(next, todo, remaining, progressed)
    <3>1. /\ Entries(todo) = {next.cur} \cup Entries(next.todo)
          /\ Distinct(next.todo) /\ next.cur \notin Entries(next.todo)
          /\ next.remaining = remaining
      BY <2>4, <2>6 DEF SamePass
    <3> QED BY <2>1, <2>2, <2>5, <3>1
  <2>7. CASE NewPass(next, todo, remaining, progressed)
    <3>1. /\ Entries(remaining) = {next.cur} \cup Entries(next.todo)
          /\ Distinct(next.todo) /\ next.cur \notin Entries(next.todo)
          /\ Entries(next.remaining) = {} /\ Distinct(next.remaining)
          /\ Entries(todo) = {}
      BY <2>4, <2>7, EmptyEntries DEF NewPass
    <3> QED BY <2>1, <2>2, <2>5, <3>1
  <2> QED BY <2>1, <2>6, <2>7
<1> QED BY <1>1, <1>2

(* Nothing has been handed to a buffer before the first write.             *)
LEMMA InitBuffered == Init => Buffered
<1> SUFFICES ASSUME Init PROVE Buffered
  OBVIOUS
<1>1. \A n \in Node : Kept(received[n], settled[n], Hand(buf[n], held[n]))
  BY EmptyEntries DEF Init, Kept, Hand
<1>2. WorkerShape /\ SentOnce
  BY DEF Init, WorkerShape, SentOnce, Writing
<1> QED BY <1>1, <1>2, ForgottenAsKept DEF Buffered

(* A step that touches no buffer keeps Buffered if it sends nothing twice. *)
LEMMA BuffersKept ==
    ASSUME Buffered, SentOnce', UNCHANGED <<buf, held, received, settled>>
    PROVE  Buffered'
<1>1. WorkerShape'
  BY DEF Buffered, WorkerShape
<1>2. NoneForgotten'
  BY ForgottenAsKept DEF Buffered
<1> QED BY <1>1, <1>2 DEF Buffered

(* A step of one buffer, which sends nothing.                              *)
LEMMA OneBufferKept ==
    ASSUME Base, Buffered, NEW n \in Node, UNCHANGED <<wire, serving, call, received>>,
           \A o \in Node : o # n =>
              buf'[o] = buf[o] /\ held'[o] = held[o] /\ settled'[o] = settled[o],
           Kept(received[n], settled'[n], Hand(buf'[n], held'[n])),
           buf'[n] # Free =>
              IF buf'[n].draining THEN held'[n] = <<>>
              ELSE buf'[n].todo = <<>> /\ buf'[n].remaining = <<>>
    PROVE  Buffered'
<1>1. WorkerShape'
  BY DEF Buffered, WorkerShape
<1>2. SentOnce'
  BY DEF Buffered, SentOnce, Sent, Writing
<1>3. \A o \in Node : Kept(received'[o], settled'[o], Hand(buf'[o], held'[o]))
  <2> SUFFICES ASSUME NEW o \in Node, o # n
               PROVE  Kept(received'[o], settled'[o], Hand(buf'[o], held'[o]))
    OBVIOUS
  <2>1. Kept(received[o], settled[o], Hand(buf[o], held[o]))
    BY ForgottenAsKept DEF Buffered
  <2> QED BY <2>1
<1> QED BY <1>1, <1>2, <1>3, ForgottenAsKept DEF Buffered

(* What is known of a buffer whose worker is busy.                         *)
LEMMA BusyBuffer ==
    ASSUME Base, Buffered, NEW n \in Node, buf[n] # Free
    PROVE  /\ buf[n] \in Worker /\ held[n] \in Seq(Message)
           /\ buf[n].cur \in Message /\ buf[n].cur \in received[n]
           /\ buf[n].todo \in Seq(Message) /\ buf[n].remaining \in Seq(Message)
           /\ buf[n].draining \in BOOLEAN /\ buf[n].progressed \in BOOLEAN
           /\ received[n] = settled[n] \cup {buf[n].cur} \cup Entries(buf[n].todo)
                               \cup Entries(buf[n].remaining) \cup Entries(held[n])
           /\ buf[n].cur \notin settled[n]
           /\ Entries(buf[n].todo) \cap settled[n] = {}
           /\ Entries(buf[n].remaining) \cap settled[n] = {}
           /\ Entries(held[n]) \cap settled[n] = {}
           /\ Distinct(buf[n].todo) /\ Distinct(buf[n].remaining) /\ Distinct(held[n])
           /\ buf[n].cur \notin Entries(buf[n].todo)
           /\ buf[n].cur \notin Entries(buf[n].remaining)
           /\ buf[n].cur \notin Entries(held[n])
           /\ Entries(buf[n].todo) \cap Entries(buf[n].remaining) = {}
<1> DEFINE b == buf[n]
           h == held[n]
<1>1. b \in Worker /\ h \in Seq(Message)
  BY DEF Base, TypeOK
<1>2. /\ b.cur \in Message /\ b.todo \in Seq(Message) /\ b.remaining \in Seq(Message)
      /\ b.draining \in BOOLEAN /\ b.progressed \in BOOLEAN
  BY <1>1 DEF Worker
<1>3. Kept(received[n], settled[n], Hand(b, h))
  BY ForgottenAsKept DEF Buffered
<1> HIDE DEF b, h
<1>4. /\ Entries(Hand(b, h)) =
            {b.cur} \cup Entries(b.todo) \cup Entries(b.remaining) \cup Entries(h)
      /\ Distinct(Hand(b, h)) <=>
            /\ Distinct(b.todo) /\ Distinct(b.remaining) /\ Distinct(h)
            /\ b.cur \notin Entries(b.todo) \cup Entries(b.remaining) \cup Entries(h)
            /\ Entries(b.todo) \cap Entries(b.remaining) = {}
            /\ (Entries(b.todo) \cup Entries(b.remaining)) \cap Entries(h) = {}
  BY <1>1, HandEntries
<1>5. /\ received[n] = settled[n] \cup {b.cur} \cup Entries(b.todo)
                          \cup Entries(b.remaining) \cup Entries(h)
      /\ b.cur \notin settled[n]
      /\ Entries(b.todo) \cap settled[n] = {}
      /\ Entries(b.remaining) \cap settled[n] = {}
      /\ Entries(h) \cap settled[n] = {}
  BY <1>3, <1>4 DEF Kept
<1>6. /\ Distinct(b.todo) /\ Distinct(b.remaining) /\ Distinct(h)
      /\ b.cur \notin Entries(b.todo)
      /\ b.cur \notin Entries(b.remaining)
      /\ b.cur \notin Entries(h)
      /\ Entries(b.todo) \cap Entries(b.remaining) = {}
  BY <1>3, <1>4 DEF Kept
<1> QED BY <1>1, <1>2, <1>5, <1>6 DEF b, h

(* An unmet dependency keeps the write: in held, or among the remaining.   *)
LEMMA UnmetBuffered ==
    ASSUME Base, Buffered, NEW n \in Node, NEW dep, DependencyUnmet(n, dep)
    PROVE  Buffered'
<1> DEFINE b == buf[n]
           h == held[n]
           st == settled[n]
           remaining == Append(b.remaining, b.cur)
           next == Drain(b.todo, remaining, b.progressed)
<1>1. b # Free
  BY DEF DependencyUnmet
<1>2. /\ b \in Worker /\ h \in Seq(Message) /\ b.cur \in Message
      /\ b.todo \in Seq(Message) /\ b.remaining \in Seq(Message)
      /\ b.draining \in BOOLEAN /\ b.progressed \in BOOLEAN
      /\ received[n] = st \cup {b.cur} \cup Entries(b.todo)
                          \cup Entries(b.remaining) \cup Entries(h)
      /\ b.cur \notin st /\ Entries(b.todo) \cap st = {}
      /\ Entries(b.remaining) \cap st = {} /\ Entries(h) \cap st = {}
      /\ Distinct(b.todo) /\ Distinct(b.remaining) /\ Distinct(h)
      /\ b.cur \notin Entries(b.todo) /\ b.cur \notin Entries(b.remaining)
      /\ b.cur \notin Entries(h) /\ Entries(b.todo) \cap Entries(b.remaining) = {}
  BY <1>1, BusyBuffer
<1>3. IF b.draining THEN h = <<>> ELSE b.todo = <<>> /\ b.remaining = <<>>
  BY <1>1 DEF Buffered, WorkerShape
<1>4. /\ buf' = [buf EXCEPT ![n] = IF b.draining THEN next ELSE Free]
      /\ held' = [held EXCEPT ![n] = IF b.draining THEN HeldWhile(next, remaining)
                                     ELSE Append(h, b.cur)]
      /\ UNCHANGED <<wire, serving, call, received, settled>>
  BY DEF DependencyUnmet
<1>5. /\ buf'[n] = (IF b.draining THEN next ELSE Free)
      /\ held'[n] = (IF b.draining THEN HeldWhile(next, remaining) ELSE Append(h, b.cur))
      /\ \A o \in Node : o # n =>
            buf'[o] = buf[o] /\ held'[o] = held[o] /\ settled'[o] = settled[o]
  BY <1>4 DEF Base, TypeOK
<1>6. /\ remaining \in Seq(Message)
      /\ Entries(remaining) = Entries(b.remaining) \cup {b.cur}
      /\ Distinct(remaining)
  BY <1>2, AppendEntries
<1> HIDE DEF b, h, st, remaining, next
<1>7. CASE b.draining
  <2>1. Entries(b.todo) \cap Entries(remaining) = {} /\ Entries(h) = {}
    BY <1>2, <1>3, <1>6, <1>7, EmptyEntries
  <2>2. /\ Entries(Hand(next, HeldWhile(next, remaining))) =
              Entries(b.todo) \cup Entries(remaining)
        /\ Distinct(Hand(next, HeldWhile(next, remaining)))
        /\ next # Free => next.draining /\ HeldWhile(next, remaining) = <<>>
    BY <1>2, <1>6, <2>1, DrainHand DEF next
  <2>3. Kept(received[n], st, Hand(next, HeldWhile(next, remaining)))
    BY <1>2, <1>6, <2>1, <2>2 DEF Kept
  <2> QED BY <1>4, <1>5, <1>7, <2>2, <2>3, OneBufferKept DEF st
<1>8. CASE ~b.draining
  <2>1. Entries(b.todo) = {} /\ Entries(b.remaining) = {}
    BY <1>3, <1>8, EmptyEntries
  <2>2. Entries(Append(h, b.cur)) = Entries(h) \cup {b.cur} /\ Distinct(Append(h, b.cur))
    BY <1>2, AppendEntries
  <2>3. Kept(received[n], st, Append(h, b.cur))
    BY <1>2, <2>1, <2>2 DEF Kept
  <2>4. Hand(Free, Append(h, b.cur)) = Append(h, b.cur)
    BY DEF Hand
  <2>5. buf'[n] = Free /\ held'[n] = Append(h, b.cur) /\ settled'[n] = st
    BY <1>4, <1>5, <1>8 DEF st
  <2>6. Kept(received[n], settled'[n], Hand(buf'[n], held'[n]))
    BY <2>3, <2>4, <2>5
  <2> QED BY <1>4, <1>5, <2>5, <2>6, OneBufferKept
<1> QED BY <1>2, <1>7, <1>8

(* Applying a write settles it and starts or continues the drain.          *)
LEMMA ApplyBuffered ==
    ASSUME Base, Buffered, NEW n \in Node, BufferApply(n)
    PROVE  Buffered'
<1> DEFINE b == buf[n]
           h == held[n]
           st == settled[n]
           todo == IF b.draining THEN b.todo ELSE h
           remaining == IF b.draining THEN b.remaining ELSE <<>>
           next == Drain(todo, remaining, b.draining)
<1>1. b # Free
  BY DEF BufferApply
<1>2. /\ b \in Worker /\ h \in Seq(Message) /\ b.cur \in Message
      /\ b.todo \in Seq(Message) /\ b.remaining \in Seq(Message)
      /\ b.draining \in BOOLEAN
      /\ received[n] = st \cup {b.cur} \cup Entries(b.todo)
                          \cup Entries(b.remaining) \cup Entries(h)
      /\ b.cur \notin st /\ Entries(b.todo) \cap st = {}
      /\ Entries(b.remaining) \cap st = {} /\ Entries(h) \cap st = {}
      /\ Distinct(b.todo) /\ Distinct(b.remaining) /\ Distinct(h)
      /\ b.cur \notin Entries(b.todo) /\ b.cur \notin Entries(b.remaining)
      /\ b.cur \notin Entries(h) /\ Entries(b.todo) \cap Entries(b.remaining) = {}
  BY <1>1, BusyBuffer
<1>3. IF b.draining THEN h = <<>> ELSE b.todo = <<>> /\ b.remaining = <<>>
  BY <1>1 DEF Buffered, WorkerShape
<1>4. /\ buf' = [buf EXCEPT ![n] = next]
      /\ held' = [held EXCEPT ![n] = HeldWhile(next, remaining)]
      /\ settled' = [settled EXCEPT ![n] = st \cup {b.cur}]
      /\ UNCHANGED <<wire, serving, call, received>>
  BY <1>2, <1>3 DEF BufferApply
<1> HIDE DEF next
<1>5. /\ buf'[n] = next
      /\ held'[n] = HeldWhile(next, remaining)
      /\ settled'[n] = st \cup {b.cur}
      /\ \A o \in Node : o # n =>
            buf'[o] = buf[o] /\ held'[o] = held[o] /\ settled'[o] = settled[o]
  BY <1>4 DEF Base, TypeOK
<1>6. <<>> \in Seq(Message)
  OBVIOUS
<1> HIDE DEF b, h, st
<1>7. /\ todo \in Seq(Message) /\ remaining \in Seq(Message)
      /\ Distinct(todo) /\ Distinct(remaining)
      /\ Entries(todo) \cap Entries(remaining) = {}
      /\ received[n] = st \cup {b.cur} \cup Entries(todo) \cup Entries(remaining)
      /\ b.cur \notin Entries(todo) /\ b.cur \notin Entries(remaining)
      /\ Entries(todo) \cap st = {} /\ Entries(remaining) \cap st = {}
  <2>1. CASE b.draining
    BY <1>2, <1>3, <2>1, EmptyEntries
  <2>2. CASE ~b.draining
    BY <1>2, <1>3, <1>6, <2>2, EmptyEntries
  <2> QED BY <1>2, <2>1, <2>2
<1> HIDE DEF todo, remaining
<1>8. /\ Entries(Hand(next, HeldWhile(next, remaining))) = Entries(todo) \cup Entries(remaining)
      /\ Distinct(Hand(next, HeldWhile(next, remaining)))
      /\ next # Free => next.draining /\ HeldWhile(next, remaining) = <<>>
  BY <1>2, <1>7, DrainHand DEF next
<1>9. Kept(received[n], st \cup {b.cur}, Hand(next, HeldWhile(next, remaining)))
  BY <1>7, <1>8 DEF Kept
<1> QED BY <1>4, <1>5, <1>8, <1>9, OneBufferKept

(* Clock.Send: no request has the new write's identity, because its stamp  *)
(* is later than every earlier one of the node.                            *)
LEMMA StampBuffered ==
    ASSUME Base, Buffered, NEW c \in Client, NEW k \in Key,
           NEW x \in Data \cup {Missing}, NEW now \in Wall, Stamp(c, k, x, now)
    PROVE  Buffered'
<1> DEFINE ts == Send(clock[Home[c]], now)
           op == OpFor(k, x, ts, c)
<1>1. /\ ts \in Timestamp
      /\ \A w \in writes : Home[w.op.val.by] = Home[c] => w.op.val.ts # ts
  BY StampIsLater DEF Stamp
<1>2. /\ call' = [call EXCEPT ![c] = [stage |-> "stamped", op |-> op]]
      /\ UNCHANGED <<held, buf, wire, serving, received, settled>>
  BY DEF Stamp
<1> HIDE DEF ts
<1>3. op.val.by = c /\ op.val.ts = ts
  BY <1>1, OpForType
<1> HIDE DEF op
<1>4. \A m \in Sent : RequestId(m) # OpId(op)
  <2> SUFFICES ASSUME NEW m \in Sent, RequestId(m) = OpId(op)
               PROVE  FALSE
    OBVIOUS
  <2>1. m.by = c /\ m.ts = ts
    BY <1>3 DEF RequestId, OpId
  <2>2. PICK w \in writes : Carries(m, w.op)
    BY DEF Base, RequestsAreWrites
  <2> QED BY <1>1, <2>1, <2>2 DEF Carries
<1>5. \A e \in Client : Writing(e)' => \A m \in Sent : RequestId(m) # OpId(call'[e].op)
  BY <1>2, <1>4 DEF Buffered, SentOnce, Writing, Base, TypeOK
<1>6. SentOnce'
  BY <1>2, <1>5 DEF Buffered, SentOnce, Sent
<1> QED BY <1>2, <1>6, BuffersKept

(* OnWrite: the requests are new, and carry no other client's write.       *)
LEMMA StoreBuffered ==
    ASSUME Base, Buffered, NEW c \in Client, StoreThenReplicate(c)
    PROVE  Buffered'
<1> DEFINE op == call[c].op
           new == Broadcast(op, call[c].deps)
<1>1. Writing(c) /\ op \in Op /\ call[c].deps \in SUBSET Dependency
  BY CallStages DEF StoreThenReplicate, Base, TypeOK, Writing
<1>2. op.val.by = c /\ \A m \in Sent : RequestId(m) # OpId(op)
  BY <1>1 DEF Base, CallsAreWrites, Buffered, SentOnce
<1>3. \A m \in new : RequestId(m) = OpId(op) /\ m.by = c
  BY <1>1, <1>2, BroadcastType
<1>4. /\ wire' = wire \cup new
      /\ call' = [call EXCEPT ![c] = Idle]
      /\ UNCHANGED <<held, buf, serving, received, settled>>
  BY DEF StoreThenReplicate
<1> HIDE DEF op, new
<1>5. new \cap Sent = {}
  BY <1>2, <1>3
<1>6. \A e \in Client : Writing(e)' => \A m \in Sent' : RequestId(m) # OpId(call'[e].op)
  <2> SUFFICES ASSUME NEW e \in Client, Writing(e)', NEW m \in Sent'
               PROVE  RequestId(m) # OpId(call'[e].op)
    OBVIOUS
  <2>1. e # c /\ Writing(e) /\ call'[e] = call[e]
    BY <1>4 DEF Writing, Base, TypeOK
  <2>2. CASE m \in Sent
    BY <2>1, <2>2 DEF Buffered, SentOnce
  <2>3. CASE m \in new
    <3>1. m.by # call[e].op.val.by
      BY <1>3, <2>1, <2>3 DEF Base, CallsAreWrites
    <3> QED BY <2>1, <3>1 DEF RequestId, OpId
  <2> QED BY <1>4, <2>2, <2>3 DEF Sent
<1>7. SentOnce'
  BY <1>4, <1>5, <1>6 DEF Buffered, SentOnce, Sent
<1> QED BY <1>4, <1>7, BuffersKept

(* Buffer.Receive takes b.mu with a request it has not been handed before. *)
LEMMA ReceiveBuffered ==
    ASSUME Base, Buffered, NEW m \in serving, BufferReceive(m)
    PROVE  Buffered'
<1> DEFINE n == m.to
           b == LookAt(m, FALSE, <<>>, <<>>, FALSE)
<1>1. m \in Message /\ n \in Node /\ held[n] \in Seq(Message)
  BY DEF Base, TypeOK, Message
<1>2. b \in Worker /\ b.cur = m /\ b.todo = <<>> /\ b.remaining = <<>> /\ ~b.draining
  BY <1>1 DEF LookAt, Worker, Message
<1>3. /\ buf[n] = Free
      /\ buf' = [buf EXCEPT ![n] = b]
      /\ serving' = serving \ {m}
      /\ received' = [received EXCEPT ![n] = received[n] \cup {m}]
      /\ UNCHANGED <<held, call, wire, settled>>
  BY DEF BufferReceive
<1> HIDE DEF b
<1>4. /\ buf'[n] = b /\ received'[n] = received[n] \cup {m}
      /\ \A o \in Node : o # n => buf'[o] = buf[o] /\ received'[o] = received[o]
  BY <1>1, <1>3 DEF Base, TypeOK
<1>5. m \notin received[n] /\ m \notin wire
  BY <1>1 DEF Buffered, SentOnce
<1>6. Kept(received[n], settled[n], held[n])
  BY <1>1, <1>3, ForgottenAsKept DEF Buffered, Hand
<1>7. Kept(received'[n], settled[n], Hand(b, held[n]))
  <2>1. /\ Entries(Hand(b, held[n])) =
              {b.cur} \cup Entries(b.todo) \cup Entries(b.remaining) \cup Entries(held[n])
        /\ Distinct(Hand(b, held[n])) <=>
              /\ Distinct(b.todo) /\ Distinct(b.remaining) /\ Distinct(held[n])
              /\ b.cur \notin Entries(b.todo) \cup Entries(b.remaining) \cup Entries(held[n])
              /\ Entries(b.todo) \cap Entries(b.remaining) = {}
              /\ (Entries(b.todo) \cup Entries(b.remaining)) \cap Entries(held[n]) = {}
    BY <1>1, <1>2, HandEntries
  <2>2. /\ Entries(Hand(b, held[n])) = {m} \cup Entries(held[n])
        /\ Distinct(held[n]) /\ m \notin Entries(held[n]) => Distinct(Hand(b, held[n]))
    BY <1>2, <2>1, EmptyEntries
  <2>3. m \notin settled[n] /\ m \notin Entries(held[n]) /\ Distinct(held[n])
    BY <1>5, <1>6 DEF Kept
  <2> QED BY <1>4, <1>6, <2>2, <2>3 DEF Kept
<1>8. \A o \in Node : Kept(received'[o], settled'[o], Hand(buf'[o], held'[o]))
  <2> SUFFICES ASSUME NEW o \in Node
               PROVE  Kept(received'[o], settled'[o], Hand(buf'[o], held'[o]))
    OBVIOUS
  <2>1. CASE o = n
    BY <1>3, <1>4, <1>7, <2>1
  <2>2. CASE o # n
    <3>1. Kept(received[o], settled[o], Hand(buf[o], held[o]))
      BY ForgottenAsKept DEF Buffered
    <3> QED BY <1>3, <1>4, <2>2, <3>1
  <2> QED BY <2>1, <2>2
<1>9. WorkerShape'
  BY <1>2, <1>3, <1>4 DEF Buffered, WorkerShape
<1>10. SentOnce'
  <2>1. Sent' \subseteq Sent
    BY <1>1, <1>3, <1>4 DEF Sent
  <2>2. \A o \in Node : (wire' \cup serving') \cap received'[o] = {}
    BY <1>1, <1>3, <1>4, <1>5 DEF Buffered, SentOnce
  <2> QED BY <1>3, <2>1, <2>2 DEF Buffered, SentOnce, Writing
<1> QED BY <1>8, <1>9, <1>10, ForgottenAsKept DEF Buffered

(* Every step keeps Buffered.                                              *)
LEMMA NextBuffered == Base /\ Buffered /\ [Next]_vars => Buffered'
<1> SUFFICES ASSUME Base, Buffered, [Next]_vars PROVE Buffered'
  OBVIOUS
<1>1. ASSUME NEW c \in Client, NEW k \in Key, NEW x \in Data \cup {Missing},
             NEW now \in Wall, Stamp(c, k, x, now)
      PROVE  Buffered'
  BY <1>1, StampBuffered
<1>2. ASSUME NEW c \in Client, StoreThenReplicate(c) PROVE Buffered'
  BY <1>2, StoreBuffered
<1>3. ASSUME UNCHANGED <<held, buf, wire, serving, received, settled>>,
             \A e \in Client : Writing(e)' => Writing(e) /\ call'[e].op = call[e].op
      PROVE  Buffered'
  <2>1. SentOnce'
    BY <1>3 DEF Buffered, SentOnce, Sent
  <2> QED BY <1>3, <2>1, BuffersKept
<1>4. ASSUME NEW c \in Client, AttachDeps(c) PROVE Buffered'
  BY <1>3, <1>4 DEF AttachDeps, Writing, Base, TypeOK
<1>5. ASSUME NEW c \in Client, NEW k \in Key, GetRead(c, k) PROVE Buffered'
  BY <1>3, <1>5 DEF GetRead, Writing, Base, TypeOK
<1>6. ASSUME NEW c \in Client, GetRecord(c) PROVE Buffered'
  BY <1>3, <1>6 DEF GetRecord, Writing, Base, TypeOK
<1>7. ASSUME NEW m \in wire, wire' \subseteq wire \ {m} \/ wire' = wire,
             serving' = serving \/ (serving' = serving \cup {m} /\ wire' = wire \ {m}),
             UNCHANGED <<held, buf, call, received, settled>>
      PROVE  Buffered'
  <2>1. SentOnce'
    BY <1>7 DEF Buffered, SentOnce, Sent, Writing
  <2> QED BY <1>7, <2>1, BuffersKept
<1>8. ASSUME NEW m \in wire, NEW now \in Wall, Serve(m, now) \/ ServeError(m, now) \/ Lose(m)
      PROVE  Buffered'
  BY <1>7, <1>8 DEF Serve, ServeError, Lose
<1>9. ASSUME NEW m \in serving, BufferReceive(m) PROVE Buffered'
  BY <1>9, ReceiveBuffered
<1>10. ASSUME NEW n \in Node, NEW dep, DependencyMet(n, dep) PROVE Buffered'
  <2> DEFINE b == buf[n]
  <2>1. /\ b # Free /\ buf'[n] # Free
        /\ buf'[n].cur = b.cur /\ buf'[n].todo = b.todo /\ buf'[n].remaining = b.remaining
        /\ buf'[n].draining = b.draining
        /\ \A o \in Node : o # n => buf'[o] = buf[o]
        /\ UNCHANGED <<held, call, wire, serving, received, settled>>
    BY <1>10, MetWorker DEF DependencyMet, Base
  <2>2. buf'[n] # Free /\ held'[n] = held[n]
    BY <2>1
  <2> HIDE DEF b
  <2>3. Hand(buf'[n], held'[n]) = Hand(b, held[n])
    BY <2>1, <2>2 DEF Hand
  <2>4. Kept(received[n], settled'[n], Hand(buf'[n], held'[n]))
    BY <2>1, <2>3, ForgottenAsKept DEF Buffered, b
  <2>5. IF b.draining THEN held[n] = <<>> ELSE b.todo = <<>> /\ b.remaining = <<>>
    BY <2>1 DEF Buffered, WorkerShape, b
  <2> QED BY <2>1, <2>2, <2>4, <2>5, OneBufferKept
<1>11. ASSUME NEW n \in Node, NEW dep, DependencyUnmet(n, dep) PROVE Buffered'
  BY <1>11, UnmetBuffered
<1>12. ASSUME NEW n \in Node, BufferApply(n) PROVE Buffered'
  BY <1>12, ApplyBuffered
<1>13. CASE UNCHANGED vars
  BY <1>3, <1>13 DEF vars, Writing
<1>14. CASE \E m \in wire : Lose(m)
  BY <1>7, <1>14 DEF Lose
<1> QED BY <1>1, <1>2, <1>4, <1>5, <1>6, <1>8, <1>9, <1>10, <1>11, <1>12, <1>13, <1>14
        DEF Next, Deliver, Continue, BufferStep, Rest

(* Base and Buffered hold in every behaviour of causal mode.               *)
THEOREM CausalBuffered == Spec => []Buffered
BY CausalBase, InitBuffered, NextBuffered, PTL DEF Spec

(* Every write Replicate has reported Success for is in the store's past   *)
(* or in the buffer exactly once, however many writes it holds.            *)
THEOREM NoneIsForgotten == Spec => []NoneForgotten
<1>1. Buffered => NoneForgotten
  BY DEF Buffered
<1> QED BY <1>1, CausalBuffered, PTL
----------------------------------------------------------------------------
(* Drained: what the passes over held leave behind is not ready.           *)

(* A held write is not ready, or a client of the node stored one of the    *)
(* versions it waits for.                                                  *)
Blocked(n, m) ==
    Ready(n, m) => \E dep \in m.deps : Home[data[n][dep.key].by] = n

(* The writes a buffer has given up on for now: the held ones or, in a     *)
(* pass that has applied nothing yet, the remaining ones.                  *)
GivenUp(n) ==
    IF buf[n] # Free /\ buf[n].draining
    THEN IF buf[n].progressed THEN {} ELSE Entries(buf[n].remaining)
    ELSE Entries(held[n])

(* The worker checks dependencies of the write it looks at.                *)
ChecksOwnDeps == \A n \in Node : buf[n] # Free => buf[n].unchecked \subseteq buf[n].cur.deps

Drained ==
    /\ ChecksOwnDeps
    /\ \A n \in Node : \A m \in GivenUp(n) : Blocked(n, m)

(* The initial buffers are empty.                                          *)
LEMMA InitDrained == Init => Drained
BY EmptyEntries DEF Init, Drained, ChecksOwnDeps, GivenUp

(* What a buffer has given up on is a set of requests.                     *)
LEMMA GivenUpType ==
    ASSUME TypeOK, NEW n \in Node
    PROVE  GivenUp(n) \subseteq Message
<1>1. \A s \in Seq(Message) : Entries(s) \subseteq Message
  BY DEF Entries
<1>2. held[n] \in Seq(Message) /\ (buf[n] # Free => buf[n].remaining \in Seq(Message))
  BY DEF TypeOK, Worker
<1> QED BY <1>1, <1>2 DEF GivenUp

(* A step that touches no buffer and changes a store, if at all, by a      *)
(* local write.                                                            *)
LEMMA LocalStoreDrained ==
    ASSUME Base, Drained, UNCHANGED <<buf, held>>,
           \A n \in Node, k \in Key :
              data'[n][k] = data[n][k] \/ Home[data'[n][k].by] = n
    PROVE  Drained'
<1>1. ASSUME NEW n \in Node, NEW m \in GivenUp(n) PROVE Blocked(n, m)'
  <2>1. \A dep \in m.deps : dep.key \in Key
    BY GivenUpType DEF Base, Message, Dependency
  <2>2. Blocked(n, m)
    BY DEF Drained
  <2>3. CASE \E dep \in m.deps : data'[n][dep.key] # data[n][dep.key]
    BY <2>1, <2>3 DEF Blocked
  <2>4. CASE \A dep \in m.deps : data'[n][dep.key] = data[n][dep.key]
    BY <2>2, <2>4 DEF Blocked, Ready, Shows
  <2> QED BY <2>3, <2>4
<1>2. \A n \in Node : GivenUp(n)' = GivenUp(n)
  BY DEF GivenUp
<1>3. ChecksOwnDeps'
  BY DEF Drained, ChecksOwnDeps
<1> QED BY <1>1, <1>2, <1>3 DEF Drained

(* A step of one node's buffer.                                            *)
LEMMA OneBufferDrained ==
    ASSUME Base, Drained, NEW n \in Node,
           \A o \in Node : o # n =>
              buf'[o] = buf[o] /\ held'[o] = held[o] /\ data'[o] = data[o],
           buf'[n] # Free => buf'[n].unchecked \subseteq buf'[n].cur.deps,
           \A m \in GivenUp(n)' : Blocked(n, m)'
    PROVE  Drained'
<1>1. ASSUME NEW o \in Node, o # n
      PROVE  /\ GivenUp(o)' = GivenUp(o)
             /\ \A m \in GivenUp(o) : Blocked(o, m)'
  <2>1. GivenUp(o)' = GivenUp(o)
    BY <1>1 DEF GivenUp
  <2>2. data'[o] = data[o] /\ \A m \in GivenUp(o) : Blocked(o, m)
    BY <1>1 DEF Drained
  <2> QED BY <2>1, <2>2 DEF Blocked, Ready, Shows
<1>2. ChecksOwnDeps'
  BY DEF Drained, ChecksOwnDeps
<1> QED BY <1>1, <1>2 DEF Drained

(* GetVersion against MinTS decides whether the dependency shows.          *)
LEMMA UnmetNotShown ==
    ASSUME NEW n \in Node, NEW dep, ~DepSatisfied(data[n], dep)
    PROVE  ~Shows(n, dep)
BY DEF DepSatisfied, GetVersion, Shows

(* An entry that is not ready goes to held or to remaining.                *)
LEMMA UnmetDrained ==
    ASSUME Base, Buffered, Drained, NEW n \in Node, NEW dep, DependencyUnmet(n, dep)
    PROVE  Drained'
<1> DEFINE b == buf[n]
           remaining == Append(b.remaining, b.cur)
           next == Drain(b.todo, remaining, b.progressed)
<1>1. /\ b # Free /\ dep \in b.unchecked /\ ~DepSatisfied(data[n], dep)
      /\ buf' = [buf EXCEPT ![n] = IF b.draining THEN next ELSE Free]
      /\ held' = [held EXCEPT ![n] = IF b.draining THEN HeldWhile(next, remaining)
                                     ELSE Append(held[n], b.cur)]
      /\ data' = data
  BY DEF DependencyUnmet
<1>2. /\ held[n] \in Seq(Message) /\ b.cur \in Message
      /\ b.todo \in Seq(Message) /\ b.remaining \in Seq(Message)
      /\ b.draining \in BOOLEAN /\ b.progressed \in BOOLEAN
  BY <1>1, BusyBuffer
<1>3. /\ remaining \in Seq(Message)
      /\ Entries(remaining) = Entries(b.remaining) \cup {b.cur}
      /\ Entries(Append(held[n], b.cur)) = Entries(held[n]) \cup {b.cur}
  BY <1>2, AppendEntries
<1>4. ~Ready(n, b.cur)
  BY <1>1, UnmetNotShown DEF Drained, ChecksOwnDeps, Ready
<1>5. \A m \in {b.cur} : Blocked(n, m)'
  BY <1>1, <1>4 DEF Blocked, Ready, Shows
<1>6. \A m \in GivenUp(n) : Blocked(n, m)'
  BY <1>1 DEF Drained, Blocked, Ready, Shows
<1> HIDE DEF remaining, next
<1>7. /\ buf'[n] = (IF b.draining THEN next ELSE Free)
      /\ held'[n] = (IF b.draining THEN HeldWhile(next, remaining)
                     ELSE Append(held[n], b.cur))
      /\ \A o \in Node : o # n =>
            buf'[o] = buf[o] /\ held'[o] = held[o] /\ data'[o] = data[o]
  BY <1>1 DEF Base, TypeOK
<1>8. CASE ~b.draining
  <2>1. GivenUp(n)' = GivenUp(n) \cup {b.cur}
    BY <1>1, <1>3, <1>7, <1>8 DEF GivenUp
  <2>2. \A m \in GivenUp(n)' : Blocked(n, m)'
    BY <1>5, <1>6, <2>1
  <2> QED BY <1>7, <1>8, <2>2, OneBufferDrained
<1>9. CASE b.draining
  <2>1. \/ Stops(next, b.todo, remaining, b.progressed)
        \/ /\ next # Free /\ next.draining /\ next.unchecked = next.cur.deps
           /\ \/ SamePass(next, b.todo, remaining, b.progressed)
              \/ NewPass(next, b.todo, remaining, b.progressed)
    BY <1>2, <1>3, DrainResult DEF next
  <2>2. ~b.progressed => \A m \in Entries(remaining) : Blocked(n, m)'
    BY <1>1, <1>3, <1>5, <1>6, <1>9 DEF GivenUp
  <2>3. buf'[n] = next /\ held'[n] = HeldWhile(next, remaining)
    BY <1>7, <1>9
  <2>4. CASE Stops(next, b.todo, remaining, b.progressed)
    <3>1. GivenUp(n)' = Entries(remaining)
      BY <2>3, <2>4 DEF GivenUp, HeldWhile, Stops
    <3>2. ~b.progressed \/ Entries(remaining) = {}
      BY <2>4, EmptyEntries DEF Stops
    <3> QED BY <1>7, <2>2, <2>3, <2>4, <3>1, <3>2, OneBufferDrained DEF Stops
  <2>5. CASE next # Free /\ next.draining /\ next.unchecked = next.cur.deps
             /\ SamePass(next, b.todo, remaining, b.progressed)
    <3>1. GivenUp(n)' = IF b.progressed THEN {} ELSE Entries(remaining)
      BY <2>3, <2>5 DEF GivenUp, SamePass
    <3> QED BY <1>7, <2>2, <2>3, <2>5, <3>1, OneBufferDrained
  <2>6. CASE next # Free /\ next.draining /\ next.unchecked = next.cur.deps
             /\ NewPass(next, b.todo, remaining, b.progressed)
    <3>1. GivenUp(n)' = {}
      BY <2>3, <2>6, EmptyEntries DEF GivenUp, NewPass
    <3> QED BY <1>7, <2>3, <2>6, <3>1, OneBufferDrained
  <2> QED BY <2>1, <2>4, <2>5, <2>6
<1> QED BY <1>2, <1>8, <1>9

(* After an applied write the entries are looked at again.                 *)
LEMMA ApplyDrained ==
    ASSUME Base, Buffered, Drained, NEW n \in Node, BufferApply(n)
    PROVE  Drained'
<1> DEFINE b == buf[n]
           todo == IF b.draining THEN b.todo ELSE held[n]
           remaining == IF b.draining THEN b.remaining ELSE <<>>
           next == Drain(todo, remaining, b.draining)
<1>1. b # Free
  BY DEF BufferApply
<1>2. /\ held[n] \in Seq(Message) /\ b.todo \in Seq(Message)
      /\ b.remaining \in Seq(Message) /\ b.draining \in BOOLEAN
      /\ ~b.draining => b.remaining = <<>>
  BY <1>1, BusyBuffer DEF Buffered, WorkerShape
<1>3. /\ buf' = [buf EXCEPT ![n] = next]
      /\ held' = [held EXCEPT ![n] = HeldWhile(next, remaining)]
      /\ data' = [data EXCEPT ![n] = ApplyReplicated(data[n], b.cur)]
  BY <1>2 DEF BufferApply
<1> HIDE DEF next
<1>4. /\ buf'[n] = next /\ held'[n] = HeldWhile(next, remaining)
      /\ \A o \in Node : o # n =>
            buf'[o] = buf[o] /\ held'[o] = held[o] /\ data'[o] = data[o]
  BY <1>3 DEF Base, TypeOK
<1> HIDE DEF b
<1>5. <<>> \in Seq(Message)
  OBVIOUS
<1>6. todo \in Seq(Message) /\ remaining \in Seq(Message)
  BY <1>2, <1>5
<1>7. ~b.draining => Entries(remaining) = {}
  BY EmptyEntries
<1> HIDE DEF todo, remaining
<1>8. \/ Stops(next, todo, remaining, b.draining)
      \/ /\ next # Free /\ next.draining /\ next.unchecked = next.cur.deps
         /\ \/ SamePass(next, todo, remaining, b.draining)
            \/ NewPass(next, todo, remaining, b.draining)
  BY <1>2, <1>6, DrainResult DEF next
<1>9. GivenUp(n)' = {}
  <2>1. CASE Stops(next, todo, remaining, b.draining)
    <3>1. Entries(remaining) = {}
      BY <1>7, <2>1, EmptyEntries DEF Stops
    <3> QED BY <1>4, <2>1, <3>1 DEF GivenUp, HeldWhile, Stops
  <2>2. CASE next # Free /\ next.draining /\ SamePass(next, todo, remaining, b.draining)
    BY <1>4, <1>7, <2>2 DEF GivenUp, SamePass
  <2>3. CASE next # Free /\ next.draining /\ NewPass(next, todo, remaining, b.draining)
    BY <1>4, <2>3, EmptyEntries DEF GivenUp, NewPass
  <2> QED BY <1>8, <2>1, <2>2, <2>3
<1>10. buf'[n] # Free => buf'[n].unchecked \subseteq buf'[n].cur.deps
  BY <1>4, <1>8 DEF Stops
<1> QED BY <1>4, <1>9, <1>10, OneBufferDrained

(* Every step keeps Drained.                                               *)
LEMMA NextDrained == Base /\ Buffered /\ Drained /\ [Next]_vars => Drained'
<1> SUFFICES ASSUME Base, Buffered, Drained, [Next]_vars PROVE Drained'
  OBVIOUS
<1>1. CASE UNCHANGED <<buf, held, data>>
  BY <1>1, LocalStoreDrained
<1>2. ASSUME NEW c \in Client, StoreThenReplicate(c) PROVE Drained'
  <2> DEFINE n == Home[c]
             op == call[c].op
  <2>1. n \in Node /\ data[n] \in Map /\ Writing(c) /\ op \in Op
    BY <1>2, HomeAssumption, CallStages DEF StoreThenReplicate, Base, TypeOK, Map, Writing
  <2>2. op.val.by = c
    BY <2>1 DEF Base, CallsAreWrites
  <2>3. data' = [data EXCEPT ![n] = StoreLocally(data[n], op)] /\ UNCHANGED <<buf, held>>
    BY <1>2 DEF StoreThenReplicate
  <2> HIDE DEF op
  <2>4. /\ StoreLocally(data[n], op)[op.key].by = c
        /\ \A k \in Key : k # op.key => StoreLocally(data[n], op)[k] = data[n][k]
    BY <2>1, <2>2, StoreLocallyResult
  <2>5. \A o \in Node, k \in Key :
           data'[o][k] = data[o][k] \/ Home[data'[o][k].by] = o
    BY <2>1, <2>3, <2>4 DEF Base, TypeOK
  <2> QED BY <2>3, <2>5, LocalStoreDrained
<1>3. ASSUME NEW m \in serving, BufferReceive(m) PROVE Drained'
  <2> DEFINE b == LookAt(m, FALSE, <<>>, <<>>, FALSE)
  <2>1. m.to \in Node
    BY DEF Base, TypeOK, Message
  <2>2. ~b.draining /\ b.unchecked = b.cur.deps
    BY DEF LookAt
  <2>3. buf[m.to] = Free /\ buf' = [buf EXCEPT ![m.to] = b] /\ UNCHANGED <<held, data>>
    BY <1>3 DEF BufferReceive
  <2> HIDE DEF b
  <2>4. buf'[m.to] = b /\ \A o \in Node : o # m.to => buf'[o] = buf[o]
    BY <2>1, <2>3 DEF Base, TypeOK
  <2>5. GivenUp(m.to)' = GivenUp(m.to)
    BY <2>2, <2>3, <2>4 DEF GivenUp
  <2>6. \A x \in GivenUp(m.to) : Blocked(m.to, x)'
    BY <2>1, <2>3 DEF Drained, Blocked, Ready, Shows
  <2> QED BY <2>1, <2>2, <2>3, <2>4, <2>5, <2>6, OneBufferDrained
<1>4. ASSUME NEW n \in Node, NEW dep, DependencyMet(n, dep) PROVE Drained'
  <2>1. /\ buf[n] # Free /\ buf'[n] # Free
        /\ buf'[n].cur = buf[n].cur /\ buf'[n].remaining = buf[n].remaining
        /\ buf'[n].draining = buf[n].draining /\ buf'[n].progressed = buf[n].progressed
        /\ buf'[n].unchecked \subseteq buf[n].unchecked
        /\ \A o \in Node : o # n => buf'[o] = buf[o]
        /\ UNCHANGED <<held, data>>
    BY <1>4, MetWorker DEF DependencyMet, Base
  <2>2. GivenUp(n)' = GivenUp(n)
    BY <2>1 DEF GivenUp
  <2>3. \A m \in GivenUp(n) : Blocked(n, m)'
    BY <2>1 DEF Drained, Blocked, Ready, Shows
  <2>4. buf'[n].unchecked \subseteq buf'[n].cur.deps
    BY <2>1 DEF Drained, ChecksOwnDeps
  <2> QED BY <2>1, <2>2, <2>3, <2>4, OneBufferDrained
<1>5. ASSUME NEW n \in Node, NEW dep, DependencyUnmet(n, dep) PROVE Drained'
  BY <1>5, UnmetDrained
<1>6. ASSUME NEW n \in Node, BufferApply(n) PROVE Drained'
  BY <1>6, ApplyDrained
<1> QED BY <1>1, <1>2, <1>3, <1>4, <1>5, <1>6
        DEF Next, Deliver, Continue, BufferStep, Stamp, AttachDeps, GetRead, GetRecord,
            Serve, ServeError, Lose, Rest, vars

(* Drained holds in every behaviour of causal mode.                        *)
THEOREM CausalDrained == Spec => []Drained
BY CausalBase, CausalBuffered, InitDrained, NextDrained, PTL DEF Spec

(* When drainLocked has ended, nothing it leaves in held is ready, but for *)
(* what a local write made ready behind the buffer's back.                 *)
THEOREM DrainIsComplete == Spec => []DrainComplete
<1>1. Drained => DrainComplete
  BY DEF Drained, DrainComplete, GivenUp, Blocked, Entries
<1> QED BY <1>1, CausalDrained, PTL
----------------------------------------------------------------------------
(* Causal: a write travels with what its client read and waits for it.     *)

(* What the client read shows at the node, or is the node's own business.  *)
Covered(n, dep) == Shows(n, dep) \/ WritesLocally(n, dep.key)

(* A version in a store is that of a write of the history.                 *)
DataAreWrites ==
    \A n \in Node, k \in Key : data[n][k] # Missing =>
        \E w \in writes : w.op.key = k /\ Holds(n, w)

(* No dependency asks for the zero timestamp, which a missing key has.     *)
Dated(deps) == \A dep \in deps : dep.minTS.wall \in Wall

DepsAreDated ==
    /\ \A n \in Node : Dated(reads[n])
    /\ \A c \in Client : call[c] # Idle =>
          /\ call[c].stage = "read" => call[c].dep.minTS.wall \in Wall
          /\ call[c].stage = "attached" => Dated(call[c].deps)
    /\ \A m \in Sent : Dated(m.deps)

(* What a client has read stays covered at its own node.                   *)
OwnReadsCovered ==
    /\ \A c \in Client : \A dep \in seen[c] : Covered(Home[c], dep)
    /\ \A c \in Client : call[c] # Idle /\ call[c].stage = "read" =>
          Covered(Home[c], call[c].dep)
    /\ \A w \in writes : \A dep \in w.need : Covered(Home[w.op.val.by], dep)

(* What depsSatisfied has found met stays covered while it checks the rest.*)
CheckedAreCovered ==
    \A n \in Node : buf[n] # Free =>
        \A dep \in buf[n].cur.deps \ buf[n].unchecked : Covered(n, dep)

(* The reads of a client that has its node to itself are in the tracker,   *)
(* and those of its write under way in the tracker or attached.            *)
ReadsTravel ==
    \A c \in Client : Alone(c) =>
        /\ seen[c] \subseteq reads[Home[c]]
        /\ Writing(c) =>
              /\ seen[c] = {}
              /\ \A w \in writes : OpId(w.op) = OpId(call[c].op) =>
                    w.need \subseteq IF call[c].stage = "stamped" THEN reads[Home[c]]
                                     ELSE call[c].deps

(* A request names everything its client had read.                         *)
RequestsCarryReads ==
    \A m \in Sent, w \in writes :
        Alone(m.by) /\ OpId(w.op) = RequestId(m) => w.need \subseteq m.deps

Causal ==
    /\ DataAreWrites
    /\ DepsAreDated
    /\ OwnReadsCovered
    /\ CheckedAreCovered
    /\ ReadsTravel
    /\ RequestsCarryReads
    /\ CausalVisibility
(* How a key of a node's store changes: a client of the node stores its    *)
(* stamped write, or the buffer applies a write that is newer than what    *)
(* the store has, once all its dependencies have been found met.           *)
ByClient(n, k) ==
    \E w \in writes :
        /\ Home[w.op.val.by] = n /\ w.op.key = k
        /\ data'[n][k] \in Value
        /\ data'[n][k].ts = w.op.val.ts /\ data'[n][k].by = w.op.val.by
        /\ ~w.op.val.deleted => data'[n][k] = w.op.val

ByBuffer(n, k) ==
    \E m \in received[n] :
        /\ buf[n] # Free /\ buf[n].cur = m /\ buf[n].unchecked = {}
        /\ m.key = k
        /\ data'[n][k] = Decode(m) /\ data'[n][k] \in Value
        /\ data'[n][k].ts = m.ts /\ data'[n][k].by = m.by
        /\ data[n][k] # Missing => After(m.ts, data[n][k].ts)

LEMMA StoreChanges ==
    ASSUME Base, Buffered, [Next]_vars
    PROVE  /\ writes \subseteq writes'
           /\ \A n \in Node, k \in Key :
                 data'[n][k] = data[n][k] \/ ByClient(n, k) \/ ByBuffer(n, k)
<1>1. ASSUME NEW c \in Client, StoreThenReplicate(c), NEW n \in Node, NEW k \in Key
      PROVE  data'[n][k] = data[n][k] \/ ByClient(n, k)
  <2> DEFINE op == call[c].op
  <2>1. Home[c] \in Node /\ data[Home[c]] \in Map /\ Writing(c) /\ op \in Op
    BY <1>1, HomeAssumption, CallStages DEF StoreThenReplicate, Base, TypeOK, Map, Writing
  <2>2. PICK w \in writes : w.op = op /\ op.val.by = c
    BY <2>1 DEF Base, CallsAreWrites
  <2>3. data' = [data EXCEPT ![Home[c]] = StoreLocally(data[Home[c]], op)]
    BY <1>1 DEF StoreThenReplicate
  <2> HIDE DEF op
  <2>4. /\ StoreLocally(data[Home[c]], op)[op.key] \in Value
        /\ StoreLocally(data[Home[c]], op)[op.key].ts = op.val.ts
        /\ StoreLocally(data[Home[c]], op)[op.key].by = op.val.by
        /\ ~op.val.deleted => StoreLocally(data[Home[c]], op)[op.key] = op.val
        /\ \A j \in Key : j # op.key =>
              StoreLocally(data[Home[c]], op)[j] = data[Home[c]][j]
    BY <2>1, StoreLocallyResult
  <2>5. CASE n = Home[c] /\ k = op.key
    <3>1. data'[n][k] = StoreLocally(data[Home[c]], op)[op.key]
      BY <2>3, <2>5 DEF Base, TypeOK
    <3> QED BY <2>2, <2>4, <2>5, <3>1 DEF ByClient
  <2>6. CASE ~(n = Home[c] /\ k = op.key)
    BY <2>3, <2>4, <2>6 DEF Base, TypeOK
  <2> QED BY <2>5, <2>6
<1>2. ASSUME NEW o \in Node, BufferApply(o), NEW n \in Node, NEW k \in Key
      PROVE  data'[n][k] = data[n][k] \/ ByBuffer(n, k)
  <2> DEFINE m == buf[o].cur
             d == ApplyReplicated(data[o], m)
  <2>1. /\ buf[o] # Free /\ buf[o].unchecked = {}
        /\ data' = [data EXCEPT ![o] = d]
    BY <1>2 DEF BufferApply
  <2>2. m \in Message /\ m \in received[o] /\ data[o] \in Map
    BY <2>1, BusyBuffer DEF Base, TypeOK, Map
  <2>3. /\ \A j \in Key : j # m.key => d[j] = data[o][j]
        /\ Accepts(data[o], m.key, m.ts) =>
              /\ d[m.key] = Decode(m)
              /\ data[o][m.key] # Missing => After(m.ts, data[o][m.key].ts)
        /\ ~Accepts(data[o], m.key, m.ts) => d = data[o]
    BY <2>2, ApplyReplicatedResult
  <2>4. Decode(m) \in Value /\ Decode(m).ts = m.ts /\ Decode(m).by = m.by
    BY <2>2, DecodeType
  <2> HIDE DEF d
  <2>5. CASE n = o /\ k = m.key /\ Accepts(data[o], m.key, m.ts)
    <3>1. data'[n][k] = Decode(m)
      BY <2>1, <2>3, <2>5 DEF Base, TypeOK
    <3> QED BY <2>1, <2>2, <2>3, <2>4, <2>5, <3>1 DEF ByBuffer
  <2>6. CASE ~(n = o /\ k = m.key /\ Accepts(data[o], m.key, m.ts))
    BY <2>1, <2>3, <2>6 DEF Base, TypeOK
  <2> QED BY <2>5, <2>6
<1>3. \/ data' = data
      \/ \E c \in Client : StoreThenReplicate(c)
      \/ \E o \in Node : BufferApply(o)
  BY DEF Next, Deliver, Continue, BufferStep, Stamp, AttachDeps, GetRead, GetRecord,
         Serve, ServeError, Lose, BufferReceive, DependencyMet, DependencyUnmet, Rest, vars
<1>4. writes \subseteq writes'
  BY DEF Next, Deliver, Continue, BufferStep, Stamp, AttachDeps, StoreThenReplicate,
         GetRead, GetRecord, Serve, ServeError, Lose, BufferReceive, DependencyMet,
         DependencyUnmet, BufferApply, Rest, vars
<1> QED BY <1>1, <1>2, <1>3, <1>4

(* What is covered stays covered: a buffer only moves on to newer versions *)
(* and a local write of the key is in the history.                         *)
LEMMA CoveredStays ==
    ASSUME Base, Buffered, [Next]_vars, NEW n \in Node, NEW dep \in Dependency, Covered(n, dep)
    PROVE  Covered(n, dep)'
<1> DEFINE k == dep.key
<1>1. k \in Key /\ dep.minTS \in Timestamp
  BY DEF Dependency
<1>2. /\ writes \subseteq writes'
      /\ data'[n][k] = data[n][k] \/ ByClient(n, k) \/ ByBuffer(n, k)
  BY <1>1, StoreChanges
<1>3. CASE WritesLocally(n, k)
  BY <1>2, <1>3 DEF Covered, WritesLocally
<1>4. CASE ByClient(n, k)
  BY <1>2, <1>4 DEF Covered, WritesLocally, ByClient
<1>5. CASE Shows(n, dep) /\ data'[n][k] = data[n][k]
  BY <1>5 DEF Covered, Shows
<1>6. CASE Shows(n, dep) /\ ByBuffer(n, k)
  <2>1. PICK m \in received[n] :
           /\ data'[n][k] \in Value /\ data'[n][k].ts = m.ts
           /\ data[n][k] # Missing => After(m.ts, data[n][k].ts)
    BY <1>6 DEF ByBuffer
  <2>2. data[n][k] # Missing /\ AfterOrEqual(data[n][k].ts, dep.minTS)
    BY <1>6 DEF Shows
  <2>3. m.ts \in Timestamp /\ data[n][k].ts \in Timestamp
    BY <1>1, <2>1, <2>2 DEF Base, TypeOK, Message, Value
  <2>4. AfterOrEqual(m.ts, dep.minTS)
    BY <1>1, <2>1, <2>2, <2>3, CompareIsTotalOrder
  <2> QED BY <2>1, <2>4, MissingAssumption DEF Covered, Shows
<1> QED BY <1>2, <1>3, <1>4, <1>5, <1>6 DEF Covered

(* A version in a store stays one of the history.                          *)
LEMMA NextDataAreWrites ==
    ASSUME Base, Buffered, DataAreWrites, [Next]_vars
    PROVE  DataAreWrites'
<1> SUFFICES ASSUME NEW n \in Node, NEW k \in Key, data'[n][k] # Missing
             PROVE  \E w \in writes : w.op.key = k /\ data'[n][k].ts = w.op.val.ts
                                      /\ data'[n][k].by = w.op.val.by
  BY StoreChanges DEF DataAreWrites, Holds
<1>1. CASE data'[n][k] = data[n][k]
  BY <1>1 DEF DataAreWrites, Holds
<1>2. CASE ByClient(n, k)
  BY <1>2 DEF ByClient
<1>3. CASE ByBuffer(n, k)
  <2>1. PICK m \in received[n] :
           m.key = k /\ data'[n][k].ts = m.ts /\ data'[n][k].by = m.by
    BY <1>3 DEF ByBuffer
  <2>2. m \in Sent
    BY DEF Sent
  <2>3. PICK w \in writes : Carries(m, w.op)
    BY <2>2 DEF Base, RequestsAreWrites
  <2> QED BY <2>1, <2>3 DEF Carries
<1> QED BY <1>1, <1>2, <1>3, StoreChanges
(* A step that neither starts, continues nor ends a client's call.         *)
Quiet == UNCHANGED <<call, reads, seen, writes>> /\ Sent' \subseteq Sent

LEMMA CallSteps ==
    ASSUME Base, [Next]_vars
    PROVE  \/ \E c \in Client, k \in Key, x \in Data \cup {Missing}, now \in Wall :
                 Stamp(c, k, x, now)
           \/ \E c \in Client : AttachDeps(c) \/ StoreThenReplicate(c) \/ GetRecord(c)
           \/ \E c \in Client, k \in Key : GetRead(c, k)
           \/ Quiet
<1>1. ASSUME NEW m \in wire, NEW now \in Wall, Serve(m, now) PROVE Quiet
  BY <1>1 DEF Serve, Quiet, Sent
<1>2. CASE \E m \in wire : (\E now \in Wall : ServeError(m, now)) \/ Lose(m)
  BY <1>2 DEF ServeError, Lose, Quiet, Sent
<1>3. ASSUME NEW m \in serving, BufferReceive(m) PROVE Quiet
  <2>1. \A n \in Node : received'[n] \subseteq received[n] \cup {m}
    BY <1>3 DEF BufferReceive, Base, TypeOK, Message
  <2> QED BY <1>3, <2>1 DEF BufferReceive, Quiet, Sent
<1>4. ASSUME NEW n \in Node, BufferStep(n) PROVE Quiet
  <2>1. UNCHANGED <<call, reads, seen, writes, wire, serving, received>>
    BY <1>4 DEF BufferStep, DependencyMet, DependencyUnmet, BufferApply
  <2> QED BY <2>1 DEF Quiet, Sent
<1>5. CASE UNCHANGED vars
  BY <1>5 DEF vars, Quiet, Sent
<1> QED BY <1>1, <1>2, <1>3, <1>4, <1>5 DEF Next, Deliver, Continue, Rest

(* A new write of the history is that of a client past Clock.Send, with a  *)
(* stamp its node has not given before.                                    *)
LEMMA NewWrite ==
    ASSUME Base, [Next]_vars, NEW w \in writes', w \notin writes
    PROVE  \E c \in Client :
              /\ w.op.val.by = c /\ w.need = seen[c]
              /\ Writing(c)' /\ call'[c].op = w.op /\ call'[c].stage = "stamped"
              /\ \A v \in writes : Home[v.op.val.by] = Home[c] => v.op.val.ts # w.op.val.ts
              /\ UNCHANGED <<data, reads>>
              /\ seen'[c] = {}
              /\ \A e \in Client : e # c => call'[e] = call[e] /\ seen'[e] = seen[e]
              /\ writes' = writes \cup {w}
<1>1. PICK c \in Client, k \in Key, x \in Data \cup {Missing}, now \in Wall :
         Stamp(c, k, x, now)
  BY CallSteps DEF AttachDeps, StoreThenReplicate, GetRecord, GetRead, Quiet
<1> DEFINE ts == Send(clock[Home[c]], now)
           op == OpFor(k, x, ts, c)
<1>2. /\ ts \in Timestamp
      /\ \A v \in writes : Home[v.op.val.by] = Home[c] => v.op.val.ts # ts
  BY <1>1, StampIsLater DEF Stamp
<1>3. /\ call' = [call EXCEPT ![c] = [stage |-> "stamped", op |-> op]]
      /\ writes' = writes \cup {[op |-> op, need |-> seen[c]]}
      /\ seen' = [seen EXCEPT ![c] = {}]
      /\ UNCHANGED <<data, reads>>
  BY <1>1 DEF Stamp
<1> HIDE DEF ts
<1>4. op \in Op /\ op.val.by = c /\ op.val.ts = ts
  BY <1>2, OpForType
<1> HIDE DEF op
<1>5. w = [op |-> op, need |-> seen[c]]
  BY <1>3
<1>6. /\ call'[c] = [stage |-> "stamped", op |-> op] /\ seen'[c] = {}
      /\ \A e \in Client : e # c => call'[e] = call[e] /\ seen'[e] = seen[e]
  BY <1>3 DEF Base, TypeOK
<1>7. Writing(c)'
  BY <1>4, <1>6, IdleAssumption, CallStages DEF Writing
<1> QED BY <1>2, <1>3, <1>4, <1>5, <1>6, <1>7

(* Dependencies come from versions in a store, which have a date.          *)
LEMMA NextDepsAreDated ==
    ASSUME Base, DataAreWrites, DepsAreDated, [Next]_vars
    PROVE  DepsAreDated'
<1> USE DEF DepsAreDated, Dated
<1>1. ASSUME NEW c \in Client, NEW k \in Key, NEW x \in Data \cup {Missing},
             NEW now \in Wall, Stamp(c, k, x, now)
      PROVE  DepsAreDated'
  <2>1. /\ call'[c].stage = "stamped"
        /\ \A e \in Client : e # c => call'[e] = call[e]
        /\ reads' = reads /\ Sent' = Sent
    BY <1>1 DEF Stamp, Base, TypeOK, Sent
  <2> QED BY <2>1
<1>2. ASSUME NEW c \in Client, AttachDeps(c) PROVE DepsAreDated'
  <2>1. /\ call'[c] = [stage |-> "attached", op |-> call[c].op, deps |-> reads[Home[c]]]
        /\ \A e \in Client : e # c => call'[e] = call[e]
        /\ Home[c] \in Node
        /\ \A n \in Node : reads'[n] \subseteq reads[n]
        /\ Sent' = Sent
    BY <1>2, HomeAssumption DEF AttachDeps, Base, TypeOK, Sent
  <2>2. call'[c].stage = "attached" /\ call'[c].deps = reads[Home[c]]
    BY <2>1
  <2> QED BY <2>1, <2>2
<1>3. ASSUME NEW c \in Client, StoreThenReplicate(c) PROVE DepsAreDated'
  <2>1. call[c] # Idle /\ call[c].stage = "attached" /\ call[c].op \in Op
        /\ call[c].deps \in SUBSET Dependency
    BY <1>3, CallStages DEF StoreThenReplicate, Base, TypeOK
  <2>2. \A m \in Broadcast(call[c].op, call[c].deps) : m.deps = call[c].deps
    BY <2>1, BroadcastType
  <2>3. Sent' \subseteq Sent \cup Broadcast(call[c].op, call[c].deps)
    BY <1>3 DEF StoreThenReplicate, Sent
  <2>4. /\ call'[c] = Idle /\ \A e \in Client : e # c => call'[e] = call[e]
        /\ reads' = reads
    BY <1>3 DEF StoreThenReplicate, Base, TypeOK
  <2> QED BY <2>1, <2>2, <2>3, <2>4
<1>4. ASSUME NEW c \in Client, NEW k \in Key, GetRead(c, k) PROVE DepsAreDated'
  <2> DEFINE dep == [key |-> k, minTS |-> data[Home[c]][k].ts]
  <2>1. Home[c] \in Node /\ data[Home[c]][k] # Missing
    BY <1>4, HomeAssumption DEF GetRead, Found
  <2>2. dep.minTS.wall \in Wall
    BY <2>1 DEF DataAreWrites, Holds, Base, WallsAreReadings
  <2>3. call' = [call EXCEPT ![c] = [stage |-> "read", dep |-> dep]]
        /\ reads' = reads /\ Sent' = Sent
    BY <1>4 DEF GetRead, Sent
  <2> HIDE DEF dep
  <2>4. /\ call'[c] = [stage |-> "read", dep |-> dep]
        /\ \A e \in Client : e # c => call'[e] = call[e]
    BY <2>3 DEF Base, TypeOK
  <2>5. call'[c].stage = "read" /\ call'[c].dep = dep
    BY <2>4
  <2> QED BY <2>2, <2>3, <2>4, <2>5
<1>5. ASSUME NEW c \in Client, GetRecord(c) PROVE DepsAreDated'
  <2>1. /\ call[c] # Idle /\ call[c].stage = "read"
        /\ call'[c] = Idle /\ \A e \in Client : e # c => call'[e] = call[e]
        /\ \A n \in Node : reads'[n] \subseteq reads[n] \cup {call[c].dep}
        /\ Sent' = Sent
    BY <1>5, HomeAssumption DEF GetRecord, Base, TypeOK, Sent
  <2> QED BY <2>1
<1>6. CASE Quiet
  BY <1>6 DEF Quiet
<1> QED BY <1>1, <1>2, <1>3, <1>4, <1>5, <1>6, CallSteps

(* What a client reads shows at its node at that moment, and stays so.     *)
LEMMA NextOwnReads ==
    ASSUME Base, Buffered, OwnReadsCovered, [Next]_vars
    PROVE  OwnReadsCovered'
<1>1. ASSUME NEW c \in Client, NEW dep \in seen'[c] PROVE Covered(Home[c], dep)'
  <2>1. dep \in seen[c] \/ (GetRecord(c) /\ dep = call[c].dep)
    <3>1. CASE \E e \in Client : GetRecord(e)
      <4>1. PICK e \in Client : GetRecord(e)
        BY <3>1
      <4>2. seen' = [seen EXCEPT ![e] = seen[e] \cup {call[e].dep}]
        BY <4>1 DEF GetRecord
      <4> QED BY <4>1, <4>2 DEF Base, TypeOK
    <3>2. CASE \E e \in Client, k \in Key, x \in Data \cup {Missing}, now \in Wall :
                  Stamp(e, k, x, now)
      BY <3>2 DEF Stamp, Base, TypeOK
    <3>3. CASE seen' = seen
      BY <3>3
    <3> QED BY <3>1, <3>2, <3>3, CallSteps
            DEF AttachDeps, StoreThenReplicate, GetRead, Quiet
  <2>2. dep \in Dependency /\ Covered(Home[c], dep) /\ Home[c] \in Node
    BY <2>1, HomeAssumption, CallStages DEF OwnReadsCovered, GetRecord, Base, TypeOK
  <2> QED BY <2>2, CoveredStays
<1>2. ASSUME NEW c \in Client, call'[c] # Idle, call'[c].stage = "read"
      PROVE  \A dep \in {call'[c].dep} : Covered(Home[c], dep)'
  <2>1. CASE call'[c] = call[c]
    <3>1. call[c].dep \in Dependency /\ Covered(Home[c], call[c].dep) /\ Home[c] \in Node
      BY <1>2, <2>1, HomeAssumption, CallStages DEF OwnReadsCovered, Base, TypeOK
    <3> QED BY <2>1, <3>1, CoveredStays
  <2>2. ASSUME NEW k \in Key, GetRead(c, k)
        PROVE  \A dep \in {call'[c].dep} : Covered(Home[c], dep)'
    <3> SUFFICES ASSUME NEW dep, dep = call'[c].dep
                 PROVE  Covered(Home[c], dep)'
      OBVIOUS
    <3>1. dep = [key |-> k, minTS |-> data[Home[c]][k].ts] /\ data' = data
      BY <2>2 DEF GetRead, Base, TypeOK
    <3>2. Home[c] \in Node /\ data[Home[c]][k] # Missing
      BY <2>2, HomeAssumption DEF GetRead, Found
    <3>3. data[Home[c]][k].ts \in Timestamp
      BY <3>2 DEF Base, TypeOK, Value
    <3>4. AfterOrEqual(data[Home[c]][k].ts, data[Home[c]][k].ts)
      BY <3>3, CompareIsTotalOrder
    <3>5. dep.key = k /\ dep.minTS = data[Home[c]][k].ts
      BY <3>1
    <3> QED BY <3>1, <3>2, <3>4, <3>5 DEF Covered, Shows
  <2>3. call'[c] = call[c] \/ \E k \in Key : GetRead(c, k)
    BY <1>2, CallSteps
       DEF Stamp, AttachDeps, StoreThenReplicate, GetRecord, GetRead, Quiet, Base, TypeOK
  <2> QED BY <2>1, <2>2, <2>3
<1>3. ASSUME NEW w \in writes', NEW dep \in w.need
      PROVE  Covered(Home[w.op.val.by], dep)'
  <2>1. CASE w \in writes
    <3>1. dep \in Dependency /\ Home[w.op.val.by] \in Node /\ Covered(Home[w.op.val.by], dep)
      BY <2>1, WriteTypes DEF Base, OwnReadsCovered
    <3> QED BY <3>1, CoveredStays
  <2>2. CASE w \notin writes
    <3>1. PICK c \in Client : w.op.val.by = c /\ w.need = seen[c]
      BY <2>2, NewWrite
    <3>2. dep \in Dependency /\ Home[c] \in Node /\ Covered(Home[c], dep)
      BY <3>1, HomeAssumption DEF Base, TypeOK, OwnReadsCovered
    <3> QED BY <3>1, <3>2, CoveredStays
  <2> QED BY <2>1, <2>2
<1> QED BY <1>1, <1>2, <1>3 DEF OwnReadsCovered
(* What becomes of a buffer's worker: it stays, leaves, looks at a write   *)
(* with all dependencies to check, or has found one met.                   *)
LEMMA WorkerChanges ==
    ASSUME Base, Buffered, [Next]_vars, NEW n \in Node
    PROVE  \/ buf'[n] = buf[n]
           \/ buf'[n] = Free
           \/ buf'[n].unchecked = buf'[n].cur.deps
           \/ \E dep : DependencyMet(n, dep)
<1>1. ASSUME NEW m \in serving, BufferReceive(m)
      PROVE  buf'[n] = buf[n] \/ buf'[n].unchecked = buf'[n].cur.deps
  <2>1. m.to \in Node
    BY DEF Base, TypeOK, Message
  <2> QED BY <1>1, <2>1 DEF BufferReceive, LookAt, Base, TypeOK
<1>2. ASSUME NEW o \in Node, NEW dep, DependencyMet(o, dep)
      PROVE  buf'[n] = buf[n] \/ \E d : DependencyMet(n, d)
  BY <1>2, MetWorker DEF Base
<1>3. ASSUME NEW todo \in Seq(Message), NEW remaining \in Seq(Message),
             NEW progressed \in BOOLEAN, buf'[n] = Drain(todo, remaining, progressed)
      PROVE  buf'[n] = Free \/ buf'[n].unchecked = buf'[n].cur.deps
  BY <1>3, DrainResult DEF Stops
<1>4. ASSUME NEW o \in Node, NEW dep, DependencyUnmet(o, dep)
      PROVE  \/ buf'[n] = buf[n] \/ buf'[n] = Free
             \/ buf'[n].unchecked = buf'[n].cur.deps
  <2> DEFINE b == buf[o]
             remaining == Append(b.remaining, b.cur)
             next == IF b.draining THEN Drain(b.todo, remaining, b.progressed) ELSE Free
  <2>1. b # Free /\ buf' = [buf EXCEPT ![o] = next]
    BY <1>4 DEF DependencyUnmet
  <2>2. b.todo \in Seq(Message) /\ remaining \in Seq(Message) /\ b.progressed \in BOOLEAN
    BY <2>1, BusyBuffer, AppendEntries
  <2> HIDE DEF remaining
  <2>3. buf'[n] = buf[n] \/ (n = o /\ buf'[n] = next)
    BY <2>1 DEF Base, TypeOK
  <2> QED BY <1>3, <2>2, <2>3
<1>5. ASSUME NEW o \in Node, BufferApply(o)
      PROVE  \/ buf'[n] = buf[n] \/ buf'[n] = Free
             \/ buf'[n].unchecked = buf'[n].cur.deps
  <2> DEFINE b == buf[o]
             next == IF b.draining THEN Drain(b.todo, b.remaining, TRUE)
                     ELSE Drain(held[o], <<>>, FALSE)
  <2>1. b # Free /\ buf' = [buf EXCEPT ![o] = next]
    BY <1>5 DEF BufferApply
  <2>2. /\ b.todo \in Seq(Message) /\ b.remaining \in Seq(Message)
        /\ held[o] \in Seq(Message)
    BY <2>1, BusyBuffer
  <2>3. <<>> \in Seq(Message) /\ TRUE \in BOOLEAN /\ FALSE \in BOOLEAN
    OBVIOUS
  <2>4. buf'[n] = buf[n] \/ (n = o /\ buf'[n] = next)
    BY <2>1 DEF Base, TypeOK
  <2> QED BY <1>3, <2>2, <2>3, <2>4
<1>6. CASE buf' = buf
  BY <1>6
<1> QED BY <1>1, <1>2, <1>4, <1>5, <1>6
        DEF Next, Deliver, Continue, BufferStep, Stamp, AttachDeps, StoreThenReplicate,
            GetRead, GetRecord, Serve, ServeError, Lose, Rest, vars

(* A dependency GetVersion meets shows, because it has a date.             *)
LEMMA MetShows ==
    ASSUME TypeOK, NEW n \in Node, NEW dep \in Dependency, dep.minTS.wall \in Wall,
           DepSatisfied(data[n], dep)
    PROVE  Shows(n, dep)
<1>0. dep.minTS.wall \in Nat /\ dep.minTS.wall > 0
  <2>1. \A x \in Wall : x \in Nat /\ x > 0
    BY WallAssumption
  <2> QED BY <2>1
<1>1. dep.key \in Key /\ dep.minTS \in Timestamp
  BY DEF Dependency
<1>2. ZeroTS \in Timestamp /\ ZeroTS.wall = 0
  BY LogicalAssumption DEF ZeroTS, Timestamp
<1>3. ~AfterOrEqual(ZeroTS, dep.minTS)
  <2> HIDE DEF ZeroTS
  <2> QED BY <1>0, <1>1, <1>2, CompareIsLexicographic
<1> QED BY <1>1, <1>3 DEF DepSatisfied, GetVersion, Shows

(* depsSatisfied: what it has found met is covered and stays so.           *)
LEMMA NextChecked ==
    ASSUME Base, Buffered, DepsAreDated, CheckedAreCovered, [Next]_vars
    PROVE  CheckedAreCovered'
<1> SUFFICES ASSUME NEW n \in Node, buf'[n] # Free,
                    NEW dep \in buf'[n].cur.deps, dep \notin buf'[n].unchecked
             PROVE  Covered(n, dep)'
  BY DEF CheckedAreCovered
<1>1. CASE buf'[n] = buf[n]
  <2>1. dep \in Dependency
    BY <1>1, BusyBuffer DEF Message
  <2> QED BY <1>1, <2>1, CoveredStays DEF CheckedAreCovered
<1>2. ASSUME NEW d, DependencyMet(n, d) PROVE Covered(n, dep)'
  <2>1. /\ buf[n] # Free /\ DepSatisfied(data[n], d) /\ data' = data
        /\ buf'[n].cur = buf[n].cur /\ buf'[n].unchecked = buf[n].unchecked \ {d}
    BY <1>2, MetWorker DEF DependencyMet, Base
  <2>2. buf[n].cur \in Message /\ buf[n].cur \in Sent
    BY <2>1, BusyBuffer DEF Sent
  <2>3. dep \in Dependency /\ dep.minTS.wall \in Wall
    BY <2>1, <2>2 DEF Message, DepsAreDated, Dated
  <2>4. CASE dep = d
    BY <2>1, <2>3, <2>4, MetShows, CoveredStays DEF Base, Covered
  <2>5. CASE dep # d
    BY <2>1, <2>3, <2>5, CoveredStays DEF CheckedAreCovered
  <2> QED BY <2>4, <2>5
<1> QED BY <1>1, <1>2, WorkerChanges

(* SnapshotAndClear takes along all a client has read, if nobody else's    *)
(* write takes it first.                                                   *)
LEMMA NextReadsTravel ==
    ASSUME Base, ReadsTravel, [Next]_vars
    PROVE  ReadsTravel'
<1> SUFFICES ASSUME NEW c \in Client, Alone(c)
             PROVE  /\ seen'[c] \subseteq reads'[Home[c]]
                    /\ Writing(c)' =>
                          /\ seen'[c] = {}
                          /\ \A w \in writes' : OpId(w.op) = OpId(call'[c].op) =>
                                w.need \subseteq IF call'[c].stage = "stamped"
                                                 THEN reads'[Home[c]] ELSE call'[c].deps
  BY DEF ReadsTravel, Alone
<1> DEFINE Goal == /\ seen'[c] \subseteq reads'[Home[c]]
                   /\ Writing(c)' =>
                         /\ seen'[c] = {}
                         /\ \A w \in writes' : OpId(w.op) = OpId(call'[c].op) =>
                               w.need \subseteq IF call'[c].stage = "stamped"
                                                THEN reads'[Home[c]] ELSE call'[c].deps
<1>0. Home[c] \in Node
  BY HomeAssumption
<1>1. CASE writes' # writes
  <2>1. PICK w \in writes' : w \notin writes
    BY <1>1, CallSteps
       DEF Stamp, AttachDeps, StoreThenReplicate, GetRecord, GetRead, Quiet
  <2>2. PICK e \in Client :
           /\ w.op.val.by = e /\ w.need = seen[e]
           /\ call'[e].op = w.op /\ call'[e].stage = "stamped"
           /\ \A v \in writes : Home[v.op.val.by] = Home[e] => v.op.val.ts # w.op.val.ts
           /\ reads' = reads /\ seen'[e] = {}
           /\ \A f \in Client : f # e => call'[f] = call[f] /\ seen'[f] = seen[f]
           /\ writes' = writes \cup {w}
    BY <2>1, NewWrite
  <2>3. CASE c = e
    <3>1. \A v \in writes' : OpId(v.op) = OpId(w.op) => v = w
      BY <2>2 DEF OpId
    <3>2. w.need \subseteq reads'[Home[c]]
      BY <2>2, <2>3 DEF ReadsTravel
    <3> QED BY <2>2, <2>3, <3>1, <3>2
  <2>4. CASE c # e
    <3>1. call'[c] = call[c] /\ seen'[c] = seen[c] /\ (Writing(c)' <=> Writing(c))
      BY <2>2, <2>4 DEF Writing
    <3>2. Writing(c) => OpId(w.op) # OpId(call[c].op)
      BY <2>2, <2>4 DEF Base, CallsAreWrites, OpId
    <3> QED BY <2>2, <3>1, <3>2 DEF ReadsTravel
  <2> QED BY <2>3, <2>4
<1>2. ASSUME NEW e \in Client, AttachDeps(e) PROVE Goal
  <2>1. /\ Writing(e) /\ call[e].stage = "stamped"
        /\ call' = [call EXCEPT ![e] =
              [stage |-> "attached", op |-> call[e].op, deps |-> reads[Home[e]]]]
        /\ reads' = [reads EXCEPT ![Home[e]] = {}]
        /\ UNCHANGED <<seen, writes>>
    BY <1>2 DEF AttachDeps, Writing
  <2>2. CASE e = c
    <3>1. call'[c] = [stage |-> "attached", op |-> call[c].op, deps |-> reads[Home[c]]]
      BY <2>1, <2>2 DEF Base, TypeOK
    <3>2. call'[c].stage = "attached" /\ call'[c].op = call[c].op
          /\ call'[c].deps = reads[Home[c]]
      BY <3>1
    <3> QED BY <2>1, <2>2, <3>2 DEF ReadsTravel
  <2>3. CASE e # c
    <3>1. Home[e] # Home[c]
      BY <2>3 DEF Alone
    <3>2. call'[c] = call[c] /\ reads'[Home[c]] = reads[Home[c]] /\ (Writing(c)' <=> Writing(c))
      BY <1>0, <2>1, <2>3, <3>1 DEF Base, TypeOK, Writing
    <3> QED BY <2>1, <3>2 DEF ReadsTravel
  <2> QED BY <2>2, <2>3
<1>3. ASSUME NEW e \in Client, StoreThenReplicate(e) \/ \E k \in Key : GetRead(e, k)
      PROVE  Goal
  <2>1. /\ \A f \in Client : Writing(f)' => Writing(f) /\ call'[f] = call[f]
        /\ UNCHANGED <<reads, seen, writes>>
    BY <1>3 DEF StoreThenReplicate, GetRead, Base, TypeOK, Writing
  <2> QED BY <2>1 DEF ReadsTravel
<1>4. ASSUME NEW e \in Client, GetRecord(e) PROVE Goal
  <2>1. /\ call[e].stage = "read" /\ call' = [call EXCEPT ![e] = Idle]
        /\ reads' = [reads EXCEPT ![Home[e]] = reads[Home[e]] \cup {call[e].dep}]
        /\ seen' = [seen EXCEPT ![e] = seen[e] \cup {call[e].dep}]
        /\ writes' = writes
    BY <1>4 DEF GetRecord
  <2>2. CASE e = c
    <3>1. ~Writing(c)'
      BY <2>1, <2>2 DEF Base, TypeOK, Writing
    <3>2. /\ seen'[c] = seen[c] \cup {call[c].dep}
          /\ reads'[Home[c]] = reads[Home[c]] \cup {call[c].dep}
      BY <1>0, <2>1, <2>2 DEF Base, TypeOK
    <3> QED BY <3>1, <3>2 DEF ReadsTravel
  <2>3. CASE e # c
    <3>1. /\ call'[c] = call[c] /\ seen'[c] = seen[c] /\ (Writing(c)' <=> Writing(c))
          /\ reads[Home[c]] \subseteq reads'[Home[c]]
      BY <1>0, <2>1, <2>3 DEF Base, TypeOK, Writing
    <3> QED BY <2>1, <3>1 DEF ReadsTravel
  <2> QED BY <2>2, <2>3
<1>5. CASE Quiet
  BY <1>5 DEF Quiet, ReadsTravel, Writing
<1>6. CASE \E e \in Client, k \in Key, x \in Data \cup {Missing}, now \in Wall :
              Stamp(e, k, x, now) /\ writes' = writes
  <2>1. PICK e \in Client, k \in Key, x \in Data \cup {Missing}, now \in Wall :
           Stamp(e, k, x, now) /\ writes' = writes
    BY <1>6
  <2> DEFINE ts == Send(clock[Home[e]], now)
             op == OpFor(k, x, ts, e)
  <2>2. /\ ts \in Timestamp
        /\ \A v \in writes : Home[v.op.val.by] = Home[e] => v.op.val.ts # ts
    BY <2>1, StampIsLater DEF Stamp
  <2>3. [op |-> op, need |-> seen[e]] \in writes
    BY <2>1 DEF Stamp
  <2> HIDE DEF ts
  <2>4. op.val.by = e /\ op.val.ts = ts
    BY <2>2, OpForType
  <2> QED BY <2>2, <2>3, <2>4
<1> QED BY <1>1, <1>2, <1>3, <1>4, <1>5, <1>6, CallSteps

(* OnWrite sends the attached reads with the write.                        *)
LEMMA NextRequestsCarry ==
    ASSUME Base, ReadsTravel, RequestsCarryReads, [Next]_vars, Buffered'
    PROVE  RequestsCarryReads'
<1> SUFFICES ASSUME NEW m \in Sent', NEW w \in writes', Alone(m.by),
                    OpId(w.op) = RequestId(m)
             PROVE  w.need \subseteq m.deps
  BY DEF RequestsCarryReads, Alone
<1>1. w \in writes
  <2> SUFFICES ASSUME w \notin writes PROVE FALSE
    OBVIOUS
  <2>1. PICK c \in Client : Writing(c)' /\ call'[c].op = w.op
    BY NewWrite
  <2> QED BY <2>1 DEF Buffered, SentOnce
<1>2. CASE m \in Sent
  BY <1>1, <1>2 DEF RequestsCarryReads
<1>3. CASE m \notin Sent
  <2>1. PICK c \in Client : StoreThenReplicate(c)
    BY <1>3, CallSteps DEF Stamp, AttachDeps, GetRead, GetRecord, Quiet, Sent
  <2>2. /\ Writing(c) /\ call[c].stage = "attached" /\ call[c].op \in Op
        /\ call[c].deps \in SUBSET Dependency
    BY <2>1, CallStages DEF StoreThenReplicate, Base, TypeOK, Writing
  <2>3. call[c].op.val.by = c
    BY <2>2 DEF Base, CallsAreWrites
  <2>4. m \in Broadcast(call[c].op, call[c].deps)
    BY <1>3, <2>1 DEF StoreThenReplicate, Sent
  <2>5. m.by = c /\ m.deps = call[c].deps /\ RequestId(m) = OpId(call[c].op)
    BY <2>2, <2>3, <2>4, BroadcastType
  <2> QED BY <1>1, <2>2, <2>5 DEF ReadsTravel
<1> QED BY <1>2, <1>3

(* A node comes to show a write when its client's call stores it, where    *)
(* the client read, or when the buffer has found its dependencies met.     *)
LEMMA NextVisibility ==
    ASSUME Base, Buffered, Causal, [Next]_vars
    PROVE  CausalVisibility'
<1> USE DEF Causal
<1> SUFFICES ASSUME NEW n \in Node, NEW w \in writes', Alone(w.op.val.by), Holds(n, w)',
                    NEW dep \in w.need
             PROVE  Covered(n, dep)'
  BY DEF CausalVisibility, Includes, Covered, Alone
<1>1. CASE w \notin writes
  <2>1. PICK c \in Client :
           /\ w.op.val.by = c /\ data' = data
           /\ \A v \in writes : Home[v.op.val.by] = Home[c] => v.op.val.ts # w.op.val.ts
    BY <1>1, NewWrite
  <2>2. Holds(n, w)
    BY <2>1 DEF Holds
  <2>3. w.op.key \in Key
    BY NextBase, WriteTypes DEF Base, TypeOK, History, Op
  <2>4. PICK v \in writes : v.op.key = w.op.key /\ Holds(n, v)
    BY <2>2, <2>3 DEF DataAreWrites, Holds
  <2> QED BY <2>1, <2>2, <2>4 DEF Holds
<1>2. CASE w \in writes
  <2> DEFINE k == w.op.key
  <2>1. k \in Key /\ dep \in Dependency
    BY <1>2, WriteTypes DEF Base
  <2>2. CASE data'[n][k] = data[n][k]
    <3>1. Covered(n, dep)
      BY <1>2, <2>2 DEF Holds, CausalVisibility, Includes, Covered
    <3> QED BY <2>1, <3>1, CoveredStays
  <2>3. CASE ByClient(n, k)
    <3>1. Home[w.op.val.by] = n
      BY <2>3 DEF ByClient, Holds
    <3>2. Covered(n, dep)
      BY <1>2, <3>1 DEF OwnReadsCovered
    <3> QED BY <2>1, <3>2, CoveredStays
  <2>4. CASE ByBuffer(n, k)
    <3>1. PICK m \in received[n] :
             /\ buf[n] # Free /\ buf[n].cur = m /\ buf[n].unchecked = {}
             /\ m.key = k /\ data'[n][k].ts = m.ts /\ data'[n][k].by = m.by
      BY <2>4 DEF ByBuffer
    <3>2. OpId(w.op) = RequestId(m) /\ m.by = w.op.val.by /\ m \in Sent
      BY <3>1 DEF Holds, OpId, RequestId, Sent
    <3>3. dep \in m.deps
      BY <1>2, <3>2 DEF RequestsCarryReads
    <3>4. Covered(n, dep)
      BY <3>1, <3>3 DEF CheckedAreCovered
    <3> QED BY <2>1, <3>4, CoveredStays
  <2> QED BY <2>1, <2>2, <2>3, <2>4, StoreChanges
<1> QED BY <1>1, <1>2

(* Nothing has been read, written or sent at first.                        *)
LEMMA InitCausal == Init => Causal
<1> SUFFICES ASSUME Init PROVE Causal
  OBVIOUS
<1>1. Sent = {}
  BY DEF Init, Sent
<1>2. DataAreWrites
  BY DEF Init, NewStore, DataAreWrites
<1>3. DepsAreDated /\ OwnReadsCovered /\ CheckedAreCovered
  BY <1>1 DEF Init, DepsAreDated, Dated, OwnReadsCovered, CheckedAreCovered
<1>4. ReadsTravel /\ RequestsCarryReads /\ CausalVisibility
  BY <1>1 DEF Init, ReadsTravel, Writing, RequestsCarryReads, CausalVisibility
<1> QED BY <1>2, <1>3, <1>4 DEF Causal

(* Every step keeps Causal.                                                *)
LEMMA NextCausal == Base /\ Buffered /\ Causal /\ [Next]_vars => Causal'
<1> SUFFICES ASSUME Base, Buffered, Causal, [Next]_vars PROVE Causal'
  OBVIOUS
<1>1. Buffered'
  BY NextBuffered
<1>2. DataAreWrites' /\ DepsAreDated' /\ OwnReadsCovered' /\ CheckedAreCovered'
  BY NextDataAreWrites, NextDepsAreDated, NextOwnReads, NextChecked DEF Causal
<1>3. ReadsTravel' /\ RequestsCarryReads' /\ CausalVisibility'
  BY <1>1, NextReadsTravel, NextRequestsCarry, NextVisibility DEF Causal
<1> QED BY <1>2, <1>3 DEF Causal

(* Causal holds in every behaviour of causal mode.                         *)
THEOREM CausalInvariant == Spec => []Causal
BY CausalBase, CausalBuffered, InitCausal, NextCausal, PTL DEF Spec

(* B is never visible before A, where a client that has its node to itself *)
(* read A and then wrote B: for any nodes, clients and keys, any order of  *)
(* delivery, any loss, and local writes between any two checks.            *)
THEOREM CausalOrderIsVisible == Spec => []CausalVisibility
<1>1. Causal => CausalVisibility
  BY DEF Causal
<1> QED BY <1>1, CausalInvariant, PTL

----------------------------------------------------------------------------
(* Held for a reason: what a node has put to its store it goes on showing, *)
(* unless a client of the node writes the key.                             *)
DepOn(m) == [key |-> m.key, minTS |-> m.ts]

SettledCovered == \A n \in Node : \A m \in settled[n] : Covered(n, DepOn(m))

(* The write the buffer applies shows afterwards, or a newer one did.      *)
LEMMA AppliedShows ==
    ASSUME Base, Buffered, NEW n \in Node, BufferApply(n),
           NEW m, m = buf[n].cur
    PROVE  /\ m \in Message
           /\ data'[n][m.key] # Missing
           /\ AfterOrEqual(data'[n][m.key].ts, m.ts)
<1> DEFINE d == ApplyReplicated(data[n], m)
<1>1. buf[n] # Free /\ data' = [data EXCEPT ![n] = d]
  BY DEF BufferApply
<1>2. m \in Message /\ data[n] \in Map
  BY <1>1, BusyBuffer DEF Base, TypeOK, Map
<1>3. /\ Accepts(data[n], m.key, m.ts) => d[m.key] = Decode(m)
      /\ ~Accepts(data[n], m.key, m.ts) =>
            d = data[n] /\ data[n][m.key] # Missing /\ AfterOrEqual(data[n][m.key].ts, m.ts)
  BY <1>2, ApplyReplicatedResult
<1>4. Decode(m) # Missing /\ Decode(m).ts = m.ts
  BY <1>2, DecodeType, MissingAssumption
<1>5. m.ts \in Timestamp
  BY <1>2 DEF Message
<1>6. AfterOrEqual(m.ts, m.ts)
  BY <1>5, CompareIsTotalOrder
<1> HIDE DEF d
<1>7. data'[n] = d
  BY <1>1 DEF Base, TypeOK
<1> QED BY <1>2, <1>3, <1>4, <1>6, <1>7

(* Every step keeps SettledCovered.                                        *)
LEMMA NextSettledCovered ==
    ASSUME Base, Buffered, SettledCovered, [Next]_vars
    PROVE  SettledCovered'
<1> SUFFICES ASSUME NEW n \in Node, NEW m \in settled'[n]
             PROVE  Covered(n, DepOn(m))'
  BY DEF SettledCovered, DepOn
<1>1. settled' = settled \/ \E o \in Node : BufferApply(o)
  BY DEF Next, Deliver, Continue, BufferStep, Stamp, AttachDeps, StoreThenReplicate,
         GetRead, GetRecord, Serve, ServeError, Lose, BufferReceive, DependencyMet,
         DependencyUnmet, Rest, vars
<1>2. CASE m \in settled[n]
  <2>1. m \in Message
    BY <1>2 DEF Base, TypeOK
  <2>2. DepOn(m) \in Dependency
    BY <2>1 DEF DepOn, Dependency, Message
  <2>3. Covered(n, DepOn(m))
    BY <1>2 DEF SettledCovered
  <2> QED BY <2>2, <2>3, CoveredStays DEF DepOn
<1>3. CASE m \notin settled[n]
  <2>1. PICK o \in Node : BufferApply(o)
    BY <1>1, <1>3
  <2>2. o = n /\ m = buf[n].cur
    BY <1>3, <2>1 DEF BufferApply, Base, TypeOK
  <2>3. Shows(n, DepOn(m))'
    <3>1. data'[n][m.key] # Missing /\ AfterOrEqual(data'[n][m.key].ts, m.ts)
      BY <2>1, <2>2, AppliedShows
    <3> QED BY <3>1 DEF DepOn, Shows
  <2> QED BY <2>3 DEF Covered
<1> QED BY <1>2, <1>3

(* A write that is held while nobody works on the buffer waits for a       *)
(* request the node has not put to its store, or is held on account of a   *)
(* key a client of the node writes: for any nodes, clients and keys, any   *)
(* order of delivery and any loss, no drain leaves out a write it could    *)
(* have applied.                                                           *)
THEOREM HeldWithReason == Spec => []HeldForAReason
<1>1. Init => SettledCovered
  BY DEF Init, SettledCovered
<1>2. Spec => []SettledCovered
  BY <1>1, NextSettledCovered, CausalBase, CausalBuffered, PTL DEF Spec
<1>3. ASSUME Base, Drained, DataAreWrites, SettledCovered, NEW n \in Node, buf[n] = Free,
             NEW i \in 1 .. Len(held[n]),
             \A dep \in held[n][i].deps : HasSettled(n, dep) /\ ~WritesLocally(n, dep.key)
      PROVE  FALSE
  <2> DEFINE m == held[n][i]
  <2>1. m \in Message /\ m \in GivenUp(n)
    BY <1>3 DEF GivenUp, Entries, Base, TypeOK
  <2>2. Ready(n, m)
    <3> SUFFICES ASSUME NEW dep \in m.deps PROVE Shows(n, dep)
      BY DEF Ready
    <3>1. PICK s \in settled[n] : s.key = dep.key /\ s.ts = dep.minTS
      BY <1>3 DEF HasSettled
    <3>2. Covered(n, DepOn(s))
      BY <1>3 DEF SettledCovered
    <3> QED BY <1>3, <3>1, <3>2 DEF Covered, Shows, DepOn
  <2>3. PICK dep \in m.deps : Home[data[n][dep.key].by] = n
    BY <1>3, <2>1, <2>2 DEF Drained, Blocked
  <2>4. dep.key \in Key /\ data[n][dep.key] # Missing
    BY <2>1, <2>2 DEF Ready, Shows, Message, Dependency
  <2>5. PICK w \in writes : w.op.key = dep.key /\ data[n][dep.key].by = w.op.val.by
    BY <1>3, <2>4 DEF DataAreWrites, Holds
  <2> QED BY <1>3, <2>3, <2>5 DEF WritesLocally
<1>4. Base /\ Drained /\ Causal /\ SettledCovered => HeldForAReason
  BY <1>3 DEF HeldForAReason, Causal
<1> QED BY <1>2, <1>4, CausalBase, CausalDrained, CausalInvariant, PTL

----------------------------------------------------------------------------
(* Causal mode implements the last-write-wins register at the nodes        *)
(* without clients: a stamp issues a write with a fresh timestamp, the     *)
(* buffer installs a later one, and holding, checking and draining are     *)
(* not seen.                                                               *)
THEOREM CausalIsLastWriteWins == Spec => ImplementsLastWriteWins
<1>1. Init => LWW!Init
  BY DEF Init, LWW!Init, Readers, LWW!Reader, NewStore, LWW!NewStore
<1>2. Base /\ Buffered /\ [Next]_vars => [LWW!Next]_(LWW!lwwVars)
  <2> SUFFICES ASSUME Base, Buffered, [Next]_vars
               PROVE  LWW!Next \/ UNCHANGED LWW!lwwVars
    OBVIOUS
  <2> USE DEF Base
  <2>1. ASSUME NEW c \in Client, NEW k \in Key, NEW x \in Data \cup {Missing},
               NEW now \in Wall, Stamp(c, k, x, now)
        PROVE  LWW!Next
    <3>0. PICK ts \in Timestamp : ts = Send(clock[Home[c]], now)
      BY <2>1, StampIsLater DEF Stamp
    <3> DEFINE op == OpFor(k, x, ts, c)
    <3>1. /\ ts.wall \in Wall
          /\ \A w \in writes : Home[w.op.val.by] = Home[c] => w.op.val.ts # ts
      BY <2>1, <3>0, StampIsLater DEF Stamp
    <3>2. writes' = writes \cup {[op |-> op, need |-> seen[c]]} /\ data' = data
      BY <2>1, <3>0 DEF Stamp
    <3>3. ts \in [wall : Wall, logical : 0 .. MaxLogical]
      BY <3>1 DEF Timestamp
    <3>4. op = LWW!OpFor(k, x, ts, c)
      BY DEF OpFor, LWW!OpFor, PutValue, LWW!PutValue, Tombstone, LWW!Tombstone
    <3> HIDE DEF op
    <3>5. {w.op : w \in writes'} = {w.op : w \in writes} \cup {op}
      <4> DEFINE new == [op |-> op, need |-> seen[c]]
      <4>1. new.op = op /\ writes' = writes \cup {new}
        BY <3>2
      <4> HIDE DEF new
      <4> QED BY <4>1
    <3>6. LWW!Issue(c, k, x, ts)
      BY <3>1, <3>2, <3>4, <3>5 DEF LWW!Issue
    <3> QED BY <3>3, <3>6 DEF LWW!Next
  <2>2. ASSUME NEW c \in Client, StoreThenReplicate(c)
        PROVE  UNCHANGED LWW!lwwVars
    <3>1. \A r \in Readers : data'[r] = data[r]
      BY <2>2, HomeAssumption DEF StoreThenReplicate, Readers, TypeOK
    <3> QED BY <2>2, <3>1 DEF StoreThenReplicate, LWW!lwwVars
  <2>3. ASSUME NEW n \in Node, BufferApply(n)
        PROVE  LWW!Next \/ UNCHANGED LWW!lwwVars
    <3> DEFINE m == buf[n].cur
               d == ApplyReplicated(data[n], m)
    <3>0. buf[n] # Free /\ data' = [data EXCEPT ![n] = d] /\ writes' = writes
      BY <2>3 DEF BufferApply
    <3>1. m \in Message /\ m \in Sent /\ m.key \in Key /\ data[n] \in Map
      <4>1. m \in Message /\ m \in received[n]
        BY <3>0, BusyBuffer
      <4>2. m \in Sent
        BY <4>1 DEF Sent
      <4> QED BY <4>1, <4>2 DEF TypeOK, Message, Map
    <3>2. /\ d \in Map
          /\ \A k \in Key : k # m.key => d[k] = data[n][k]
          /\ Accepts(data[n], m.key, m.ts) =>
                /\ d[m.key] = Decode(m)
                /\ data[n][m.key] # Missing => After(m.ts, data[n][m.key].ts)
          /\ ~Accepts(data[n], m.key, m.ts) => d = data[n]
      BY <3>1, ApplyReplicatedResult
    <3> HIDE DEF d, m
    <3>3. CASE n \notin Readers \/ ~Accepts(data[n], m.key, m.ts)
      <4>1. \A r \in Readers : data'[r] = data[r]
        BY <3>0, <3>1, <3>2, <3>3 DEF Readers, TypeOK
      <4> QED BY <3>0, <4>1 DEF LWW!lwwVars
    <3>4. CASE n \in Readers /\ Accepts(data[n], m.key, m.ts)
      <4>1. PICK v \in writes : Carries(m, v.op)
        BY <3>1 DEF RequestsAreWrites
      <4>2. PICK w \in {u.op : u \in writes} : w = v.op
        OBVIOUS
      <4>3. w.val \in Value /\ Carries(m, w)
        BY <4>1, <4>2, WriteTypes
      <4>4. [w.val EXCEPT !.deleted = w.val.data = Empty] = Decode(m)
        BY <4>3 DEF Carries, Decode, Value
      <4>5. d = [data[n] EXCEPT ![w.key] = Decode(m)]
        BY <3>1, <3>2, <3>4, <4>3 DEF Map, Carries
      <4>6. data[n][w.key] # Missing => LWW!After(w.val.ts, data[n][w.key].ts)
        BY <3>2, <3>4, <4>3
           DEF Carries, After, Compare, LWW!After, LWW!Compare
      <4>7. [r \in Readers |-> data'[r]] =
               [[r \in Readers |-> data[r]] EXCEPT ![n][w.key] = Decode(m)]
        BY <3>0, <3>4, <4>5 DEF Readers, TypeOK
      <4>8. LWW!Install(n, w)
        BY <3>0, <3>4, <4>4, <4>6, <4>7 DEF LWW!Install
      <4>9. n \in LWW!Reader
        BY <3>4 DEF Readers, LWW!Reader
      <4> QED BY <4>8, <4>9 DEF LWW!Next
    <3> QED BY <3>3, <3>4
  <2>4. CASE UNCHANGED <<data, writes>>
    BY <2>4 DEF LWW!lwwVars
  <2> QED BY <2>1, <2>2, <2>3, <2>4
          DEF Next, Deliver, Continue, BufferStep, AttachDeps, GetRead, GetRecord, Serve,
              ServeError, Lose, BufferReceive, DependencyMet, DependencyUnmet, Rest, vars
<1> QED BY <1>1, <1>2, CausalBase, CausalBuffered, PTL
        DEF Spec, ImplementsLastWriteWins, LWW!Spec
============================================================================
