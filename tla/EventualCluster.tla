-------------------------- MODULE EventualCluster --------------------------
(***************************************************************************)
(* A cluster in eventual mode: Node.Put, Node.Delete, EventualHandler and  *)
(* Node.Replicate, one step per critical section.  A local write takes a   *)
(* timestamp (Clock.Send), later stores it unconditionally (Store.Put) and *)
(* fires one goroutine per peer; a peer merges the timestamp               *)
(* (Clock.Receive) and later applies the value by last write wins.  Any    *)
(* other call may run between two steps of a call.  Get changes nothing in *)
(* this mode.                                                              *)
(*                                                                         *)
(* A goroutine sleeps and then makes one RPC whose outcome it discards, so *)
(* requests are delivered in any order, at most once, and a failed one is  *)
(* gone: wire is a set and Lose removes from it.                           *)
(***************************************************************************)
EXTENDS Replica

CONSTANTS
    Idle,    \* a client with no call in progress
    Lossy    \* whether an RPC to a peer may fail

ASSUME IdleAssumption == Idle \notin Op
ASSUME LossyAssumption == Lossy \in BOOLEAN

VARIABLES
    clock,     \* [Node -> Timestamp], hlc.Clock of each node
    data,      \* [Node -> [Key -> Value \cup {Missing}]], store.Store
    call,      \* the write each client has stamped and not yet stored
    wire,      \* requests whose goroutine has not reached the peer yet
    serving,   \* requests past Clock.Receive at the peer
    writes,    \* history: every operation that got a timestamp
    settled    \* history: requests each node has put to its store

vars == <<clock, data, call, wire, serving, writes, settled>>

Init ==
    /\ \E w \in [Node -> Wall] : clock = [n \in Node |-> New(w[n])]
    /\ data = [n \in Node |-> NewStore]
    /\ call = [c \in Client |-> Idle]
    /\ wire = {}
    /\ serving = {}
    /\ writes = {}
    /\ settled = [n \in Node |-> {}]

----------------------------------------------------------------------------
(* Plausible mistakes.                                                     *)

(* Send returns the next timestamp and does not keep it.                   *)
StampUnlocked(c, k, x, now) ==
    LET op == OpFor(k, x, Send(clock[Home[c]], now), c)
    IN  /\ call[c] = Idle
        /\ Cardinality(writes) < MaxWrites
        /\ ~SendFails(clock[Home[c]], now)
        /\ call' = [call EXCEPT ![c] = op]
        /\ writes' = writes \cup {op}
        /\ UNCHANGED <<clock, data, wire, serving, settled>>

(* Replicate writes as a local client does.                                *)
ServeApplyAsPut(m) ==
    /\ m \in serving
    /\ data' = [data EXCEPT ![m.to][m.key] = Decode(m)]
    /\ serving' = serving \ {m}
    /\ settled' = [settled EXCEPT ![m.to] = @ \cup {m}]
    /\ UNCHANGED <<clock, call, wire, writes>>

----------------------------------------------------------------------------
(* The start of Node.Put and Node.Delete (x = Missing): Clock.Send.  When  *)
(* Send reports overflow the call returns the error and nothing happens.   *)
Stamp(c, k, x, now) ==
    LET n == Home[c]
        op == OpFor(k, x, Send(clock[n], now), c)
    IN  /\ call[c] = Idle
        /\ Cardinality(writes) < MaxWrites
        /\ ~SendFails(clock[n], now)
        /\ clock' = [clock EXCEPT ![n] = Send(@, now)]
        /\ call' = [call EXCEPT ![c] = op]
        /\ writes' = writes \cup {op}
        /\ UNCHANGED <<data, wire, serving, settled>>

(* The rest of Put and Delete: the unconditional local write, then         *)
(* EventualHandler.OnWrite starts the goroutines and the call returns.     *)
StoreThenReplicate(c) ==
    LET op == call[c]
    IN  /\ op # Idle
        /\ data' = [data EXCEPT ![Home[c]] = StoreLocally(@, op)]
        /\ wire' = wire \cup Broadcast(op, {})
        /\ call' = [call EXCEPT ![c] = Idle]
        /\ UNCHANGED <<clock, serving, writes, settled>>

(* Node.Replicate up to Clock.Receive.                                     *)
Serve(m, now) ==
    /\ m \in wire
    /\ ~ReceiveFails(clock[m.to], m.ts, now)
    /\ clock' = [clock EXCEPT ![m.to] = Receive(@, m.ts, now)]
    /\ wire' = wire \ {m}
    /\ serving' = serving \cup {m}
    /\ UNCHANGED <<data, call, writes, settled>>

(* Clock.Receive reports overflow: Replicate returns the error and the     *)
(* sender discards it.                                                     *)
ServeError(m, now) ==
    /\ m \in wire
    /\ ReceiveFails(clock[m.to], m.ts, now)
    /\ wire' = wire \ {m}
    /\ UNCHANGED <<clock, data, call, serving, writes, settled>>

(* The rest of Replicate: Store.Apply or Store.ApplyDelete.                *)
ServeApply(m) ==
    /\ m \in serving
    /\ data' = [data EXCEPT ![m.to] = ApplyReplicated(@, m)]
    /\ serving' = serving \ {m}
    /\ settled' = [settled EXCEPT ![m.to] = @ \cup {m}]
    /\ UNCHANGED <<clock, call, wire, writes>>

(* The RPC fails before the peer serves it; `_, _ =' drops the error.      *)
Lose(m) ==
    /\ Lossy
    /\ m \in wire
    /\ wire' = wire \ {m}
    /\ UNCHANGED <<clock, data, call, serving, writes, settled>>

Quiescent ==
    wire = {} /\ serving = {} /\ \A c \in Client : call[c] = Idle

(* Clients may stop calling once nothing is under way.                     *)
Rest == Quiescent /\ UNCHANGED vars

Deliver ==
    \/ \E m \in wire, now \in Wall : Serve(m, now) \/ ServeError(m, now)
    \/ \E m \in serving : ServeApply(m)

Next ==
    \/ \E c \in Client, k \in Key, x \in Data \cup {Missing}, now \in Wall :
          Stamp(c, k, x, now)
    \/ \E c \in Client : StoreThenReplicate(c)
    \/ Deliver
    \/ \E m \in wire : Lose(m)
    \/ Rest

(* A handler that has started finishes, and a request that is not lost is  *)
(* served: goroutines and RPC handlers are scheduled and never wait.       *)
Fairness ==
    /\ \A c \in Client : WF_vars(StoreThenReplicate(c))
    /\ WF_vars(Deliver)

Spec == Init /\ [][Next]_vars
FairSpec == Spec /\ Fairness

----------------------------------------------------------------------------
(* Type correctness of the variables.                                      *)
TypeOK ==
    /\ clock \in [Node -> Timestamp]
    /\ data \in [Node -> [Key -> Value \cup {Missing}]]
    /\ call \in [Client -> Op \cup {Idle}]
    /\ wire \subseteq Message
    /\ serving \subseteq Message
    /\ writes \subseteq Op
    /\ settled \in [Node -> SUBSET Message]

(* Clock.Send gives two writes of one node different timestamps, however   *)
(* its clients' calls interleave with the Clock.Receive of its peers'      *)
(* writes, and the node's clock is never behind one of them.               *)
StampsUnique ==
    \A w \in writes :
        /\ AfterOrEqual(clock[Home[w.val.by]], w.val.ts)
        /\ \A v \in writes :
              Home[v.val.by] = Home[w.val.by] /\ v.val.ts = w.val.ts => v = w

(* A node no client of which writes k shows, of all the requests for k it  *)
(* has served in whatever order they came, one with the greatest timestamp.*)
WritesLocally(n, k) ==
    \E w \in writes : Home[w.val.by] = n /\ w.key = k

PassiveLatest ==
    \A n \in Node, k \in Key : ~WritesLocally(n, k) =>
        /\ \A m \in settled[n] : m.key = k =>
              data[n][k] # Missing /\ AfterOrEqual(data[n][k].ts, m.ts)
        /\ data[n][k] # Missing =>
              \E m \in settled[n] : m.key = k /\ data[n][k] = Decode(m)

(* Only a client's own write, which Store.Put stores without looking, can  *)
(* replace the version of a key by one that is not newer; Replicate never  *)
(* does.                                                                   *)
OnlyLocalWriteRegresses ==
    [][\A n \in Node, k \in Key :
          data'[n][k] # data[n][k] /\ data[n][k] # Missing =>
             \/ After(data'[n][k].ts, data[n][k].ts)
             \/ \E c \in Client :
                   /\ Home[c] = n
                   /\ call[c] # Idle
                   /\ call[c].key = k
                   /\ data'[n][k].ts = call[c].val.ts]_vars

(* Every node answers a Get of k alike.                                    *)
Agree(k) == \A n, m \in Node : Visible(data[n], k) = Visible(data[m], k)

(* All writes of k come from one client.                                   *)
SingleWriter(k) ==
    \A v, w \in writes : v.key = k /\ w.key = k => v.val.by = w.val.by

(* No client has put the empty value to k, which its own node keeps as     *)
(* found and Replicate turns into a deletion at the peers.                 *)
NoEmptyPut(k) ==
    \A w \in writes : w.key = k => w.val.deleted \/ w.val.data # Empty

(* What the checker takes for granted when it waits for replication to     *)
(* settle: with nothing under way the nodes answer alike.                  *)
Converged == Quiescent => \A k \in Key : Agree(k)

----------------------------------------------------------------------------
Readers == {n \in Node : \A c \in Client : Home[c] # n}

LWW == INSTANCE LastWriteWins
         WITH issued <- writes, view <- [n \in Readers |-> data[n]]

(* Node.Replicate in eventual mode, however its requests come, amounts,    *)
(* to every node without clients, a register per key that only moves to    *)
(* later writes: requests that are late, lost or out of order, clocks that *)
(* jump and goroutines that interleave are all invisible there.            *)
ImplementsLastWriteWins == LWW!Spec
============================================================================
