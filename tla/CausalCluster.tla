--------------------------- MODULE CausalCluster ---------------------------
(***************************************************************************)
(* A cluster in causal mode.  A node records what its clients read         *)
(* (ReadTracker), a write takes the recorded reads along as dependencies   *)
(* (SnapshotAndClear), and a peer hands the write to its buffer            *)
(* (internal/buffer), which applies it at once or holds it until the       *)
(* store has versions at least as new as the dependencies.                 *)
(*                                                                         *)
(* One step per critical section.  Buffer.Receive holds b.mu from start to *)
(* end but takes the store's lock anew for every GetVersion, Apply and     *)
(* ApplyDelete, so a client's Put may fall between any two of them: the    *)
(* worker that has b.mu checks one dependency per step.  The tracker and a *)
(* write's dependencies are sets: repeated entries and the order of the    *)
(* slice make no difference to depsSatisfied.                              *)
(***************************************************************************)
EXTENDS Replica, Sequences

CONSTANTS
    Idle,    \* a client with no call in progress
    Free,    \* a buffer whose mutex nobody holds
    Lossy    \* whether an RPC to a peer may fail

(* A client's call between two of its critical sections: a write past      *)
(* Clock.Send, a write past SnapshotAndClear, a Get past Store.Get.        *)
Call ==
    [stage : {"stamped"}, op : Op]
        \cup [stage : {"attached"}, op : Op, deps : SUBSET Dependency]
        \cup [stage : {"read"}, dep : Dependency]

(* The goroutine that holds b.mu: the write it looks at, the dependencies  *)
(* it has not checked yet and, in drainLocked, the rest of this pass over  *)
(* held, the entries put in remaining, and progressed.  The code's         *)
(* remaining shares the array of held: it writes only at or before the     *)
(* entry the pass has read, so two sequences say the same.                 *)
Worker == [cur : Message, unchecked : SUBSET Dependency, draining : BOOLEAN,
           todo : Seq(Message), remaining : Seq(Message), progressed : BOOLEAN]

ASSUME IdleAssumption == Idle \notin Call
ASSUME FreeAssumption == Free \notin Worker
ASSUME LossyAssumption == Lossy \in BOOLEAN

VARIABLES
    clock,     \* [Node -> Timestamp], hlc.Clock of each node
    data,      \* [Node -> [Key -> Value \cup {Missing}]], store.Store
    reads,     \* ReadTracker.reads of each node
    held,      \* Buffer.held of each node
    buf,       \* who holds Buffer.mu of each node
    call,      \* each client's call in progress
    wire,      \* requests whose goroutine has not reached the peer yet
    serving,   \* requests past Clock.Receive at the peer
    seen,      \* history: what each client has read since its last write
    writes,    \* history: every write, with what its client had read
    received,  \* history: requests handed to Buffer.Receive at each node
    settled    \* history: requests each node has put to its store

vars == <<clock, data, reads, held, buf, call, wire, serving, seen, writes,
          received, settled>>

History == [op : Op, need : SUBSET Dependency]

Init ==
    /\ \E w \in [Node -> Wall] : clock = [n \in Node |-> New(w[n])]
    /\ data = [n \in Node |-> NewStore]
    /\ reads = [n \in Node |-> {}]
    /\ held = [n \in Node |-> <<>>]
    /\ buf = [n \in Node |-> Free]
    /\ call = [c \in Client |-> Idle]
    /\ wire = {}
    /\ serving = {}
    /\ seen = [c \in Client |-> {}]
    /\ writes = {}
    /\ received = [n \in Node |-> {}]
    /\ settled = [n \in Node |-> {}]

----------------------------------------------------------------------------
(* Plausible mistakes.                                                     *)

(* The handler sends the write without its dependencies.                   *)
AttachNothing(c) ==
    /\ call[c] # Idle
    /\ call[c].stage = "stamped"
    /\ call' = [call EXCEPT ![c] = [stage |-> "attached", op |-> @.op, deps |-> {}]]
    /\ reads' = [reads EXCEPT ![Home[c]] = {}]
    /\ UNCHANGED <<clock, data, held, buf, wire, serving, seen, writes,
                   received, settled>>

(* Any version of the key will do.                                         *)
DepPresent(d, dep) == d[dep.key] # Missing

(* After in the place of AfterOrEqual.                                     *)
DepNewer(d, dep) == After(GetVersion(d, dep.key), dep.minTS)

(* One pass over held, although it may have made earlier entries ready.    *)
DrainOnePass(todo, remaining, progressed) ==
    IF todo # <<>>
    THEN [cur |-> Head(todo), unchecked |-> Head(todo).deps, draining |-> TRUE,
          todo |-> Tail(todo), remaining |-> remaining, progressed |-> progressed]
    ELSE Free

(* drainLocked is not called at all: nothing is ever taken out of held.    *)
ApplyWithoutDrain(n) ==
    /\ buf[n] # Free
    /\ buf[n].unchecked = {}
    /\ data' = [data EXCEPT ![n] = ApplyReplicated(@, buf[n].cur)]
    /\ settled' = [settled EXCEPT ![n] = @ \cup {buf[n].cur}]
    /\ buf' = [buf EXCEPT ![n] = Free]
    /\ UNCHANGED <<clock, reads, held, call, wire, serving, seen, writes, received>>

(* b.held = b.held[:0] instead of b.held = remaining.                      *)
HeldTruncated(worker, remaining) == <<>>

----------------------------------------------------------------------------
(* Node.Put and Node.Delete (x = Missing): Clock.Send.                     *)
Stamp(c, k, x, now) ==
    LET n == Home[c]
        op == OpFor(k, x, Send(clock[n], now), c)
    IN  /\ call[c] = Idle
        /\ Cardinality(writes) < MaxWrites
        /\ ~SendFails(clock[n], now)
        /\ clock' = [clock EXCEPT ![n] = Send(@, now)]
        /\ call' = [call EXCEPT ![c] = [stage |-> "stamped", op |-> op]]
        /\ writes' = writes \cup {[op |-> op, need |-> seen[c]]}
        /\ seen' = [seen EXCEPT ![c] = {}]
        /\ UNCHANGED <<data, reads, held, buf, wire, serving, received, settled>>

(* ReadTracker.SnapshotAndClear: all recorded reads of the node, whichever *)
(* client made them.                                                       *)
AttachDeps(c) ==
    LET n == Home[c]
    IN  /\ call[c] # Idle
        /\ call[c].stage = "stamped"
        /\ call' = [call EXCEPT ![c] =
                      [stage |-> "attached", op |-> @.op, deps |-> reads[n]]]
        /\ reads' = [reads EXCEPT ![n] = {}]
        /\ UNCHANGED <<clock, data, held, buf, wire, serving, seen, writes,
                       received, settled>>

(* The unconditional local write, then CausalHandler.OnWrite starts one    *)
(* goroutine per peer and the call returns.                                *)
StoreThenReplicate(c) ==
    LET n == Home[c]
    IN  /\ call[c] # Idle
        /\ call[c].stage = "attached"
        /\ data' = [data EXCEPT ![n] = StoreLocally(@, call[c].op)]
        /\ wire' = wire \cup Broadcast(call[c].op, call[c].deps)
        /\ call' = [call EXCEPT ![c] = Idle]
        /\ UNCHANGED <<clock, reads, held, buf, serving, seen, writes,
                       received, settled>>

(* Node.Get up to Store.Get; a key that is not found is not recorded.      *)
GetRead(c, k) ==
    LET n == Home[c]
    IN  /\ call[c] = Idle
        /\ Found(data[n], k)
        /\ call' = [call EXCEPT ![c] =
              [stage |-> "read", dep |-> [key |-> k, minTS |-> data[n][k].ts]]]
        /\ UNCHANGED <<clock, data, reads, held, buf, wire, serving, seen,
                       writes, received, settled>>

(* ReadTracker.Record, and the response to the client.                     *)
GetRecord(c) ==
    /\ call[c] # Idle
    /\ call[c].stage = "read"
    /\ reads' = [reads EXCEPT ![Home[c]] = @ \cup {call[c].dep}]
    /\ seen' = [seen EXCEPT ![c] = @ \cup {call[c].dep}]
    /\ call' = [call EXCEPT ![c] = Idle]
    /\ UNCHANGED <<clock, data, held, buf, wire, serving, writes, received,
                   settled>>

----------------------------------------------------------------------------
(* Node.Replicate up to Clock.Receive.                                     *)
Serve(m, now) ==
    /\ m \in wire
    /\ ~ReceiveFails(clock[m.to], m.ts, now)
    /\ clock' = [clock EXCEPT ![m.to] = Receive(@, m.ts, now)]
    /\ wire' = wire \ {m}
    /\ serving' = serving \cup {m}
    /\ UNCHANGED <<data, reads, held, buf, call, seen, writes, received, settled>>

(* Clock.Receive overflows: the sender discards the error.                 *)
ServeError(m, now) ==
    /\ m \in wire
    /\ ReceiveFails(clock[m.to], m.ts, now)
    /\ wire' = wire \ {m}
    /\ UNCHANGED <<clock, data, reads, held, buf, call, serving, seen, writes,
                   received, settled>>

(* The RPC fails before the peer serves it.                                *)
Lose(m) ==
    /\ Lossy
    /\ m \in wire
    /\ wire' = wire \ {m}
    /\ UNCHANGED <<clock, data, reads, held, buf, call, serving, seen, writes,
                   received, settled>>

----------------------------------------------------------------------------
(* One iteration of depsSatisfied: GetVersion against MinTS.               *)
DepSatisfied(d, dep) == AfterOrEqual(GetVersion(d, dep.key), dep.minTS)

(* The worker at write m, with the given rest of its pass.                 *)
LookAt(m, draining, todo, remaining, progressed) ==
    [cur |-> m, unchecked |-> m.deps, draining |-> draining, todo |-> todo,
     remaining |-> remaining, progressed |-> progressed]

(* drainLocked from the top of its inner loop: the next entry of the pass; *)
(* else, after a pass that applied something, a new pass over remaining;   *)
(* else the end, which releases b.mu.                                      *)
Drain(todo, remaining, progressed) ==
    CASE todo # <<>> ->
            LookAt(Head(todo), TRUE, Tail(todo), remaining, progressed)
      [] todo = <<>> /\ progressed /\ remaining # <<>> ->
            LookAt(Head(remaining), TRUE, Tail(remaining), <<>>, FALSE)
      [] OTHER -> Free

(* The entries are in the worker's hands until drainLocked ends.           *)
HeldWhile(worker, remaining) == IF worker = Free THEN remaining ELSE <<>>

(* Buffer.Receive takes b.mu.                                              *)
BufferReceive(m) ==
    /\ m \in serving
    /\ buf[m.to] = Free
    /\ buf' = [buf EXCEPT ![m.to] = LookAt(m, FALSE, <<>>, <<>>, FALSE)]
    /\ serving' = serving \ {m}
    /\ received' = [received EXCEPT ![m.to] = @ \cup {m}]
    /\ UNCHANGED <<clock, data, reads, held, call, wire, seen, writes, settled>>

(* depsSatisfied finds a dependency met and goes on.                       *)
DependencyMet(n, dep) ==
    /\ buf[n] # Free
    /\ dep \in buf[n].unchecked
    /\ DepSatisfied(data[n], dep)
    /\ buf' = [buf EXCEPT ![n].unchecked = @ \ {dep}]
    /\ UNCHANGED <<clock, data, reads, held, call, wire, serving, seen, writes,
                   received, settled>>

(* depsSatisfied returns false: a new write is appended to held and b.mu   *)
(* released, an entry of held goes to remaining.                           *)
DependencyUnmet(n, dep) ==
    LET b == buf[n]
        remaining == Append(b.remaining, b.cur)
        next == IF b.draining THEN Drain(b.todo, remaining, b.progressed) ELSE Free
    IN  /\ b # Free
        /\ dep \in b.unchecked
        /\ ~DepSatisfied(data[n], dep)
        /\ buf' = [buf EXCEPT ![n] = next]
        /\ held' = [held EXCEPT ![n] = IF b.draining THEN HeldWhile(next, remaining)
                                       ELSE Append(@, b.cur)]
        /\ UNCHANGED <<clock, data, reads, call, wire, serving, seen, writes,
                       received, settled>>

(* All dependencies met: applyLocked, then drainLocked starts or goes on.  *)
BufferApply(n) ==
    LET b == buf[n]
        next == IF b.draining THEN Drain(b.todo, b.remaining, TRUE)
                ELSE Drain(held[n], <<>>, FALSE)
    IN  /\ b # Free
        /\ b.unchecked = {}
        /\ data' = [data EXCEPT ![n] = ApplyReplicated(@, b.cur)]
        /\ settled' = [settled EXCEPT ![n] = @ \cup {b.cur}]
        /\ buf' = [buf EXCEPT ![n] = next]
        /\ held' = [held EXCEPT ![n] = HeldWhile(next, b.remaining)]
        /\ UNCHANGED <<clock, reads, call, wire, serving, seen, writes, received>>

BufferStep(n) ==
    \/ \E dep \in (IF buf[n] = Free THEN {} ELSE buf[n].unchecked) :
          DependencyMet(n, dep) \/ DependencyUnmet(n, dep)
    \/ BufferApply(n)

Quiescent ==
    /\ wire = {} /\ serving = {}
    /\ \A c \in Client : call[c] = Idle
    /\ \A n \in Node : buf[n] = Free

(* Clients may stop calling once nothing is under way.                     *)
Rest == Quiescent /\ UNCHANGED vars

Deliver ==
    \/ \E m \in wire, now \in Wall : Serve(m, now) \/ ServeError(m, now)
    \/ \E m \in serving : BufferReceive(m)
    \/ \E n \in Node : BufferStep(n)

Continue(c) == AttachDeps(c) \/ StoreThenReplicate(c) \/ GetRecord(c)

Next ==
    \/ \E c \in Client, k \in Key, x \in Data \cup {Missing}, now \in Wall :
          Stamp(c, k, x, now)
    \/ \E c \in Client, k \in Key : GetRead(c, k)
    \/ \E c \in Client : Continue(c)
    \/ Deliver
    \/ \E m \in wire : Lose(m)
    \/ Rest

(* A handler that has started goes on, requests that are not lost are      *)
(* served, and the holder of a buffer's mutex runs: none of them waits for *)
(* anything but a mutex whose holder runs.                                 *)
Fairness ==
    /\ \A c \in Client : WF_vars(Continue(c))
    /\ WF_vars(Deliver)

Spec == Init /\ [][Next]_vars
FairSpec == Spec /\ Fairness

----------------------------------------------------------------------------
(* Type correctness of the variables.                                      *)
TypeOK ==
    /\ clock \in [Node -> Timestamp]
    /\ data \in [Node -> [Key -> Value \cup {Missing}]]
    /\ reads \in [Node -> SUBSET Dependency]
    /\ held \in [Node -> Seq(Message)]
    /\ buf \in [Node -> Worker \cup {Free}]
    /\ call \in [Client -> Call \cup {Idle}]
    /\ wire \subseteq Message
    /\ serving \subseteq Message
    /\ seen \in [Client -> SUBSET Dependency]
    /\ writes \subseteq History
    /\ received \in [Node -> SUBSET Message]
    /\ settled \in [Node -> SUBSET Message]

(* A client of node n has stamped a write of k: n may store it unasked.    *)
WritesLocally(n, k) ==
    \E w \in writes : Home[w.op.val.by] = n /\ w.op.key = k

(* A client that has its node, and so the node's ReadTracker, to itself.   *)
Alone(c) == \A e \in Client : Home[e] = Home[c] => e = c

(* Node n holds write w of the history, and what w's client had read.      *)
Holds(n, w) ==
    /\ data[n][w.op.key] # Missing
    /\ data[n][w.op.key].ts = w.op.val.ts
    /\ data[n][w.op.key].by = w.op.val.by

Shows(n, dep) ==
    /\ data[n][dep.key] # Missing
    /\ AfterOrEqual(data[n][dep.key].ts, dep.minTS)

Includes(n, w) ==
    \A dep \in w.need : Shows(n, dep) \/ WritesLocally(n, dep.key)

(* A node that shows a write also shows, of every key its client had read  *)
(* since its previous write and no client of the node writes, that version *)
(* or a newer one: B is never visible before A, whichever order the        *)
(* requests arrive in, as long as the client shares its node with nobody.  *)
CausalVisibility ==
    \A n \in Node, w \in writes :
        Alone(w.op.val.by) /\ Holds(n, w) => Includes(n, w)

Ready(n, m) == \A dep \in m.deps : Shows(n, dep)

(* When drainLocked has ended, a write is still held although its          *)
(* dependencies are satisfied only where a client of the same node stored  *)
(* one of the versions it waits for: the passes over held miss none, even  *)
(* when one entry makes an earlier one ready, and only a local store,      *)
(* which does not drain, can satisfy a held write behind the buffer's back.*)
DrainComplete ==
    \A n \in Node : buf[n] = Free =>
        \A i \in 1 .. Len(held[n]) : Ready(n, held[n][i]) =>
            \E dep \in held[n][i].deps : Home[data[n][dep.key].by] = n

(* n has put to its store the write that dep stands for.                   *)
HasSettled(n, dep) == \E m \in settled[n] : m.key = dep.key /\ m.ts = dep.minTS

(* While nobody works on a buffer, a write stays held only for the want of *)
(* a request the node has not put to its store yet, or on account of a key *)
(* that a client of the node writes: Store.Put may have put that key back  *)
(* to an older version, or have met the dependency without a drain.        *)
HeldForAReason ==
    \A n \in Node : buf[n] = Free =>
        \A i \in 1 .. Len(held[n]) : \E dep \in held[n][i].deps :
            ~HasSettled(n, dep) \/ WritesLocally(n, dep.key)

(* The writes the buffer of n has in hand, held or being drained.          *)
InHand(n) ==
    IF buf[n] = Free THEN held[n]
    ELSE <<buf[n].cur>> \o buf[n].todo \o buf[n].remaining \o held[n]

(* Every write handed to Buffer.Receive, for which Replicate reports       *)
(* Success, has been put to the store or is in the buffer exactly once:    *)
(* the passes over held neither drop nor repeat an entry.                  *)
NoneForgotten ==
    \A n \in Node :
        LET q == InHand(n)
        IN  /\ received[n] = settled[n] \cup {q[i] : i \in 1 .. Len(q)}
            /\ \A i \in 1 .. Len(q) : q[i] \notin settled[n]
            /\ \A i, j \in 1 .. Len(q) : i # j => q[i] # q[j]

(* All writes of k come from one client.                                   *)
SingleWriter(k) ==
    \A v, w \in writes : v.op.key = k /\ w.op.key = k => v.op.val.by = w.op.val.by

(* No client has put the empty value to k, which its own node keeps as     *)
(* found and Replicate turns into a deletion at the peers.                 *)
NoEmptyPut(k) ==
    \A w \in writes : w.op.key = k => w.op.val.deleted \/ w.op.val.data # Empty

(* Once clients stop and no RPC fails, and if every key has one writer, no *)
(* write stays in a buffer for good and all nodes answer Get alike.  The   *)
(* condition is on all keys: where a node's own client puts one back to an *)
(* older version, writes of other keys that depend on the newer one stay   *)
(* held there (HeldForAReason).                                            *)
SingleWriterConverges ==
    <>[]((\A k \in Key : SingleWriter(k) /\ NoEmptyPut(k)) =>
            \A k \in Key, n, m \in Node : data[n][k] = data[m][k])

(* What the experiment's comment says of causal mode: B is buffered until  *)
(* A is visible, where a client read A and then wrote B.                   *)
ReadsVisibleFirst ==
    \A n \in Node, w \in writes : Holds(n, w) => Includes(n, w)

----------------------------------------------------------------------------
Readers == {n \in Node : \A c \in Client : Home[c] # n}

LWW == INSTANCE LastWriteWins
         WITH issued <- {w.op : w \in writes}, view <- [n \in Readers |-> data[n]]

(* Node.Replicate in causal mode, with its buffer, amounts,                *)
(* to every node without clients, a register per key that only moves to    *)
(* later writes: requests that are late, lost or out of order, clocks that *)
(* jump and goroutines that interleave are all invisible there.            *)
ImplementsLastWriteWins == LWW!Spec
============================================================================
