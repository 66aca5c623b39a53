--------------------------- MODULE StrongCluster ---------------------------
(***************************************************************************)
(* A cluster in strong mode: Node.Put and Node.Delete call                 *)
(* StrongHandler.OnWrite before they store anything.  OnWrite sends the    *)
(* write to every peer, waits for every RPC to end (wg.Wait), counts the   *)
(* successes, and fails the call if they are fewer than Quorum - 1; only   *)
(* then does the node store its own write.  A peer serves a request as in  *)
(* eventual mode and reports whether last write wins accepted it.          *)
(*                                                                         *)
(* The RPCs run under the client's context, so one may end in an error     *)
(* (deadline, broken connection) while its request is still on the way or  *)
(* its response is coming back: the peer may then apply it late or never.  *)
(***************************************************************************)
EXTENDS Replica

CONSTANTS
    Idle,    \* a client with no call in progress
    Lossy,   \* whether an RPC to a peer may end in an error
    Hung     \* peers that accept RPCs and never answer them

ASSUME IdleAssumption == Idle \notin Op
ASSUME LossyAssumption == Lossy \in BOOLEAN
ASSUME HungAssumption == Hung \subseteq Node

VARIABLES
    clock,      \* [Node -> Timestamp], hlc.Clock of each node
    data,       \* [Node -> [Key -> Value \cup {Missing}]], store.Store
    call,       \* the write each client's OnWrite is waiting for
    result,     \* result.ok of each peer's RPC of that write, or "pending"
    wire,       \* requests not yet served by the peer
    serving,    \* requests past Clock.Receive at the peer
    responses,  \* responses on their way back to a waiting OnWrite
    writes,     \* history: every operation that got a timestamp
    installed,  \* history: the writes each node has put in its store
    acked       \* history: the writes whose call returned success

vars == <<clock, data, call, result, wire, serving, responses, writes,
          installed, acked>>

Outcome == {"pending", "ok", "failed"}

(* The results channel as OnWrite makes it; it goes when OnWrite returns.  *)
NoResults == [p \in Node |-> "pending"]

(* A response goes back on the stream of the request it answers.           *)
Response == [req : Message, success : BOOLEAN]

Init ==
    /\ \E w \in [Node -> Wall] : clock = [n \in Node |-> New(w[n])]
    /\ data = [n \in Node |-> NewStore]
    /\ call = [c \in Client |-> Idle]
    /\ result = [c \in Client |-> NoResults]
    /\ wire = {}
    /\ serving = {}
    /\ responses = {}
    /\ writes = {}
    /\ installed = [n \in Node |-> {}]
    /\ acked = {}

----------------------------------------------------------------------------
(* Plausible mistakes.                                                     *)

(* floor(n/2), forgetting the + 1.                                         *)
QuorumHalf(n) == (Cardinality(Peers(n)) + 1) \div 2

(* An RPC that ended counts, whatever its error and Success say.           *)
AcksAnswered(c) == {p \in Peers(Home[c]) : result[c][p] # "pending"}

(* The node stores first, as in the other modes.                           *)
StampStoresFirst(c, k, x, now) ==
    LET n == Home[c]
        op == OpFor(k, x, Send(clock[n], now), c)
    IN  /\ call[c] = Idle
        /\ Cardinality(writes) < MaxWrites
        /\ ~SendFails(clock[n], now)
        /\ clock' = [clock EXCEPT ![n] = Send(@, now)]
        /\ data' = [data EXCEPT ![n] = StoreLocally(@, op)]
        /\ call' = [call EXCEPT ![c] = op]
        /\ result' = [result EXCEPT ![c] = NoResults]
        /\ wire' = wire \cup Broadcast(op, {})
        /\ writes' = writes \cup {op}
        /\ UNCHANGED <<serving, responses, installed, acked>>

(* A failed RPC puts nothing in results, and OnWrite waits for it.         *)
AllOk(c) == \A p \in Peers(Home[c]) : result[c][p] = "ok"

----------------------------------------------------------------------------
(* NewHandler: total/2 + 1 with the node itself in the total.              *)
Quorum(n) == (Cardinality(Peers(n)) + 1) \div 2 + 1

(* The successes OnWrite counts for the call of c.                         *)
Acks(c) == {p \in Peers(Home[c]) : result[c][p] = "ok"}

(* The RPC that carries request m still has somebody waiting for it.       *)
Waiting(m) ==
    /\ call[m.by] # Idle
    /\ OpId(call[m.by]) = RequestId(m)
    /\ result[m.by][m.to] = "pending"

(* Node.Put and Node.Delete (x = Missing) up to wg.Wait: Clock.Send, then  *)
(* OnWrite starts one RPC per peer.  Nothing the sends touch is shared, so *)
(* they are part of the step that takes the timestamp.                     *)
StampAndReplicate(c, k, x, now) ==
    LET n == Home[c]
        op == OpFor(k, x, Send(clock[n], now), c)
    IN  /\ call[c] = Idle
        /\ Cardinality(writes) < MaxWrites
        /\ ~SendFails(clock[n], now)
        /\ clock' = [clock EXCEPT ![n] = Send(@, now)]
        /\ call' = [call EXCEPT ![c] = op]
        /\ result' = [result EXCEPT ![c] = NoResults]
        /\ wire' = wire \cup Broadcast(op, {})
        /\ writes' = writes \cup {op}
        /\ UNCHANGED <<data, serving, responses, installed, acked>>

(* Node.Replicate up to Clock.Receive.                                     *)
Serve(m, now) ==
    /\ m \in wire
    /\ m.to \notin Hung
    /\ ~ReceiveFails(clock[m.to], m.ts, now)
    /\ clock' = [clock EXCEPT ![m.to] = Receive(@, m.ts, now)]
    /\ wire' = wire \ {m}
    /\ serving' = serving \cup {m}
    /\ UNCHANGED <<data, call, result, responses, writes, installed, acked>>

(* A plausible mistake: Success whatever Clock.Receive and the store said. *)
RespondYes(m, ok) ==
    responses' = IF Waiting(m)
                 THEN responses \cup {[req |-> m, success |-> TRUE]}
                 ELSE responses

(* The response of m, if its RPC has not ended meanwhile.                  *)
Respond(m, ok) ==
    responses' = IF Waiting(m)
                 THEN responses \cup {[req |-> m, success |-> ok]}
                 ELSE responses

(* Clock.Receive overflows: Replicate returns an error.                    *)
ServeError(m, now) ==
    /\ m \in wire
    /\ m.to \notin Hung
    /\ ReceiveFails(clock[m.to], m.ts, now)
    /\ wire' = wire \ {m}
    /\ Respond(m, FALSE)
    /\ UNCHANGED <<clock, data, call, result, serving, writes, installed, acked>>

(* The rest of Replicate: Store.Apply or ApplyDelete, and Success.         *)
ServeApply(m) ==
    LET ok == Accepts(data[m.to], m.key, m.ts)
    IN  /\ m \in serving
        /\ data' = [data EXCEPT ![m.to] = ApplyReplicated(@, m)]
        /\ serving' = serving \ {m}
        /\ Respond(m, ok)
        /\ installed' = [installed EXCEPT
                           ![m.to] = IF ok THEN @ \cup {RequestId(m)} ELSE @]
        /\ UNCHANGED <<clock, call, result, wire, writes, acked>>

(* A response reaches the goroutine that waits for it.                     *)
Answer(r) ==
    /\ r \in responses
    /\ Waiting(r.req)
    /\ responses' = responses \ {r}
    /\ result' = [result EXCEPT ![r.req.by][r.req.to] =
                    IF r.success THEN "ok" ELSE "failed"]
    /\ UNCHANGED <<clock, data, call, wire, serving, writes, installed, acked>>

(* The RPC ends in an error first; a response under way is not seen.       *)
CallFails(c, p) ==
    /\ Lossy
    /\ call[c] # Idle
    /\ p \in Peers(Home[c])
    /\ result[c][p] = "pending"
    /\ result' = [result EXCEPT ![c][p] = "failed"]
    /\ responses' = {r \in responses : r.req.by # c \/ r.req.to # p}
    /\ UNCHANGED <<clock, data, call, wire, serving, writes, installed, acked>>

(* A request whose RPC has ended need not reach the peer any more.         *)
Drop(m) ==
    /\ Lossy
    /\ m \in wire
    /\ ~Waiting(m)
    /\ wire' = wire \ {m}
    /\ UNCHANGED <<clock, data, call, result, serving, responses, writes,
                   installed, acked>>

(* wg.Wait returns when the RPC of every peer has ended.                   *)
AllEnded(c) == \A p \in Peers(Home[c]) : result[c][p] # "pending"

(* OnWrite succeeds; Put and Delete store the write unconditionally.       *)
Commit(c) ==
    LET n == Home[c]
    IN  /\ call[c] # Idle
        /\ AllEnded(c)
        /\ Cardinality(Acks(c)) >= Quorum(n) - 1
        /\ data' = [data EXCEPT ![n] = StoreLocally(@, call[c])]
        /\ installed' = [installed EXCEPT ![n] = @ \cup {OpId(call[c])}]
        /\ acked' = acked \cup {OpId(call[c])}
        /\ call' = [call EXCEPT ![c] = Idle]
        /\ result' = [result EXCEPT ![c] = NoResults]
        /\ UNCHANGED <<clock, wire, serving, responses, writes>>

(* "replication: quorum not reached": what the peers applied stays.        *)
Abort(c) ==
    /\ call[c] # Idle
    /\ AllEnded(c)
    /\ Cardinality(Acks(c)) < Quorum(Home[c]) - 1
    /\ call' = [call EXCEPT ![c] = Idle]
    /\ result' = [result EXCEPT ![c] = NoResults]
    /\ UNCHANGED <<clock, data, wire, serving, responses, writes, installed,
                   acked>>

Quiescent ==
    wire = {} /\ serving = {} /\ responses = {} /\ \A c \in Client : call[c] = Idle

(* Clients may stop calling once nothing is under way.                     *)
Rest == Quiescent /\ UNCHANGED vars

Deliver ==
    \/ \E m \in wire, now \in Wall : Serve(m, now) \/ ServeError(m, now)
    \/ \E m \in serving : ServeApply(m)
    \/ \E r \in responses : Answer(r)

Return(c) == Commit(c) \/ Abort(c)

Next ==
    \/ \E c \in Client, k \in Key, x \in Data \cup {Missing}, now \in Wall :
          StampAndReplicate(c, k, x, now)
    \/ Deliver
    \/ \E c \in Client, p \in Node : CallFails(c, p)
    \/ \E m \in wire : Drop(m)
    \/ \E c \in Client : Return(c)
    \/ Rest

(* Peers that are not Hung serve their requests and answer, and a handler  *)
(* past wg.Wait finishes.  No deadline is assumed: CallFails may never     *)
(* happen.                                                                 *)
Fairness ==
    /\ WF_vars(Deliver)
    /\ \A c \in Client : WF_vars(Return(c))

Spec == Init /\ [][Next]_vars
FairSpec == Spec /\ Fairness

----------------------------------------------------------------------------
(* Type correctness of the variables.                                      *)
TypeOK ==
    /\ clock \in [Node -> Timestamp]
    /\ data \in [Node -> [Key -> Value \cup {Missing}]]
    /\ call \in [Client -> Op \cup {Idle}]
    /\ result \in [Client -> [Node -> Outcome]]
    /\ wire \subseteq Message
    /\ serving \subseteq Message
    /\ responses \subseteq Response
    /\ writes \subseteq Op
    /\ installed \in [Node -> SUBSET WriteId]
    /\ acked \subseteq WriteId

(* A node and the peers it dialled, and most of them.                      *)
Group(n) == {n} \cup Peers(n)

Majority(S, n) == 2 * Cardinality(S \cap Group(n)) > Cardinality(Group(n))

InstalledBy(w) == {n \in Node : w \in installed[n]}

(* A write whose call returned success has been put in the stores of most  *)
(* of its node's group, its own among them, even when RPCs failed, answers *)
(* came late or other writes of the key ran at the same time.              *)
AckedOnQuorum ==
    \A w \in acked :
        /\ w \in installed[Home[w.by]]
        /\ Majority(InstalledBy(w), Home[w.by])

(* Any two acknowledged writes were installed by a common node, if the     *)
(* nodes they were made at dialled the same group: quorums meet.           *)
QuorumsMeet ==
    \A v, w \in acked :
        Group(Home[v.by]) = Group(Home[w.by]) =>
            InstalledBy(v) \cap InstalledBy(w) # {}

(* A node shows a write of its own client only once that write's call has  *)
(* succeeded: OnWrite precedes the local store.                            *)
OwnVersionAcked ==
    \A n \in Node, k \in Key :
        data[n][k] # Missing /\ Home[data[n][k].by] = n =>
            [key |-> k, ts |-> data[n][k].ts, by |-> data[n][k].by] \in acked

SingleWriter(k) ==
    \A v, w \in writes : v.key = k /\ w.key = k => v.val.by = w.val.by

Holders(w) == {n \in Node : AfterOrEqual(GetVersion(data[n], w.key), w.ts)}

(* While only one client writes a key, most of its group holds every       *)
(* acknowledged write of it or a newer one, whatever RPCs fail afterwards. *)
SingleWriterDurable ==
    \A w \in acked : SingleWriter(w.key) => Majority(Holders(w), Home[w.by])

QS == INSTANCE QuorumStore WITH issued <- writes, view <- data

(* Strong mode is a QuorumStore: RPCs that fail, late answers, requests    *)
(* served after their call has returned and clocks that jump never make    *)
(* StrongHandler.OnWrite acknowledge a write before most of its group has  *)
(* it, or twice, nor a node install a write twice, nor Node.Replicate move *)
(* a peer back; and a write that fails changes nothing at its own node.    *)
ImplementsQuorumStore == QS!Spec

(* A Put or Delete returns if every peer answers its RPC or the RPC fails. *)
CallsReturn == \A c \in Client : call[c] # Idle ~> call[c] = Idle

(* What "quorum-based strong consistency" promises of an acknowledged      *)
(* write: a majority holds it until a newer write replaces it.             *)
AckedHeldByMajority ==
    \A w \in acked : Majority(Holders(w), Home[w.by])

(* What the comment of StrongHandler says: OnWrite blocks until a write    *)
(* quorum is acknowledged, so it returns once enough peers said yes.       *)
QuorumReturns ==
    \A c \in Client :
        (call[c] # Idle /\ Cardinality(Acks(c)) >= Quorum(Home[c]) - 1)
            ~> call[c] = Idle
============================================================================
