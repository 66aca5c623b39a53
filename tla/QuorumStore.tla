---------------------------- MODULE QuorumStore ----------------------------
(***************************************************************************)
(* What the store of strong mode promises, with no clocks, RPCs, results   *)
(* or calls: a write gets a timestamp its node has not given before, other *)
(* nodes may accept it as a later version, and its own node stores and     *)
(* acknowledges it when with that node most of the group has it.  No node  *)
(* installs a write twice.  A node's store of its own write is             *)
(* unconditional, so that it may replace a later version there.            *)
(***************************************************************************)
EXTENDS Replica

VARIABLES
    issued,       \* the writes that have a timestamp
    view,         \* the map of each node
    installed,    \* the writes each node has put in its map
    acked         \* the writes whose caller was told of success

qsVars == <<issued, view, installed, acked>>

Init ==
    /\ issued = {}
    /\ view = [n \in Node |-> NewStore]
    /\ installed = [n \in Node |-> {}]
    /\ acked = {}

(* A client's node gives its Put, or Delete (x = Missing), a timestamp it  *)
(* has not given before.                                                   *)
Issue(c, k, x, ts) ==
    /\ issued' = issued \cup {OpFor(k, x, ts, c)}
    /\ \A v \in issued : Home[v.val.by] = Home[c] => v.val.ts # ts
    /\ UNCHANGED <<view, installed, acked>>

(* A peer moves on to a later write; the payload of length 0 is a delete.  *)
Accept(n, w) ==
    /\ n \in Peers(Home[w.val.by])
    /\ view[n][w.key] # Missing => After(w.val.ts, view[n][w.key].ts)
    /\ view' = [view EXCEPT ![n][w.key] = [w.val EXCEPT !.deleted = w.val.data = Empty]]
    /\ installed' = [installed EXCEPT ![n] = @ \cup {OpId(w)}]
    /\ UNCHANGED <<issued, acked>>

(* The peers of n that have installed w, and n itself.                     *)
Backing(n, w) == {n} \cup {p \in Peers(n) : OpId(w) \in installed[p]}

(* Once most of the group has the write its node stores it, whatever it    *)
(* holds, and the caller learns of success.                                *)
Ack(n, w) ==
    /\ Home[w.val.by] = n
    /\ 2 * Cardinality(Backing(n, w)) > Cardinality(Peers(n)) + 1
    /\ view' = [view EXCEPT ![n] = StoreLocally(@, w)]
    /\ installed' = [installed EXCEPT ![n] = @ \cup {OpId(w)}]
    /\ acked' = acked \cup {OpId(w)}
    /\ UNCHANGED issued

(* Every step issues a write or is the first and only one to install a     *)
(* write at a node.                                                        *)
Next ==
    \/ /\ issued' # issued
       /\ \E c \in Client, k \in Key, x \in Data \cup {Missing},
             ts \in [wall : Wall, logical : 0 .. MaxLogical] : Issue(c, k, x, ts)
    \/ /\ installed' # installed
       /\ \E n \in Node, w \in issued : Accept(n, w) \/ Ack(n, w)

Spec == Init /\ [][Next]_qsVars
============================================================================
