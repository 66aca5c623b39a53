--------------------------- MODULE LastWriteWins ---------------------------
(***************************************************************************)
(* What a replica without clients of its own promises in every mode,       *)
(* whatever the network does: it is a register per key that moves from one *)
(* issued write to a later one.  No clocks, messages, buffers or locks.    *)
(***************************************************************************)
EXTENDS Replica

VARIABLES
    issued,    \* the writes that have a timestamp
    view       \* the map of each node in Reader

lwwVars == <<issued, view>>

(* The nodes no client is connected to.                                    *)
Reader == {n \in Node : \A c \in Client : Home[c] # n}

Init ==
    /\ issued = {}
    /\ view = [r \in Reader |-> NewStore]

(* A client's node gives its Put, or Delete (x = Missing), a timestamp it  *)
(* has not given before.                                                   *)
Issue(c, k, x, ts) ==
    /\ \A v \in issued : Home[v.val.by] = Home[c] => v.val.ts # ts
    /\ issued' = issued \cup {OpFor(k, x, ts, c)}
    /\ UNCHANGED view

(* A reader moves on to a later write, and shows the payload of length 0   *)
(* as deleted.                                                             *)
Install(r, w) ==
    /\ w \in issued
    /\ view[r][w.key] # Missing => After(w.val.ts, view[r][w.key].ts)
    /\ view' = [view EXCEPT ![r][w.key] = [w.val EXCEPT !.deleted = w.val.data = Empty]]
    /\ UNCHANGED issued

Next ==
    \/ \E c \in Client, k \in Key, x \in Data \cup {Missing},
          ts \in [wall : Wall, logical : 0 .. MaxLogical] : Issue(c, k, x, ts)
    \/ \E r \in Reader, w \in issued : Install(r, w)

Spec == Init /\ [][Next]_lwwVars
============================================================================
