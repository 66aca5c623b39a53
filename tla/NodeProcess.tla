---------------------------- MODULE NodeProcess ----------------------------
(***************************************************************************)
(* Nodes in eventual mode that are stopped (cmd/node, main).  SIGINT and   *)
(* SIGTERM lead to GracefulStop: no new RPC is accepted, the handlers that *)
(* run finish, and then the process ends.  The goroutines that replicate a *)
(* write are no handlers: those that have not sent their request die with  *)
(* the process.  A request to a node that takes none fails, and its sender *)
(* forgets it.  No other RPC fails here, so that what the nodes that run   *)
(* on must agree on is clear.                                              *)
(***************************************************************************)
EXTENDS EventualCluster

CONSTANT Stoppable    \* the nodes that may get a signal

ASSUME StoppableAssumption == Stoppable \subseteq Node

VARIABLE proc    \* [Node -> {"running", "draining", "exited"}]

procVars == <<vars, proc>>

ProcInit == Init /\ proc = [n \in Node |-> "running"]

Up(n) == proc[n] = "running"

(* The RPC handlers at work at n: its clients' calls and its peers'.       *)
Handling(n) ==
    \/ \E c \in Client : Home[c] = n /\ call[c] # Idle
    \/ \E m \in serving : m.to = n

----------------------------------------------------------------------------
(* Plausible mistakes.                                                     *)

(* The server waits for its peers' connections to close, not for RPCs.     *)
DrainedOfConns(n) == ~Handling(n) /\ \A p \in Node : n \in Peers(p) => ~Up(p)

----------------------------------------------------------------------------
(* A signal arrives at <-quit: GracefulStop begins.                        *)
Interrupt(n) ==
    /\ n \in Stoppable
    /\ Up(n)
    /\ proc' = [proc EXCEPT ![n] = "draining"]
    /\ UNCHANGED vars

(* GracefulStop returns when the last handler has.                         *)
Drained(n) == ~Handling(n)

(* main returns: of the node's own requests some never leave it.           *)
Exit(n) ==
    /\ proc[n] = "draining"
    /\ Drained(n)
    /\ proc' = [proc EXCEPT ![n] = "exited"]
    /\ \E dead \in SUBSET {m \in wire : Home[m.by] = n} : wire' = wire \ dead
    /\ UNCHANGED <<clock, data, call, serving, writes, settled>>

(* A request finds a server that is stopping or gone.                      *)
Refuse(m) ==
    /\ m \in wire
    /\ ~Up(m.to)
    /\ wire' = wire \ {m}
    /\ UNCHANGED <<clock, data, call, serving, writes, settled, proc>>

(* The cluster's steps: new RPCs only at nodes that are up, handlers that  *)
(* have started go on.                                                     *)
ClientStep ==
    /\ \E c \in Client, k \in Key, x \in Data \cup {Missing}, now \in Wall :
          Up(Home[c]) /\ Stamp(c, k, x, now)
    /\ UNCHANGED proc

Finish(c) == StoreThenReplicate(c) /\ UNCHANGED proc

ProcDeliver ==
    \/ /\ \/ \E m \in wire, now \in Wall :
                Up(m.to) /\ (Serve(m, now) \/ ServeError(m, now))
          \/ \E m \in serving : ServeApply(m)
       /\ UNCHANGED proc
    \/ \E m \in wire : Refuse(m)

Shutdown == \E n \in Node : Exit(n)

ProcNext ==
    \/ ClientStep
    \/ \E c \in Client : Finish(c)
    \/ ProcDeliver
    \/ \E n \in Node : Interrupt(n)
    \/ Shutdown
    \/ Rest /\ UNCHANGED proc

(* As in EventualCluster; a request to a node that is down fails, and      *)
(* GracefulStop returns once nothing keeps it.  Signals may never come.    *)
ProcFairness ==
    /\ \A c \in Client : WF_procVars(Finish(c))
    /\ WF_procVars(ProcDeliver)
    /\ WF_procVars(Shutdown)

ProcSpec == ProcInit /\ [][ProcNext]_procVars /\ ProcFairness

----------------------------------------------------------------------------
(* All nodes that run hold the same version of k.                          *)
SurvivorsAgree(k) ==
    \A n, m \in Node : Up(n) /\ Up(m) => data[n][k] = data[m][k]

(* No client of a node that was stopped has written k.                     *)
WriterUp(k) == \A w \in writes : w.key = k => Up(Home[w.val.by])

(* Nodes stop and take their unsent requests along, yet a key with one     *)
(* writer, whose node runs on and which never puts the empty value, comes  *)
(* to be answered alike by all nodes that run on.                          *)
SurvivorsConverge ==
    <>[](\A k \in Key :
            SingleWriter(k) /\ WriterUp(k) /\ NoEmptyPut(k) => SurvivorsAgree(k))

(* GracefulStop returns: in eventual mode no handler waits for a peer.     *)
StopsInTime == \A n \in Node : proc[n] = "draining" ~> proc[n] = "exited"
============================================================================
