----------------------------- MODULE HLCClocks -----------------------------
(***************************************************************************)
(* The clocks of a cluster on their own: every node stamps values with     *)
(* Clock.Send and merges the stamps that reach it with Clock.Receive, in   *)
(* any order and any number of times.  The mutex of hlc.Clock makes each   *)
(* call one step.  A call that returns an error changes nothing, so it is  *)
(* the absence of a step.                                                  *)
(***************************************************************************)
EXTENDS HLC, Sequences

CONSTANT Node

VARIABLES
    clock,      \* [Node -> Timestamp], the fields l and c of hlc.Clock
    issued,     \* history: the timestamps each node's Send returned, in order
    heard,      \* history: the timestamps each node's Receive accepted
    readings    \* history: every wall reading any node has taken

vars == <<clock, issued, heard, readings>>

Init ==
    \E w \in [Node -> Wall] :
        /\ clock = [n \in Node |-> New(w[n])]
        /\ issued = [n \in Node |-> <<>>]
        /\ heard = [n \in Node |-> {}]
        /\ readings = {w[n] : n \in Node}

SendStep(n, now) ==
    /\ ~SendFails(clock[n], now)
    /\ clock' = [clock EXCEPT ![n] = Send(clock[n], now)]
    /\ issued' = [issued EXCEPT ![n] = Append(@, Send(clock[n], now))]
    /\ readings' = readings \cup {now}
    /\ UNCHANGED heard

(* The i-th stamp of node m reaches node n.                                *)
ReceiveStep(n, m, i, now) ==
    LET msg == issued[m][i]
    IN  /\ ~ReceiveFails(clock[n], msg, now)
        /\ clock' = [clock EXCEPT ![n] = Receive(clock[n], msg, now)]
        /\ heard' = [heard EXCEPT ![n] = @ \cup {msg}]
        /\ readings' = readings \cup {now}
        /\ UNCHANGED issued

Next ==
    \/ \E n \in Node, now \in Wall : SendStep(n, now)
    \/ \E n, m \in Node, now \in Wall :
          \E i \in 1 .. Len(issued[m]) : n # m /\ ReceiveStep(n, m, i, now)

Spec == Init /\ [][Next]_vars

----------------------------------------------------------------------------
(* Type correctness; in particular the logical counter of hlc.Clock never  *)
(* passes maxLogical, so the int32 never wraps.                            *)
TypeOK ==
    /\ clock \in [Node -> Timestamp]
    /\ issued \in [Node -> Seq(Timestamp)]
    /\ heard \in [Node -> SUBSET Timestamp]
    /\ readings \subseteq Wall

(* Successive results of Clock.Send on one node strictly increase,         *)
(* whatever Receive calls and backward wall readings come between them.    *)
SendMonotonic ==
    \A n \in Node : \A i, j \in 1 .. Len(issued[n]) :
        i < j => Before(issued[n][i], issued[n][j])

(* A clock is never behind a timestamp its own Send returned.              *)
IssuedBelowClock ==
    \A n \in Node : \A i \in 1 .. Len(issued[n]) :
        AfterOrEqual(clock[n], issued[n][i])

(* The wall part of every clock is a reading some node really took: the    *)
(* max64 of Send and Receive never invents a time.                         *)
WallIsAReading == \A n \in Node : clock[n].wall \in readings

(* The wall part of a clock dominates every message Receive has merged.    *)
HeardWallDominated ==
    \A n \in Node : \A msg \in heard[n] : clock[n].wall >= msg.wall

(* No call of Send or Receive moves a clock back.                          *)
ClockAdvances ==
    [][\A n \in Node : clock'[n] # clock[n] => After(clock'[n], clock[n])]_vars
============================================================================
