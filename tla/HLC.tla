-------------------------------- MODULE HLC --------------------------------
(***************************************************************************)
(* The hybrid logical clock of internal/hlc/hlc.go as operators.  A clock  *)
(* and a timestamp are both a pair (wall, logical); the operators Send and *)
(* Receive give the clock after the call, which is also the timestamp the  *)
(* call returns.  Whether the call returns an error instead is a separate  *)
(* predicate, because on an error the code leaves the clock alone.         *)
(*                                                                         *)
(* The reading of time.Now().UnixNano() is the parameter `now'.  Readings  *)
(* on different nodes are unrelated and a node's readings may go back (an  *)
(* NTP step), so callers choose `now' freely from Wall.                    *)
(***************************************************************************)
EXTENDS Integers

CONSTANTS
    Wall,        \* readings of the wall clock, nanoseconds since the epoch
    MaxLogical   \* maxLogical, 2^31 - 1 in the code

ASSUME WallAssumption == Wall \subseteq Nat \ {0}
ASSUME LogicalAssumption == MaxLogical \in Nat

Timestamp == [wall : Nat, logical : 0 .. MaxLogical]

(* The zero value hlc.Timestamp{}: the version of a key nobody has.        *)
ZeroTS == [wall |-> 0, logical |-> 0]

Compare(a, b) ==
    CASE a.wall < b.wall -> -1
      [] a.wall > b.wall -> 1
      [] a.wall = b.wall /\ a.logical < b.logical -> -1
      [] a.wall = b.wall /\ a.logical > b.logical -> 1
      [] OTHER -> 0

Before(a, b) == Compare(a, b) < 0
After(a, b) == Compare(a, b) > 0
AfterOrEqual(a, b) == Compare(a, b) >= 0

max64(a, b) == IF b > a THEN b ELSE a

(* hlc.New: a fresh clock stands at the wall reading.                      *)
New(now) == [wall |-> now, logical |-> 0]

----------------------------------------------------------------------------
(* Plausible mistakes, used to show that the properties notice them.       *)

SendForgetsLogical(clk, now) ==
    [wall |-> max64(clk.wall, now), logical |-> 0]

SendTrustsWall(clk, now) ==
    IF now = clk.wall
    THEN [wall |-> now, logical |-> clk.logical + 1]
    ELSE [wall |-> now, logical |-> 0]

ReceiveIgnoresMessage(clk, msg, now) ==
    IF max64(clk.wall, now) = clk.wall
    THEN [wall |-> clk.wall, logical |-> clk.logical + 1]
    ELSE [wall |-> now, logical |-> 0]

SendFailsOffByOne(clk, now) ==
    max64(clk.wall, now) = clk.wall /\ clk.logical > MaxLogical

ReceiveRoundsUp(clk, msg, now) ==
    [wall |-> max64(max64(clk.wall, msg.wall), now) + 1, logical |-> 0]

----------------------------------------------------------------------------
(* Clock.Send: advance past the local clock and the wall reading.          *)
Send(clk, now) ==
    IF max64(clk.wall, now) = clk.wall
    THEN [wall |-> clk.wall, logical |-> clk.logical + 1]
    ELSE [wall |-> now, logical |-> 0]

SendFails(clk, now) ==
    max64(clk.wall, now) = clk.wall /\ clk.logical >= MaxLogical

(* Clock.Receive: the switch tries the local clock first, so a message     *)
(* with the local wall time never contributes its logical counter.         *)
Receive(clk, msg, now) ==
    LET lPrime == max64(max64(clk.wall, msg.wall), now)
    IN  CASE lPrime = clk.wall ->
               [wall |-> lPrime, logical |-> clk.logical + 1]
          [] lPrime # clk.wall /\ lPrime = msg.wall ->
               [wall |-> lPrime, logical |-> msg.logical + 1]
          [] OTHER -> [wall |-> lPrime, logical |-> 0]

ReceiveFails(clk, msg, now) ==
    LET lPrime == max64(max64(clk.wall, msg.wall), now)
    IN  \/ msg.logical < 0
        \/ lPrime = clk.wall /\ clk.logical >= MaxLogical
        \/ lPrime # clk.wall /\ lPrime = msg.wall /\ msg.logical >= MaxLogical
============================================================================
