----------------------------- MODULE HLCLemmas -----------------------------
(***************************************************************************)
(* What the clock operators of HLC do, for every wall reading and every    *)
(* maxLogical: Compare is a total order, Send and Receive yield a          *)
(* timestamp and move the clock strictly forward.                          *)
(***************************************************************************)
EXTENDS HLC, TLAPS

(* hlc.Compare orders by wall time, then by logical counter.               *)
LEMMA CompareIsLexicographic ==
    ASSUME NEW a \in Timestamp, NEW b \in Timestamp
    PROVE  /\ After(a, b) <=> \/ a.wall > b.wall
                              \/ a.wall = b.wall /\ a.logical > b.logical
           /\ AfterOrEqual(a, b) <=> \/ a.wall > b.wall
                                     \/ a.wall = b.wall /\ a.logical >= b.logical
           /\ Before(a, b) <=> After(b, a)
           /\ Compare(a, b) <= 0 <=> AfterOrEqual(b, a)
BY LogicalAssumption DEF Compare, After, AfterOrEqual, Before, Timestamp

(* Timestamps are the pairs of their two fields.                           *)
LEMMA TimestampEquality ==
    ASSUME NEW a \in Timestamp, NEW b \in Timestamp,
           a.wall = b.wall, a.logical = b.logical
    PROVE  a = b
BY DEF Timestamp

(* hlc.Compare is reflexive, antisymmetric, transitive and total, and      *)
(* After is its strict part.                                               *)
LEMMA CompareIsTotalOrder ==
    ASSUME NEW a \in Timestamp, NEW b \in Timestamp, NEW c \in Timestamp
    PROVE  /\ AfterOrEqual(a, a)
           /\ AfterOrEqual(a, b) /\ AfterOrEqual(b, a) => a = b
           /\ AfterOrEqual(a, b) /\ AfterOrEqual(b, c) => AfterOrEqual(a, c)
           /\ AfterOrEqual(a, b) \/ AfterOrEqual(b, a)
           /\ After(a, b) <=> ~AfterOrEqual(b, a)
           /\ After(a, b) => a # b
           /\ After(a, b) /\ AfterOrEqual(b, c) => After(a, c)
           /\ AfterOrEqual(a, b) <=> After(a, b) \/ a = b
<1>1. AfterOrEqual(a, b) /\ AfterOrEqual(b, a) => a = b
  BY CompareIsLexicographic, TimestampEquality, LogicalAssumption DEF Timestamp
<1>2. /\ AfterOrEqual(a, a)
      /\ AfterOrEqual(a, b) /\ AfterOrEqual(b, c) => AfterOrEqual(a, c)
      /\ AfterOrEqual(a, b) \/ AfterOrEqual(b, a)
      /\ After(a, b) <=> ~AfterOrEqual(b, a)
      /\ After(a, b) => a # b
      /\ After(a, b) /\ AfterOrEqual(b, c) => After(a, c)
  BY CompareIsLexicographic, LogicalAssumption DEF Timestamp
<1> QED BY <1>1, <1>2

(* hlc.New yields a timestamp.                                             *)
LEMMA NewIsTimestamp ==
    ASSUME NEW now \in Wall
    PROVE  New(now) \in Timestamp
BY WallAssumption, LogicalAssumption DEF New, Timestamp

(* Clock.Send, when it reports no overflow, yields a timestamp strictly    *)
(* after the clock it found, whose wall part is the clock's or the reading.*)
LEMMA SendAdvances ==
    ASSUME NEW clk \in Timestamp, NEW now \in Wall, ~SendFails(clk, now)
    PROVE  /\ Send(clk, now) \in Timestamp
           /\ After(Send(clk, now), clk)
           /\ Send(clk, now).wall \in {clk.wall, now}
<1>1. Send(clk, now) \in Timestamp
  BY WallAssumption, LogicalAssumption DEF Send, SendFails, max64, Timestamp
<1>2. \/ Send(clk, now).wall > clk.wall
      \/ Send(clk, now).wall = clk.wall /\ Send(clk, now).logical > clk.logical
  BY WallAssumption, LogicalAssumption DEF Send, SendFails, max64, Timestamp
<1>3. After(Send(clk, now), clk)
  BY <1>1, <1>2, CompareIsLexicographic
<1> QED BY <1>1, <1>3 DEF Send

(* Clock.Receive, when it reports no error, yields a timestamp strictly    *)
(* after the clock it found; its wall part is the greatest of the three    *)
(* it merges.  Nothing is said of the message's logical counter: when its  *)
(* wall time equals the clock's, Receive ignores it.                       *)
LEMMA ReceiveAdvances ==
    ASSUME NEW clk \in Timestamp, NEW msg \in Timestamp, NEW now \in Wall,
           ~ReceiveFails(clk, msg, now)
    PROVE  /\ Receive(clk, msg, now) \in Timestamp
           /\ After(Receive(clk, msg, now), clk)
           /\ Receive(clk, msg, now).wall >= msg.wall
           /\ Receive(clk, msg, now).wall \in {clk.wall, msg.wall, now}
<1> DEFINE l == max64(max64(clk.wall, msg.wall), now)
<1>1. /\ l \in Nat /\ l >= clk.wall /\ l >= msg.wall
      /\ l \in {clk.wall, msg.wall, now}
  BY WallAssumption DEF max64, Timestamp
<1>2. CASE l = clk.wall
  <2>1. Receive(clk, msg, now) = [wall |-> l, logical |-> clk.logical + 1]
    BY <1>2 DEF Receive
  <2>2. clk.logical + 1 \in 0 .. MaxLogical
    BY <1>2, LogicalAssumption DEF ReceiveFails, Timestamp
  <2>3. Receive(clk, msg, now) \in Timestamp
    BY <1>1, <2>1, <2>2 DEF Timestamp
  <2> QED BY <1>1, <1>2, <2>1, <2>2, <2>3, CompareIsLexicographic, LogicalAssumption
          DEF Timestamp
<1>3. CASE l # clk.wall /\ l = msg.wall
  <2>1. Receive(clk, msg, now) = [wall |-> l, logical |-> msg.logical + 1]
    BY <1>3 DEF Receive
  <2>2. msg.logical + 1 \in 0 .. MaxLogical
    BY <1>3, LogicalAssumption DEF ReceiveFails, Timestamp
  <2>3. Receive(clk, msg, now) \in Timestamp
    BY <1>1, <2>1, <2>2 DEF Timestamp
  <2> QED BY <1>1, <1>3, <2>1, <2>3, CompareIsLexicographic DEF Timestamp
<1>4. CASE l # clk.wall /\ l # msg.wall
  <2>1. Receive(clk, msg, now) = [wall |-> l, logical |-> 0]
    BY <1>4 DEF Receive
  <2>2. Receive(clk, msg, now) \in Timestamp
    BY <1>1, <2>1, LogicalAssumption DEF Timestamp
  <2> QED BY <1>1, <1>4, <2>1, <2>2, CompareIsLexicographic DEF Timestamp
<1> QED BY <1>2, <1>3, <1>4
============================================================================
