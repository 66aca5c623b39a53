-------------------------- MODULE HLCClocksProofs --------------------------
(***************************************************************************)
(* The properties of HLCClocks for any set of nodes, any wall readings and *)
(* any maxLogical.  SendMonotonic is not inductive: a Send must know that  *)
(* the clock is not behind anything it has issued (IssuedBelowClock).      *)
(* WallIsAReading needs the same of the stamps that travel, which is the   *)
(* conjunct IssuedWallIsAReading.                                          *)
(***************************************************************************)
EXTENDS HLCClocks, HLCLemmas, SequenceTheorems

(* The wall part of every issued stamp is a reading.                       *)
IssuedWallIsAReading ==
    \A n \in Node : \A i \in 1 .. Len(issued[n]) : issued[n][i].wall \in readings

(* The inductive invariant.                                                *)
Inv ==
    /\ TypeOK
    /\ IssuedBelowClock
    /\ SendMonotonic
    /\ WallIsAReading
    /\ IssuedWallIsAReading
    /\ HeardWallDominated

(* What Append does to the entries of a sequence.                          *)
LEMMA AppendEntries ==
    ASSUME NEW S, NEW s \in Seq(S), NEW e \in S
    PROVE  /\ Append(s, e) \in Seq(S)
           /\ Len(Append(s, e)) = Len(s) + 1
           /\ Len(s) \in Nat
           /\ \A i \in 1 .. Len(s) : Append(s, e)[i] = s[i] /\ s[i] \in S
           /\ Append(s, e)[Len(s) + 1] = e
OBVIOUS

(* The initial states satisfy the invariant.                               *)
LEMMA InitInv == Init => Inv
<1> SUFFICES ASSUME Init PROVE Inv
  OBVIOUS
<1>1. PICK w \in [Node -> Wall] :
        /\ clock = [n \in Node |-> New(w[n])]
        /\ issued = [n \in Node |-> <<>>]
        /\ heard = [n \in Node |-> {}]
        /\ readings = {w[n] : n \in Node}
  BY DEF Init
<1>2. TypeOK
  <2>1. clock \in [Node -> Timestamp]
    BY <1>1, NewIsTimestamp
  <2>2. <<>> \in Seq(Timestamp)
    OBVIOUS
  <2> QED BY <1>1, <2>1, <2>2 DEF TypeOK
<1>3. WallIsAReading
  BY <1>1 DEF WallIsAReading, New
<1>4. \A n \in Node : 1 .. Len(issued[n]) = {} /\ heard[n] = {}
  BY <1>1
<1> QED BY <1>2, <1>3, <1>4 DEF Inv, IssuedBelowClock, SendMonotonic,
             IssuedWallIsAReading, HeardWallDominated

(* Clock.Send keeps the invariant: the new stamp is the new clock, which   *)
(* is strictly after the old one and so after everything issued before.    *)
LEMMA SendInv ==
    ASSUME Inv, NEW n \in Node, NEW now \in Wall, SendStep(n, now)
    PROVE  Inv'
<1> DEFINE ts == Send(clock[n], now)
<1> USE DEF Inv
<1>0. clock[n] \in Timestamp /\ issued[n] \in Seq(Timestamp)
  BY DEF TypeOK
<1>1. ts \in Timestamp /\ After(ts, clock[n]) /\ ts.wall \in {clock[n].wall, now}
  BY <1>0, SendAdvances DEF SendStep
<1>2. /\ clock' = [clock EXCEPT ![n] = ts]
      /\ issued' = [issued EXCEPT ![n] = Append(issued[n], ts)]
      /\ heard' = heard
      /\ readings' = readings \cup {now}
  BY DEF SendStep
<1> HIDE DEF ts
<1>3. /\ issued'[n] = Append(issued[n], ts)
      /\ clock'[n] = ts
      /\ \A o \in Node \ {n} : issued'[o] = issued[o] /\ clock'[o] = clock[o]
  BY <1>2 DEF TypeOK
<1>4. /\ issued'[n] \in Seq(Timestamp)
      /\ Len(issued'[n]) = Len(issued[n]) + 1
      /\ Len(issued[n]) \in Nat
      /\ \A i \in 1 .. Len(issued[n]) :
            issued'[n][i] = issued[n][i] /\ issued[n][i] \in Timestamp
      /\ issued'[n][Len(issued[n]) + 1] = ts
  BY <1>0, <1>1, <1>3, AppendEntries
<1>5. TypeOK'
  BY <1>1, <1>2, <1>4 DEF TypeOK
<1>6. \A i \in 1 .. Len(issued[n]) : After(ts, issued[n][i])
  BY <1>0, <1>1, <1>4, CompareIsTotalOrder DEF IssuedBelowClock
<1>7. IssuedBelowClock'
  <2> SUFFICES ASSUME NEW o \in Node, NEW i \in 1 .. Len(issued'[o])
               PROVE  AfterOrEqual(clock'[o], issued'[o][i])
    BY DEF IssuedBelowClock
  <2>1. CASE o # n
    BY <2>1, <1>3 DEF IssuedBelowClock
  <2>2. CASE o = n /\ i = Len(issued[n]) + 1
    BY <2>2, <1>1, <1>3, <1>4, CompareIsTotalOrder
  <2>3. CASE o = n /\ i \in 1 .. Len(issued[n])
    BY <2>3, <1>1, <1>3, <1>4, <1>6, CompareIsTotalOrder
  <2> QED BY <2>1, <2>2, <2>3, <1>4
<1>8. SendMonotonic'
  <2> SUFFICES ASSUME NEW o \in Node, NEW i \in 1 .. Len(issued'[o]),
                      NEW j \in 1 .. Len(issued'[o]), i < j
               PROVE  Before(issued'[o][i], issued'[o][j])
    BY DEF SendMonotonic
  <2>1. CASE o # n
    BY <2>1, <1>3 DEF SendMonotonic
  <2>2. CASE o = n /\ j \in 1 .. Len(issued[n])
    BY <2>2, <1>4 DEF SendMonotonic
  <2>3. CASE o = n /\ j = Len(issued[n]) + 1
    <3>1. i \in 1 .. Len(issued[n])
      BY <2>3, <1>4
    <3> QED BY <3>1, <2>3, <1>1, <1>4, <1>6, CompareIsLexicographic
  <2> QED BY <2>1, <2>2, <2>3, <1>4
<1>9. WallIsAReading'
  BY <1>1, <1>2, <1>3 DEF WallIsAReading
<1>10. IssuedWallIsAReading'
  <2> SUFFICES ASSUME NEW o \in Node, NEW i \in 1 .. Len(issued'[o])
               PROVE  issued'[o][i].wall \in readings'
    BY DEF IssuedWallIsAReading
  <2>1. CASE o # n
    BY <2>1, <1>2, <1>3 DEF IssuedWallIsAReading
  <2>2. CASE o = n /\ i = Len(issued[n]) + 1
    BY <2>2, <1>1, <1>2, <1>4 DEF WallIsAReading
  <2>3. CASE o = n /\ i \in 1 .. Len(issued[n])
    BY <2>3, <1>2, <1>4 DEF IssuedWallIsAReading
  <2> QED BY <2>1, <2>2, <2>3, <1>4
<1>11. HeardWallDominated'
  <2>1. ts.wall >= clock[n].wall
    BY <1>0, <1>1, CompareIsLexicographic DEF Timestamp
  <2> SUFFICES ASSUME NEW o \in Node, NEW msg \in heard[o]
               PROVE  clock'[o].wall >= msg.wall
    BY <1>2 DEF HeardWallDominated
  <2>2. clock[o].wall >= msg.wall
    BY DEF HeardWallDominated
  <2>3. clock[o] \in Timestamp /\ msg \in Timestamp
    BY DEF TypeOK
  <2> QED BY <1>1, <1>3, <2>1, <2>2, <2>3 DEF Timestamp
<1> QED BY <1>5, <1>7, <1>8, <1>9, <1>10, <1>11

(* Clock.Receive keeps the invariant: it only moves a clock forward.       *)
LEMMA ReceiveInv ==
    ASSUME Inv, NEW n \in Node, NEW m \in Node, NEW now \in Wall,
           NEW i \in 1 .. Len(issued[m]), ReceiveStep(n, m, i, now)
    PROVE  Inv'
<1> DEFINE msg == issued[m][i]
           new == Receive(clock[n], msg, now)
<1> USE DEF Inv
<1>0. clock[n] \in Timestamp /\ msg \in Timestamp
  BY DEF TypeOK
<1>1. /\ new \in Timestamp
      /\ After(new, clock[n])
      /\ new.wall >= msg.wall
      /\ new.wall \in {clock[n].wall, msg.wall, now}
  BY <1>0, ReceiveAdvances DEF ReceiveStep
<1>2. /\ clock' = [clock EXCEPT ![n] = new]
      /\ heard' = [heard EXCEPT ![n] = heard[n] \cup {msg}]
      /\ readings' = readings \cup {now}
      /\ issued' = issued
  BY DEF ReceiveStep
<1>3. msg.wall \in readings
  BY DEF IssuedWallIsAReading
<1> HIDE DEF msg, new
<1>4. clock'[n] = new /\ \A o \in Node \ {n} : clock'[o] = clock[o]
  BY <1>2 DEF TypeOK
<1>5. TypeOK'
  BY <1>0, <1>1, <1>2 DEF TypeOK
<1>6. IssuedBelowClock'
  <2> SUFFICES ASSUME NEW o \in Node, NEW j \in 1 .. Len(issued[o])
               PROVE  AfterOrEqual(clock'[o], issued[o][j])
    BY <1>2 DEF IssuedBelowClock
  <2>1. AfterOrEqual(clock[o], issued[o][j])
    BY DEF IssuedBelowClock
  <2>2. clock[o] \in Timestamp /\ issued[o][j] \in Timestamp
    BY DEF TypeOK
  <2> QED BY <1>1, <1>4, <2>1, <2>2, CompareIsTotalOrder
<1>7. SendMonotonic'
  BY <1>2 DEF SendMonotonic
<1>8. WallIsAReading'
  BY <1>1, <1>2, <1>3, <1>4 DEF WallIsAReading
<1>9. IssuedWallIsAReading'
  BY <1>2 DEF IssuedWallIsAReading
<1>10. HeardWallDominated'
  <2>1. new.wall >= clock[n].wall
    BY <1>0, <1>1, CompareIsLexicographic DEF Timestamp
  <2> SUFFICES ASSUME NEW o \in Node, NEW h \in heard'[o]
               PROVE  clock'[o].wall >= h.wall
    BY DEF HeardWallDominated
  <2>2. CASE h \in heard[o]
    <3>1. clock[o].wall >= h.wall /\ clock[o] \in Timestamp /\ h \in Timestamp
      BY <2>2 DEF HeardWallDominated, TypeOK
    <3> QED BY <1>1, <1>4, <2>1, <3>1 DEF Timestamp
  <2>3. CASE o = n /\ h = msg
    BY <2>3, <1>1, <1>4
  <2> QED BY <2>2, <2>3, <1>2 DEF TypeOK
<1> QED BY <1>5, <1>6, <1>7, <1>8, <1>9, <1>10

(* Every step keeps the invariant.                                         *)
LEMMA NextInv == Inv /\ [Next]_vars => Inv'
<1> SUFFICES ASSUME Inv, [Next]_vars PROVE Inv'
  OBVIOUS
<1>1. ASSUME NEW n \in Node, NEW now \in Wall, SendStep(n, now) PROVE Inv'
  BY <1>1, SendInv
<1>2. ASSUME NEW n \in Node, NEW m \in Node, NEW now \in Wall,
             NEW i \in 1 .. Len(issued[m]), ReceiveStep(n, m, i, now)
      PROVE  Inv'
  BY <1>2, ReceiveInv
<1>3. CASE UNCHANGED vars
  BY <1>3 DEF vars, Inv, TypeOK, IssuedBelowClock, SendMonotonic, WallIsAReading,
              IssuedWallIsAReading, HeardWallDominated
<1> QED BY <1>1, <1>2, <1>3 DEF Next

(* The invariant holds in every behaviour.                                 *)
THEOREM ClocksInvariant == Spec => []Inv
BY InitInv, NextInv, PTL DEF Spec

(* The type invariant: the logical counter never passes maxLogical.        *)
THEOREM ClocksTypeCorrect == Spec => []TypeOK
<1>1. Inv => TypeOK
  BY DEF Inv
<1> QED BY <1>1, ClocksInvariant, PTL

(* Successive results of Clock.Send on a node strictly increase, whatever  *)
(* the node receives and however its wall clock jumps.                     *)
THEOREM SendIsMonotonic == Spec => []SendMonotonic
<1>1. Inv => SendMonotonic
  BY DEF Inv
<1> QED BY <1>1, ClocksInvariant, PTL

(* A clock is never behind a timestamp its node has given out.             *)
THEOREM IssuedStaysBelowClock == Spec => []IssuedBelowClock
<1>1. Inv => IssuedBelowClock
  BY DEF Inv
<1> QED BY <1>1, ClocksInvariant, PTL

(* The wall part of a clock is a reading some node really took: merging    *)
(* never invents a time, however far it travels.                           *)
THEOREM ClockWallIsAReading == Spec => []WallIsAReading
<1>1. Inv => WallIsAReading
  BY DEF Inv
<1> QED BY <1>1, ClocksInvariant, PTL

(* The wall part of a clock dominates that of every timestamp              *)
(* Clock.Receive merged.                                                   *)
THEOREM HeardWallsAreDominated == Spec => []HeardWallDominated
<1>1. Inv => HeardWallDominated
  BY DEF Inv
<1> QED BY <1>1, ClocksInvariant, PTL

(* No call of Clock.Send or Clock.Receive moves a clock back.              *)
THEOREM ClocksAdvance == Spec => ClockAdvances
<1> DEFINE A == \A n \in Node : clock'[n] # clock[n] => After(clock'[n], clock[n])
<1>1. Inv /\ [Next]_vars => [A]_vars
  <2> SUFFICES ASSUME Inv, Next PROVE A
    OBVIOUS
  <2>1. ASSUME NEW n \in Node, NEW now \in Wall, SendStep(n, now) PROVE A
    BY <2>1, SendAdvances DEF SendStep, Inv, TypeOK
  <2>2. ASSUME NEW n \in Node, NEW m \in Node, NEW now \in Wall,
               NEW i \in 1 .. Len(issued[m]), ReceiveStep(n, m, i, now)
        PROVE  A
    <3>1. clock[n] \in Timestamp /\ issued[m][i] \in Timestamp
      BY DEF Inv, TypeOK
    <3> QED BY <2>2, <3>1, ReceiveAdvances DEF ReceiveStep, Inv, TypeOK
  <2> QED BY <2>1, <2>2 DEF Next
<1> QED BY <1>1, ClocksInvariant, PTL DEF Spec, ClockAdvances
============================================================================
