-------------------------- MODULE ExperimentsProofs -------------------------
(***************************************************************************)
(* The outcome of the experiments in causal mode, for any number of        *)
(* trials, any cluster they run on, origin and replica being one node      *)
(* included, any readings of the clocks, and lost RPCs.                    *)
(*                                                                         *)
(* The experiment's calls are calls of causal mode, so the layers of       *)
(* CausalProofs hold beside it.  Script adds what the experiment knows of  *)
(* the cluster at each point: what it has written, that it has read A when *)
(* it puts B, and what its polling has seen.  Reported says what the file  *)
(* holds: lines that were due, in their order, and all of them if none was *)
(* lost.                                                                   *)
(***************************************************************************)
EXTENDS Experiments, CausalProofs, FiniteSetTheorems

(* The points of a chain trial after the Put of A.                         *)
InChain == {"getA", "putB", "poll1", "poll2", "judge"}

Shown == Data \cup {Empty, Missing}

ScriptTypes ==
    /\ pc \in {"putS", "pollS", "putA", "done", "error"} \cup InChain
    /\ resp \in [a : Shown, b : Shown]
    /\ visible \in Seq(BOOLEAN)
    /\ Len(visible) <= Len(Stale)
    /\ pc = "pollS" => Len(visible) < Len(Stale)
    /\ trialViolations \in Seq(BOOLEAN)
    /\ Len(trialViolations) <= Len(Chains)
    /\ pc \in InChain => Len(trialViolations) < Len(Chains)

(* The one value the experiment puts under k.                              *)
Planned(k) == IF \E i \in 1 .. Len(Chains) : Chains[i].b = k THEN ValB ELSE ValA

Fits(k, v) == ~v.deleted /\ v.data = Planned(k)

(* Only the writer writes, and what was planned.                           *)
WritesFit == \A w \in writes : w.op.val.by = Writer /\ Fits(w.op.key, w.op.val)

(* Every node shows what was planned, or nothing.                          *)
DataFit ==
    \A n \in Node, k \in Key : data[n][k] # Missing => Fits(k, data[n][k])

AtOrigin(k) == data[Home[Writer]][k] # Missing

AtReplica(k) == data[Home[Poller]][k] # Missing

(* B is written by a client that has read A, and where A is stored.        *)
BFollowsA ==
    \A w \in writes, i \in 1 .. Len(Chains) : w.op.key = Chains[i].b =>
        /\ \E dep \in w.need : dep.key = Chains[i].a
        /\ AtOrigin(Chains[i].a)

(* The writer's Get of k has returned, or will with the value it has.      *)
HasRead(k) ==
    \/ call[Writer] # Idle /\ call[Writer].stage = "read" /\ call[Writer].dep.key = k
    \/ \E dep \in seen[Writer] : dep.key = k

(* How far the writer is with A.                                           *)
ChainUnderWay ==
    /\ pc = "getA" =>
          AtOrigin(Chain.a) \/ (Writing(Writer) /\ call[Writer].op.key = Chain.a)
    /\ pc = "putB" => AtOrigin(Chain.a) /\ HasRead(Chain.a)

(* What a round of polling has seen.                                       *)
RoundSound ==
    /\ pc \in {"poll2", "judge"} /\ resp.b = ValB => AtReplica(Chain.b)
    /\ pc = "judge" /\ resp.b = ValB => resp.a = ValA

SamplesAtReplica == \A i \in 1 .. Len(visible) : visible[i] => AtReplica(Stale[i])

Script ==
    /\ ScriptTypes
    /\ WritesFit
    /\ DataFit
    /\ BFollowsA
    /\ ChainUnderWay
    /\ RoundSound
    /\ SamplesAtReplica
    /\ NoTrialViolated

----------------------------------------------------------------------------
(* The keys and values of the experiment.                                  *)

(* Origin and replica are nodes.                                           *)
LEMMA Ends ==
    /\ Writer \in Client /\ Poller \in Client
    /\ Home[Writer] \in Node /\ Home[Poller] \in Node
BY ClientAssumption, HomeAssumption

(* The entries of the lists of trials.                                     *)
LEMMA TrialLists ==
    /\ Len(Chains) \in Nat /\ \A i \in 1 .. Len(Chains) : Chains[i] \in [a : Key, b : Key]
    /\ Len(Stale) \in Nat /\ \A i \in 1 .. Len(Stale) : Stale[i] \in Key
<1> DEFINE Link == [a : Key, b : Key]
<1>1. Chains \in Seq(Link) /\ Stale \in Seq(Key)
  BY ChainsAssumption, StaleAssumption
<1> HIDE DEF Link
<1>2. Len(Chains) \in Nat /\ \A i \in 1 .. Len(Chains) : Chains[i] \in Link
  BY <1>1, ElementOfSeq, LenProperties
<1>3. Len(Stale) \in Nat /\ \A i \in 1 .. Len(Stale) : Stale[i] \in Key
  BY <1>1, ElementOfSeq, LenProperties
<1> QED BY <1>2, <1>3 DEF Link

(* A is not B, and neither is a key of the staleness trials.               *)
LEMMA KeysOfTrials ==
    /\ \A i \in 1 .. Len(Chains) :
          /\ Chains[i].a \in Key /\ Planned(Chains[i].a) = ValA
          /\ Chains[i].b \in Key /\ Planned(Chains[i].b) = ValB
    /\ \A i \in 1 .. Len(Stale) : Stale[i] \in Key /\ Planned(Stale[i]) = ValA
BY TrialLists, KeysAssumption DEF Planned

(* A planned value is found.                                               *)
LEMMA PlannedValue == \A k : Planned(k) \in Data /\ Planned(k) # Empty /\ Planned(k) # Missing
BY ValAssumption, MissingAssumption DEF Planned

(* The trial under way has a number.                                       *)
LEMMA TrialNumbers ==
    ASSUME ScriptTypes
    PROVE  /\ Len(visible) \in Nat /\ Len(Stale) \in Nat
           /\ Len(trialViolations) \in Nat /\ Len(Chains) \in Nat
           /\ Len(visible) < Len(Stale) => Len(visible) + 1 \in 1 .. Len(Stale)
           /\ Len(trialViolations) < Len(Chains) =>
                 Len(trialViolations) + 1 \in 1 .. Len(Chains)
<1>1. Len(visible) \in Nat /\ Len(trialViolations) \in Nat
  BY LenProperties DEF ScriptTypes
<1> QED BY <1>1, TrialLists

(* The indices of a list with one entry more that still fits.              *)
LEMMA OneMore ==
    ASSUME NEW l \in Nat, NEW m \in Nat, l < m
    PROVE  /\ l + 1 <= m
           /\ \A i \in 1 .. l + 1 : i \in 1 .. m
           /\ \A i \in 1 .. l + 1 : i # l + 1 => i \in 1 .. l
OBVIOUS

(* What Append does to a list of outcomes.                                 *)
LEMMA AppendOutcome ==
    ASSUME NEW s \in Seq(BOOLEAN), NEW x \in BOOLEAN
    PROVE  /\ Append(s, x) \in Seq(BOOLEAN)
           /\ Len(Append(s, x)) = Len(s) + 1
           /\ \A i \in 1 .. Len(s) + 1 :
                 Append(s, x)[i] = IF i = Len(s) + 1 THEN x ELSE s[i]
OBVIOUS

(* A Get of a key that a node has shows the planned value.                 *)
LEMMA PlannedIsVisible ==
    ASSUME DataFit, NEW n \in Node, NEW k \in Key, data[n][k] # Missing
    PROVE  Found(data[n], k) /\ Visible(data[n], k) = Planned(k)
BY DEF DataFit, Fits, Found, Visible

----------------------------------------------------------------------------
(* The replica never shows B without A.  B was written by a client that    *)
(* had read A; if that client has its node to itself, causal visibility    *)
(* brings A along, and otherwise origin and replica are the same node,     *)
(* which stored A before B was written.                                    *)
LEMMA ScriptChainVisible ==
    ASSUME Base, Causal, Script
    PROVE  ChainVisible
<1> USE DEF Script
<1> SUFFICES ASSUME NEW i \in 1 .. Len(Chains),
                    Visible(data[Home[Poller]], Chains[i].b) = ValB
             PROVE  Visible(data[Home[Poller]], Chains[i].a) = ValA
  BY DEF ChainVisible
<1> DEFINE n == Home[Poller]
           a == Chains[i].a
           b == Chains[i].b
<1>1. /\ n \in Node /\ a \in Key /\ b \in Key /\ Planned(a) = ValA
      /\ Writer \in Client
  BY Ends, KeysOfTrials
<1>2. data[n][b] # Missing
  BY ValAssumption, MissingAssumption DEF Visible, Found
<1>3. PICK w \in writes : w.op.key = b /\ Holds(n, w)
  BY <1>1, <1>2 DEF Causal, DataAreWrites
<1>4. PICK dep \in w.need : dep.key = a
  BY <1>3 DEF BFollowsA
<1>5. w.op.val.by = Writer
  BY DEF WritesFit
<1>6. data[n][a] # Missing
  <2>1. CASE Home[Writer] = n
    BY <1>3, <2>1 DEF BFollowsA, AtOrigin
  <2>2. CASE Home[Writer] # n
    <3>1. Alone(Writer)
      BY <2>2, ClientAssumption DEF Alone
    <3>2. Shows(n, dep) \/ WritesLocally(n, a)
      BY <1>1, <1>3, <1>4, <1>5, <3>1 DEF Causal, CausalVisibility, Includes
    <3>3. ~WritesLocally(n, a)
      BY <2>2 DEF WritesLocally, WritesFit
    <3> QED BY <1>4, <3>2, <3>3 DEF Shows
  <2> QED BY <2>1, <2>2
<1> QED BY <1>1, <1>6, PlannedIsVisible

----------------------------------------------------------------------------
(* The experiment's calls are calls of causal mode.                        *)
LEMMA TrialsStep ==
    ASSUME ScriptTypes, [TrialsNext]_allVars
    PROVE  [Next]_vars
<1>1. /\ Len(visible) < Len(Stale) => StaleKey \in Key
      /\ Len(trialViolations) < Len(Chains) => Chain.a \in Key /\ Chain.b \in Key
  BY TrialNumbers, KeysOfTrials DEF StaleKey, Chain
<1>2. ASSUME NEW now \in Wall, PutStale(now) \/ PutA(now) \/ PutB(now) PROVE Next
  <2>1. \E k \in Key, x \in Data : Stamp(Writer, k, x, now)
    BY <1>1, <1>2, ValAssumption DEF PutStale, PutA, PutB, ScriptTypes, InChain
  <2> QED BY <2>1, Ends DEF Next
<1>3. ASSUME NEW c \in Client, NEW k \in Key, GetBy(c, k) PROVE [Next]_vars
  BY <1>3 DEF GetBy, Next
<1>4. CASE PollStale \/ GetA
  BY <1>1, <1>3, <1>4, Ends DEF PollStale, GetA, ScriptTypes, InChain
<1>5. ASSUME NEW which \in {"a", "b"}, Poll(which) PROVE [Next]_vars
  <2>1. pc \in InChain
    BY <1>5 DEF Poll, PollTurn, InChain
  <2>2. Chain["a"] \in Key /\ Chain["b"] \in Key
    BY <1>1, <2>1 DEF ScriptTypes
  <2> QED BY <1>3, <1>5, <2>2, Ends DEF Poll
<1>6. ASSUME NEW now \in Wall, RequestFails(now) PROVE UNCHANGED vars
  BY <1>6 DEF RequestFails
<1>7. CASE StaleTimeout \/ ReportStale \/ Judge \/ PollAgain \/ StopPolling \/ ReportChains
  BY <1>7 DEF StaleTimeout, ReportStale, Judge, PollAgain, StopPolling, ReportChains, EndTrial
<1>8. CASE ClusterStep
  BY <1>8 DEF ClusterStep, Next
<1>9. CASE Finished \/ UNCHANGED allVars
  BY <1>9 DEF Finished, allVars
<1> QED BY <1>2, <1>4, <1>5, <1>6, <1>7, <1>8, <1>9 DEF TrialsNext
----------------------------------------------------------------------------
(* What the steps of the cluster do to the script's facts.                 *)

(* A key that a node has stays there: there is no way back to an absent    *)
(* entry.                                                                  *)
LEMMA NothingVanishes ==
    ASSUME Base, Buffered, [Next]_vars, NEW n \in Node, NEW k \in Key, data[n][k] # Missing
    PROVE  data'[n][k] # Missing
<1>1. data'[n][k] = data[n][k] \/ data'[n][k] \in Value
  BY StoreChanges DEF ByClient, ByBuffer
<1> QED BY <1>1, MissingAssumption

(* Both ways to store a value store a planned one: the writer's own, or    *)
(* that of a request, which is not taken for a deletion.                   *)
LEMMA NextDataFit ==
    ASSUME Base, Buffered, WritesFit, DataFit, [Next]_vars
    PROVE  DataFit'
<1> SUFFICES ASSUME NEW n \in Node, NEW k \in Key, data'[n][k] # Missing
             PROVE  Fits(k, data'[n][k])
  BY DEF DataFit
<1>1. CASE data'[n][k] = data[n][k]
  BY <1>1 DEF DataFit
<1>2. CASE ByClient(n, k)
  <2>1. PICK w \in writes : w.op.key = k /\ (~w.op.val.deleted => data'[n][k] = w.op.val)
    BY <1>2 DEF ByClient
  <2>2. Fits(k, w.op.val)
    BY <2>1 DEF WritesFit
  <2> QED BY <2>1, <2>2 DEF Fits
<1>3. CASE ByBuffer(n, k)
  <2>1. PICK m \in received[n] : m.key = k /\ data'[n][k] = Decode(m)
    BY <1>3 DEF ByBuffer
  <2>2. m \in Sent
    BY DEF Sent
  <2>3. PICK w \in writes : Carries(m, w.op)
    BY <2>2 DEF Base, RequestsAreWrites
  <2>4. m.data = Planned(k)
    BY <2>1, <2>3 DEF WritesFit, Fits, Carries
  <2>5. Decode(m).data = m.data /\ Decode(m).deleted = (m.data = Empty)
    BY DEF Decode
  <2>6. m.data # Empty
    BY <2>4, PlannedValue
  <2> QED BY <2>1, <2>4, <2>5, <2>6 DEF Fits
<1> QED BY <1>1, <1>2, <1>3, StoreChanges

(* A step that writes nothing keeps what is known of the writes.           *)
LEMMA WritesKept ==
    ASSUME Base, Buffered, Script, [Next]_vars, writes' = writes
    PROVE  WritesFit' /\ BFollowsA'
<1>1. WritesFit'
  BY DEF Script, WritesFit, Fits, Planned
<1>2. \A i \in 1 .. Len(Chains) : AtOrigin(Chains[i].a) => AtOrigin(Chains[i].a)'
  BY Ends, KeysOfTrials, NothingVanishes DEF AtOrigin
<1>3. BFollowsA'
  BY <1>2 DEF Script, BFollowsA
<1> QED BY <1>1, <1>3

(* A Put of the writer stamps its value.                                   *)
LEMMA WriterStamps ==
    ASSUME Base, NEW k \in Key, NEW x \in Data, NEW now \in Wall, Stamp(Writer, k, x, now)
    PROVE  \E w :
              /\ w.op.key = k /\ w.op.val.by = Writer
              /\ ~w.op.val.deleted /\ w.op.val.data = x
              /\ w.need = seen[Writer]
              /\ writes' = writes \cup {w}
              /\ Writing(Writer)' /\ call'[Writer].op = w.op
              /\ data' = data
<1> DEFINE ts == Send(clock[Home[Writer]], now)
           op == OpFor(k, x, ts, Writer)
<1>1. ts \in Timestamp
  BY Ends, StampIsLater DEF Stamp
<1>2. /\ call' = [call EXCEPT ![Writer] = [stage |-> "stamped", op |-> op]]
      /\ writes' = writes \cup {[op |-> op, need |-> seen[Writer]]}
      /\ data' = data
  BY DEF Stamp
<1>3. op.key = k /\ op.val = PutValue(x, ts, Writer)
  BY MissingAssumption DEF OpFor
<1>4. op.val.by = Writer /\ ~op.val.deleted /\ op.val.data = x
  BY <1>3 DEF PutValue
<1>5. op \in Op
  BY <1>1, Ends, OpForType
<1> HIDE DEF op, ts
<1>6. call'[Writer] = [stage |-> "stamped", op |-> op]
  BY <1>2, Ends DEF Base, TypeOK
<1>7. Writing(Writer)' /\ call'[Writer].op = op
  BY <1>5, <1>6, IdleAssumption, CallStages DEF Writing
<1> WITNESS [op |-> op, need |-> seen[Writer]]
<1> QED BY <1>2, <1>3, <1>4, <1>7

(* The writes of the experiment are planned ones, and B follows A.         *)
LEMMA WritesExtended ==
    ASSUME Base, Buffered, Script, NEW k \in Key, NEW x \in Data, NEW now \in Wall,
           Stamp(Writer, k, x, now), x = Planned(k),
           \A i \in 1 .. Len(Chains) : k = Chains[i].b =>
              AtOrigin(Chains[i].a) /\ \E dep \in seen[Writer] : dep.key = Chains[i].a
    PROVE  WritesFit' /\ BFollowsA'
<1>1. PICK w : /\ w.op.key = k /\ w.op.val.by = Writer
               /\ ~w.op.val.deleted /\ w.op.val.data = x
               /\ w.need = seen[Writer] /\ writes' = writes \cup {w} /\ data' = data
  BY WriterStamps
<1>2. WritesFit'
  BY <1>1 DEF Script, WritesFit, Fits, Planned
<1>3. BFollowsA'
  BY <1>1 DEF Script, BFollowsA, AtOrigin
<1> QED BY <1>2, <1>3
----------------------------------------------------------------------------
(* The steps of the script.                                                *)

(* What a step that writes nothing has to show.                            *)
LEMMA ScriptKept ==
    ASSUME Base, Buffered, Script, [Next]_vars, writes' = writes, ScriptTypes',
           ChainUnderWay', RoundSound', SamplesAtReplica', NoTrialViolated'
    PROVE  Script'
BY WritesKept, NextDataFit DEF Script

(* Samples stay good while nothing is added to them.                       *)
LEMMA SamplesKept ==
    ASSUME Base, Buffered, Script, [Next]_vars, visible' = visible
    PROVE  SamplesAtReplica'
<1>0. Len(visible) <= Len(Stale) /\ Len(visible) \in Nat /\ Len(Stale) \in Nat
  <2>1. Len(visible) <= Len(Stale)
    BY DEF Script, ScriptTypes
  <2> QED BY <2>1, TrialNumbers DEF Script
<1>1. \A i \in 1 .. Len(visible) : i \in 1 .. Len(Stale)
  BY <1>0
<1>2. \A i \in 1 .. Len(visible) : AtReplica(Stale[i]) => AtReplica(Stale[i])'
  BY <1>1, Ends, KeysOfTrials, NothingVanishes DEF AtReplica
<1> QED BY <1>2 DEF Script, SamplesAtReplica

(* What the trials know of A and B stays true while the cluster moves.     *)
LEMMA TrialKeysStay ==
    ASSUME Base, Buffered, Script, [Next]_vars, Len(trialViolations) < Len(Chains)
    PROVE  /\ Chain.a \in Key /\ Chain.b \in Key
           /\ Planned(Chain.a) = ValA /\ Planned(Chain.b) = ValB
           /\ AtOrigin(Chain.a) => data'[Home[Writer]][Chain.a] # Missing
           /\ AtReplica(Chain.b) => data'[Home[Poller]][Chain.b] # Missing
<1>1. /\ Chain.a \in Key /\ Chain.b \in Key
      /\ Planned(Chain.a) = ValA /\ Planned(Chain.b) = ValB
  BY TrialNumbers, KeysOfTrials DEF Script, Chain
<1> QED BY <1>1, Ends, NothingVanishes DEF AtOrigin, AtReplica

LEMMA PutStaleScript ==
    ASSUME Base, Buffered, Script, [Next]_vars, NEW now \in Wall, PutStale(now)
    PROVE  Script'
<1> USE DEF Script
<1>1. /\ pc = "putS" /\ pc' = "pollS" /\ Len(visible) < Len(Stale)
      /\ Stamp(Writer, StaleKey, ValA, now)
      /\ resp' = resp /\ visible' = visible /\ trialViolations' = trialViolations
  BY DEF PutStale, outcomes
<1>2. Len(visible) + 1 \in 1 .. Len(Stale)
  BY <1>1, TrialNumbers
<1>3. /\ StaleKey \in Key /\ Planned(StaleKey) = ValA
      /\ \A i \in 1 .. Len(Chains) : Chains[i].b # StaleKey
  BY <1>2, KeysOfTrials, KeysAssumption DEF StaleKey
<1>4. WritesFit' /\ BFollowsA'
  BY <1>1, <1>3, ValAssumption, WritesExtended
<1>5. ScriptTypes'
  BY <1>1 DEF ScriptTypes, InChain
<1>6. ChainUnderWay' /\ RoundSound' /\ NoTrialViolated'
  BY <1>1 DEF ChainUnderWay, RoundSound, NoTrialViolated
<1> QED BY <1>1, <1>4, <1>5, <1>6, SamplesKept, NextDataFit

LEMMA PutAScript ==
    ASSUME Base, Buffered, Script, [Next]_vars, NEW now \in Wall, PutA(now)
    PROVE  Script'
<1> USE DEF Script
<1>1. /\ pc = "putA" /\ pc' = "getA" /\ Len(trialViolations) < Len(Chains)
      /\ Stamp(Writer, Chain.a, ValA, now)
      /\ resp' = resp /\ visible' = visible /\ trialViolations' = trialViolations
  BY DEF PutA, outcomes
<1>2. Chain.a \in Key /\ Planned(Chain.a) = ValA /\ Chain' = Chain
  BY <1>1, TrialKeysStay DEF Chain
<1>3. \A i \in 1 .. Len(Chains) : Chains[i].b # Chain.a
  BY <1>1, TrialNumbers, KeysAssumption DEF Chain
<1>4. WritesFit' /\ BFollowsA'
  BY <1>1, <1>2, <1>3, ValAssumption, WritesExtended
<1>5. ScriptTypes'
  BY <1>1 DEF ScriptTypes, InChain
<1>6. Writing(Writer)' /\ call'[Writer].op.key = Chain.a
  BY <1>1, <1>2, ValAssumption, WriterStamps
<1>7. ChainUnderWay'
  BY <1>1, <1>2, <1>6 DEF ChainUnderWay
<1>8. RoundSound' /\ NoTrialViolated'
  BY <1>1 DEF RoundSound, NoTrialViolated
<1> QED BY <1>1, <1>4, <1>5, <1>7, <1>8, SamplesKept, NextDataFit

LEMMA PutBScript ==
    ASSUME Base, Buffered, Script, [Next]_vars, NEW now \in Wall, PutB(now)
    PROVE  Script'
<1> USE DEF Script
<1>1. /\ pc = "putB" /\ pc' = "poll1"
      /\ Stamp(Writer, Chain.b, ValB, now) /\ call[Writer] = Idle
      /\ resp' = resp /\ visible' = visible /\ trialViolations' = trialViolations
  BY DEF PutB, outcomes, Stamp
<1>2. Len(trialViolations) < Len(Chains)
  BY <1>1 DEF ScriptTypes, InChain
<1>3. Chain.b \in Key /\ Planned(Chain.b) = ValB
  BY <1>2, TrialKeysStay
<1>4. AtOrigin(Chain.a) /\ \E dep \in seen[Writer] : dep.key = Chain.a
  BY <1>1 DEF ChainUnderWay, HasRead
<1>5. \A i \in 1 .. Len(Chains) : Chain.b = Chains[i].b => Chains[i] = Chain
  BY <1>2, TrialNumbers, KeysAssumption DEF Chain
<1>6. WritesFit' /\ BFollowsA'
  BY <1>1, <1>3, <1>4, <1>5, ValAssumption, WritesExtended
<1>7. ScriptTypes'
  BY <1>1, <1>2 DEF ScriptTypes, InChain
<1>8. ChainUnderWay' /\ RoundSound' /\ NoTrialViolated'
  BY <1>1 DEF ChainUnderWay, RoundSound, NoTrialViolated
<1> QED BY <1>1, <1>6, <1>7, <1>8, SamplesKept, NextDataFit
(* Between two trials nothing is known of one.                             *)
LEMMA BetweenTrials ==
    ASSUME Base, Buffered, Script, [Next]_vars,
           UNCHANGED <<writes, resp, visible, trialViolations>>,
           pc' \in {"putS", "putA", "done", "error"}
    PROVE  Script'
<1>1. ScriptTypes'
  BY DEF Script, ScriptTypes, InChain
<1>2. ChainUnderWay' /\ RoundSound' /\ NoTrialViolated'
  BY DEF Script, ChainUnderWay, RoundSound, NoTrialViolated
<1> QED BY <1>1, <1>2, SamplesKept, ScriptKept

(* A staleness trial ends.                                                 *)
LEMMA SampleTaken ==
    ASSUME Base, Buffered, Script, [Next]_vars, pc = "pollS", pc' = "putS",
           UNCHANGED <<writes, resp, trialViolations>>,
           NEW found \in BOOLEAN, visible' = Append(visible, found),
           found => AtReplica(StaleKey)
    PROVE  Script'
<1> DEFINE len == Len(visible)
<1>1. visible \in Seq(BOOLEAN)
  BY DEF Script, ScriptTypes
<1>2. /\ len + 1 <= Len(Stale)
      /\ \A i \in 1 .. len + 1 : i \in 1 .. Len(Stale)
      /\ \A i \in 1 .. len + 1 : i # len + 1 => i \in 1 .. len
  <2>1. len < Len(Stale)
    BY DEF Script, ScriptTypes
  <2>2. len \in Nat /\ Len(Stale) \in Nat
    BY TrialNumbers DEF Script
  <2> HIDE DEF len
  <2> QED BY <2>1, <2>2, OneMore, Zenon
<1>3. /\ visible' \in Seq(BOOLEAN) /\ Len(visible') = len + 1
      /\ \A i \in 1 .. len + 1 : visible'[i] = IF i = len + 1 THEN found ELSE visible[i]
  BY <1>1, AppendOutcome
<1>4. ScriptTypes'
  <2>1. Len(visible') = len + 1
    BY <1>3
  <2>2. Len(visible') <= Len(Stale)
    BY <1>2, <2>1, Zenon
  <2> QED BY <1>3, <2>2 DEF Script, ScriptTypes, InChain
<1>5. SamplesAtReplica'
  <2> SUFFICES ASSUME NEW i \in 1 .. len + 1, visible'[i]
               PROVE  AtReplica(Stale[i])'
    BY <1>3, Zenon DEF SamplesAtReplica
  <2>1. AtReplica(Stale[i])
    <3>1. CASE i = len + 1
      BY <1>3, <3>1 DEF StaleKey
    <3>2. CASE i # len + 1
      <4>1. i \in 1 .. len /\ visible[i]
        BY <1>2, <1>3, <3>2, Zenon
      <4> QED BY <4>1 DEF Script, SamplesAtReplica
    <3> QED BY <3>1, <3>2
  <2> QED BY <1>2, <2>1, Ends, KeysOfTrials, NothingVanishes DEF AtReplica
<1>6. ChainUnderWay' /\ RoundSound' /\ NoTrialViolated'
  BY DEF Script, ChainUnderWay, RoundSound, NoTrialViolated
<1> QED BY <1>4, <1>5, <1>6, ScriptKept

(* A Get of the experiment starts, or finds nothing.                       *)
LEMMA GetWritesNothing ==
    ASSUME NEW c, NEW k, GetBy(c, k)
    PROVE  writes' = writes /\ data' = data
BY DEF GetBy, GetRead, vars

LEMMA PollStaleScript ==
    ASSUME Base, Buffered, Script, [Next]_vars, PollStale
    PROVE  Script'
<1>1. /\ pc = "pollS" /\ writes' = writes
      /\ UNCHANGED <<resp, trialViolations>>
  BY GetWritesNothing DEF PollStale
<1>2. CASE StaleFound
  <2>1. AtReplica(StaleKey)
    BY <1>2, ValAssumption, MissingAssumption DEF StaleFound, Visible, Found, AtReplica
  <2>2. visible' = Append(visible, TRUE) /\ pc' = "putS"
    BY <1>2 DEF PollStale
  <2> QED BY <1>1, <2>1, <2>2, SampleTaken
<1>3. CASE ~StaleFound
  <2>1. visible' = visible /\ pc' = "pollS"
    BY <1>3 DEF PollStale
  <2>2. ScriptTypes'
    BY <1>1, <2>1 DEF Script, ScriptTypes, InChain
  <2>3. ChainUnderWay' /\ RoundSound' /\ NoTrialViolated'
    BY <1>1, <2>1 DEF Script, ChainUnderWay, RoundSound, NoTrialViolated
  <2> QED BY <1>1, <2>1, <2>2, <2>3, SamplesKept, ScriptKept
<1> QED BY <1>2, <1>3

(* The Get of A finds A, since the Put of A has returned.                  *)
LEMMA GetAScript ==
    ASSUME Base, Buffered, Script, [Next]_vars, GetA
    PROVE  Script'
<1> DEFINE n == Home[Writer]
           dep == [key |-> Chain.a, minTS |-> data[n][Chain.a].ts]
<1>1. /\ pc = "getA" /\ pc' = "putB" /\ GetBy(Writer, Chain.a)
      /\ UNCHANGED <<resp, visible, trialViolations>>
  BY DEF GetA, outcomes
<1>2. writes' = writes /\ data' = data /\ Chain' = Chain
  BY <1>1, GetWritesNothing DEF Chain
<1>3. Len(trialViolations) < Len(Chains)
  BY <1>1 DEF Script, ScriptTypes, InChain
<1>4. call[Writer] = Idle
  BY <1>1 DEF GetBy, GetRead
<1>5. AtOrigin(Chain.a) /\ Found(data[n], Chain.a)
  BY <1>1, <1>3, <1>4, Ends, TrialKeysStay, PlannedIsVisible
     DEF Script, ChainUnderWay, Writing, AtOrigin
<1>6. call' = [call EXCEPT ![Writer] = [stage |-> "read", dep |-> dep]]
  BY <1>1, <1>5 DEF GetBy, GetRead
<1>7. call'[Writer] = [stage |-> "read", dep |-> dep]
  BY <1>6, Ends DEF Base, TypeOK
<1>8. dep \in Dependency /\ dep.key = Chain.a
  BY <1>3, <1>5, Ends, TrialKeysStay DEF Base, TypeOK, Value, Dependency, AtOrigin
<1> HIDE DEF dep
<1>9. call'[Writer] # Idle /\ call'[Writer].stage = "read" /\ call'[Writer].dep.key = Chain.a
  BY <1>7, <1>8, IdleAssumption, CallStages
<1>10. ChainUnderWay'
  BY <1>1, <1>2, <1>5, <1>9 DEF ChainUnderWay, HasRead, AtOrigin
<1>11. ScriptTypes'
  BY <1>1, <1>3 DEF Script, ScriptTypes, InChain
<1>12. RoundSound' /\ NoTrialViolated'
  BY <1>1 DEF Script, RoundSound, NoTrialViolated
<1> QED BY <1>1, <1>2, <1>10, <1>11, <1>12, SamplesKept, ScriptKept
(* The answers of a round are values the cluster may show.                 *)
LEMMA VisibleType ==
    ASSUME Base, NEW n \in Node, NEW k \in Key
    PROVE  Visible(data[n], k) \in Shown
BY DEF Base, TypeOK, Value, Visible, Found, Shown

(* The Get of B: if it shows the value, the replica has B.                 *)
LEMMA PollBScript ==
    ASSUME Base, Buffered, Script, [Next]_vars, Poll("b")
    PROVE  Script'
<1> DEFINE v == Visible(data[Home[Poller]], Chain.b)
<1>1. /\ pc = "poll1" /\ pc' = "poll2" /\ GetBy(Poller, Chain["b"])
      /\ resp' = [resp EXCEPT !["b"] = v]
      /\ UNCHANGED <<visible, trialViolations>>
  BY DEF Poll, PollTurn, outcomes
<1>2. writes' = writes /\ data' = data /\ Chain' = Chain
  BY <1>1, GetWritesNothing DEF Chain
<1>3. Len(trialViolations) < Len(Chains) /\ resp \in [a : Shown, b : Shown]
  BY <1>1 DEF Script, ScriptTypes, InChain
<1>4. v \in Shown
  BY <1>3, Ends, TrialKeysStay, VisibleType
<1>5. v = ValB => AtReplica(Chain.b)
  BY ValAssumption, MissingAssumption DEF Visible, Found, AtReplica
<1> HIDE DEF v
<1>6. resp' \in [a : Shown, b : Shown] /\ resp'.b = v
  BY <1>1, <1>3, <1>4
<1>7. ScriptTypes'
  BY <1>1, <1>3, <1>6 DEF Script, ScriptTypes, InChain
<1>8. RoundSound'
  BY <1>1, <1>2, <1>5, <1>6 DEF RoundSound, AtReplica
<1>9. ChainUnderWay' /\ NoTrialViolated'
  BY <1>1 DEF Script, ChainUnderWay, NoTrialViolated
<1> QED BY <1>1, <1>2, <1>7, <1>8, <1>9, SamplesKept, ScriptKept

(* The Get of A: if B was there, A is.                                     *)
LEMMA PollAScript ==
    ASSUME Base, Buffered, Causal, Script, [Next]_vars, Poll("a")
    PROVE  Script'
<1> DEFINE d == data[Home[Poller]]
           v == Visible(d, Chain.a)
<1>1. /\ pc = "poll2" /\ pc' = "judge" /\ GetBy(Poller, Chain["a"])
      /\ resp' = [resp EXCEPT !["a"] = v]
      /\ UNCHANGED <<visible, trialViolations>>
  BY DEF Poll, PollTurn, outcomes
<1>2. writes' = writes /\ data' = data /\ Chain' = Chain
  BY <1>1, GetWritesNothing DEF Chain
<1>3. Len(trialViolations) < Len(Chains) /\ resp \in [a : Shown, b : Shown]
  BY <1>1 DEF Script, ScriptTypes, InChain
<1>4. v \in Shown
  BY <1>3, Ends, TrialKeysStay, VisibleType
<1>5. resp.b = ValB => AtReplica(Chain.b)
  BY <1>1 DEF Script, RoundSound
<1>6. resp.b = ValB => v = ValA
  <2>1. AtReplica(Chain.b) => Visible(d, Chain.b) = ValB
    BY <1>3, Ends, TrialKeysStay, PlannedIsVisible DEF Script, AtReplica
  <2>2. Visible(d, Chain.b) = ValB => v = ValA
    BY <1>3, TrialNumbers, ScriptChainVisible DEF Script, ChainVisible, Chain
  <2> QED BY <1>5, <2>1, <2>2
<1> HIDE DEF v
<1>7. resp' \in [a : Shown, b : Shown] /\ resp'.a = v /\ resp'.b = resp.b
  BY <1>1, <1>3, <1>4
<1>8. ScriptTypes'
  BY <1>1, <1>3, <1>7 DEF Script, ScriptTypes, InChain
<1>9. RoundSound'
  BY <1>1, <1>2, <1>5, <1>6, <1>7 DEF RoundSound, AtReplica
<1>10. ChainUnderWay' /\ NoTrialViolated'
  BY <1>1 DEF Script, ChainUnderWay, NoTrialViolated
<1> QED BY <1>1, <1>2, <1>8, <1>9, <1>10, SamplesKept, ScriptKept

(* No answer is not an answer.                                             *)
LEMMA NoRespType == NoResp \in [a : Shown, b : Shown]
BY DEF NoResp, Shown

(* A chain trial ends without a violation.                                 *)
LEMMA TrialEnds ==
    ASSUME Base, Buffered, Script, [Next]_vars, pc \in InChain,
           NEW violated \in BOOLEAN, ~violated, EndTrial(violated)
    PROVE  Script'
<1> DEFINE len == Len(trialViolations)
<1>1. /\ trialViolations' = Append(trialViolations, violated)
      /\ pc' = "putA" /\ resp' = NoResp /\ visible' = visible /\ writes' = writes
  BY DEF EndTrial, vars
<1>2. /\ len + 1 <= Len(Chains)
      /\ \A i \in 1 .. len + 1 : i # len + 1 => i \in 1 .. len
  <2>1. len < Len(Chains)
    BY DEF Script, ScriptTypes
  <2>2. len \in Nat /\ Len(Chains) \in Nat
    BY TrialNumbers DEF Script
  <2> HIDE DEF len
  <2> QED BY <2>1, <2>2, OneMore, Zenon
<1>3. /\ trialViolations' \in Seq(BOOLEAN) /\ Len(trialViolations') = len + 1
      /\ \A i \in 1 .. len + 1 :
            trialViolations'[i] = IF i = len + 1 THEN violated ELSE trialViolations[i]
  BY <1>1, AppendOutcome DEF Script, ScriptTypes
<1>4. ScriptTypes'
  <2>1. Len(trialViolations') <= Len(Chains)
    BY <1>2, <1>3, Zenon
  <2> QED BY <1>1, <1>3, <2>1, NoRespType DEF Script, ScriptTypes, InChain
<1>5. NoTrialViolated'
  <2>1. \A i \in 1 .. len : ~trialViolations[i]
    BY DEF Script, NoTrialViolated
  <2> QED BY <1>2, <1>3, <2>1, Zenon DEF NoTrialViolated
<1>6. ChainUnderWay' /\ RoundSound'
  BY <1>1 DEF ChainUnderWay, RoundSound
<1> QED BY <1>1, <1>4, <1>5, <1>6, SamplesKept, ScriptKept

(* The verdict: a round that saw B also saw A.                             *)
LEMMA JudgeScript ==
    ASSUME Base, Buffered, Script, [Next]_vars, Judge \/ StopPolling
    PROVE  Script'
<1>1. CASE Judge
  <2>1. pc = "judge" /\ ~(resp.a # ValA) /\ EndTrial(resp.a # ValA)
    BY <1>1 DEF Judge, Script, RoundSound
  <2> QED BY <2>1, TrialEnds DEF InChain
<1>2. CASE StopPolling
  BY <1>2, TrialEnds DEF StopPolling, InChain
<1> QED BY <1>1, <1>2

LEMMA PollAgainScript ==
    ASSUME Base, Buffered, Script, [Next]_vars, PollAgain
    PROVE  Script'
<1>1. /\ pc = "judge" /\ pc' = "poll1" /\ resp' = NoResp /\ writes' = writes
      /\ UNCHANGED <<visible, trialViolations>>
  BY DEF PollAgain, vars, outcomes
<1>2. ScriptTypes'
  BY <1>1, NoRespType DEF Script, ScriptTypes, InChain
<1>3. ChainUnderWay' /\ RoundSound' /\ NoTrialViolated'
  BY <1>1 DEF Script, ChainUnderWay, RoundSound, NoTrialViolated
<1> QED BY <1>1, <1>2, <1>3, SamplesKept, ScriptKept
(* A step of the cluster is one of a call under way, or leaves the calls   *)
(* and what clients have read alone.                                       *)
LEMMA ClusterCalls ==
    ASSUME ClusterStep
    PROVE  /\ writes' = writes
           /\ \/ \E c \in Client : AttachDeps(c) \/ StoreThenReplicate(c) \/ GetRecord(c)
              \/ UNCHANGED <<call, seen>>
<1>1. CASE \E c \in Client : Continue(c)
  BY <1>1 DEF Continue, AttachDeps, StoreThenReplicate, GetRecord
<1>2. CASE Deliver \/ \E m \in wire : Lose(m)
  BY <1>2 DEF Deliver, BufferStep, Serve, ServeError, Lose, BufferReceive, DependencyMet,
              DependencyUnmet, BufferApply
<1> QED BY <1>1, <1>2 DEF ClusterStep

(* What the writer has read it goes on having read.                        *)
LEMMA HasReadStays ==
    ASSUME Base, ClusterStep, NEW k, HasRead(k)
    PROVE  HasRead(k)'
<1>1. ASSUME NEW c \in Client, AttachDeps(c) PROVE HasRead(k)'
  <2>1. /\ call[c] # Idle /\ call[c].stage = "stamped" /\ seen' = seen
        /\ \A e \in Client : e # c => call'[e] = call[e]
    BY <1>1 DEF AttachDeps, Base, TypeOK
  <2> QED BY <2>1, Ends DEF HasRead
<1>2. ASSUME NEW c \in Client, StoreThenReplicate(c) PROVE HasRead(k)'
  <2>1. /\ call[c] # Idle /\ call[c].stage = "attached" /\ seen' = seen
        /\ \A e \in Client : e # c => call'[e] = call[e]
    BY <1>2 DEF StoreThenReplicate, Base, TypeOK
  <2> QED BY <2>1, Ends DEF HasRead
<1>3. ASSUME NEW c \in Client, GetRecord(c) PROVE HasRead(k)'
  <2>1. /\ seen'[c] = seen[c] \cup {call[c].dep}
        /\ \A e \in Client : e # c => call'[e] = call[e] /\ seen'[e] = seen[e]
    BY <1>3 DEF GetRecord, Base, TypeOK
  <2> QED BY <2>1, Ends DEF HasRead
<1>4. CASE UNCHANGED <<call, seen>>
  BY <1>4 DEF HasRead
<1> QED BY <1>1, <1>2, <1>3, <1>4, ClusterCalls

(* The writer's Put goes on until the origin has its key.                  *)
LEMMA PutProceeds ==
    ASSUME Base, ClusterStep, NEW k \in Key, Writing(Writer), call[Writer].op.key = k
    PROVE  AtOrigin(k)' \/ (Writing(Writer)' /\ call'[Writer].op.key = k)
<1> DEFINE n == Home[Writer]
           op == call[Writer].op
<1>1. n \in Node /\ data[n] \in Map /\ call[Writer] \in Call /\ op \in Op
  BY Ends, CallStages DEF Base, TypeOK, Map, Writing
<1>2. CASE call'[Writer] = call[Writer]
  BY <1>2 DEF Writing
<1>3. CASE AttachDeps(Writer)
  <2>1. /\ call'[Writer] = [stage |-> "attached", op |-> op, deps |-> reads[n]]
        /\ reads[n] \in SUBSET Dependency
    BY <1>1, <1>3, Ends DEF AttachDeps, Base, TypeOK
  <2> HIDE DEF op
  <2>2. call'[Writer].stage = "attached" /\ call'[Writer].op = op /\ call'[Writer] # Idle
    BY <1>1, <2>1, CallStages, IdleAssumption
  <2> QED BY <2>2 DEF Writing, op
<1>4. CASE StoreThenReplicate(Writer)
  <2>1. data' = [data EXCEPT ![n] = StoreLocally(data[n], op)]
    BY <1>4 DEF StoreThenReplicate
  <2> HIDE DEF op
  <2>2. StoreLocally(data[n], op)[op.key] \in Value
    BY <1>1, StoreLocallyResult
  <2>3. data'[n] = StoreLocally(data[n], op)
    BY <1>1, <2>1 DEF Base, TypeOK
  <2> QED BY <2>2, <2>3, MissingAssumption DEF AtOrigin, op
<1>5. ~GetRecord(Writer)
  BY DEF GetRecord, Writing
<1>6. ASSUME NEW c \in Client, c # Writer, AttachDeps(c) \/ StoreThenReplicate(c) \/ GetRecord(c)
      PROVE  call'[Writer] = call[Writer]
  BY <1>6, Ends DEF AttachDeps, StoreThenReplicate, GetRecord, Base, TypeOK
<1> QED BY <1>2, <1>3, <1>4, <1>5, <1>6, ClusterCalls

LEMMA ClusterScript ==
    ASSUME Base, Buffered, Script, [Next]_vars, ClusterStep
    PROVE  Script'
<1>1. writes' = writes /\ UNCHANGED <<pc, resp, visible, trialViolations>> /\ Chain' = Chain
  BY ClusterCalls DEF ClusterStep, scriptVars, outcomes, Chain
<1>2. ScriptTypes'
  BY <1>1 DEF Script, ScriptTypes
<1>3. NoTrialViolated'
  BY <1>1 DEF Script, NoTrialViolated
<1>4. pc \in InChain => Len(trialViolations) < Len(Chains)
  BY DEF Script, ScriptTypes
<1>5. ChainUnderWay'
  <2>1. CASE pc = "getA"
    <3>1. Chain.a \in Key /\ (AtOrigin(Chain.a) => data'[Home[Writer]][Chain.a] # Missing)
      BY <1>4, <2>1, TrialKeysStay DEF InChain
    <3>2. \/ data'[Home[Writer]][Chain.a] # Missing
          \/ Writing(Writer)' /\ call'[Writer].op.key = Chain.a
      BY <2>1, <3>1, PutProceeds DEF Script, ChainUnderWay, AtOrigin
    <3> QED BY <1>1, <2>1, <3>2 DEF ChainUnderWay, AtOrigin
  <2>2. CASE pc = "putB"
    <3>1. AtOrigin(Chain.a) /\ HasRead(Chain.a)
      BY <2>2 DEF Script, ChainUnderWay
    <3>2. data'[Home[Writer]][Chain.a] # Missing
      BY <1>4, <2>2, <3>1, TrialKeysStay DEF InChain
    <3>3. \/ call'[Writer] # Idle /\ call'[Writer].stage = "read" /\ call'[Writer].dep.key = Chain.a
          \/ \E dep \in seen'[Writer] : dep.key = Chain.a
      BY <3>1, HasReadStays DEF HasRead
    <3> QED BY <1>1, <2>2, <3>2, <3>3 DEF ChainUnderWay, AtOrigin, HasRead
  <2>3. CASE pc \notin {"getA", "putB"}
    BY <1>1, <2>3 DEF ChainUnderWay
  <2> QED BY <2>1, <2>2, <2>3
<1>6. RoundSound'
  <2>1. pc \in InChain => (AtReplica(Chain.b) => data'[Home[Poller]][Chain.b] # Missing)
    BY <1>4, TrialKeysStay
  <2> QED BY <1>1, <2>1 DEF Script, RoundSound, AtReplica, InChain
<1> QED BY <1>1, <1>2, <1>3, <1>5, <1>6, SamplesKept, ScriptKept

----------------------------------------------------------------------------
(* At first nothing is written, read or polled.                            *)
LEMMA InitScript == TrialsInit => Script
<1> SUFFICES ASSUME TrialsInit PROVE Script
  OBVIOUS
<1>1. /\ pc = "putS" /\ resp = NoResp /\ visible = <<>> /\ trialViolations = <<>>
      /\ writes = {} /\ \A n \in Node, k \in Key : data[n][k] = Missing
  BY DEF TrialsInit, Init, NewStore
<1>2. /\ visible \in Seq(BOOLEAN) /\ Len(visible) = 0
      /\ trialViolations \in Seq(BOOLEAN) /\ Len(trialViolations) = 0
  BY <1>1, EmptySeq
<1>3. 0 <= Len(Stale) /\ 0 <= Len(Chains)
  BY TrialLists
<1>4. ScriptTypes
  BY <1>1, <1>2, <1>3, NoRespType DEF ScriptTypes, InChain
<1>5. WritesFit /\ DataFit /\ BFollowsA
  BY <1>1 DEF WritesFit, DataFit, BFollowsA
<1>6. ChainUnderWay /\ RoundSound
  BY <1>1 DEF ChainUnderWay, RoundSound
<1>7. SamplesAtReplica /\ NoTrialViolated
  BY <1>2 DEF SamplesAtReplica, NoTrialViolated
<1> QED BY <1>4, <1>5, <1>6, <1>7 DEF Script

(* Every step of the experiment and of the cluster keeps Script.           *)
LEMMA NextScript ==
    ASSUME Base, Buffered, Causal, Script, [TrialsNext]_allVars
    PROVE  Script'
<1>1. [Next]_vars
  BY TrialsStep DEF Script
<1>2. ASSUME NEW now \in Wall, PutStale(now) \/ PutA(now) \/ PutB(now) PROVE Script'
  BY <1>1, <1>2, PutStaleScript, PutAScript, PutBScript
<1>3. CASE \E now \in Wall : RequestFails(now)
  <2>1. pc' = "error" /\ UNCHANGED <<writes, resp, visible, trialViolations>>
    BY <1>3 DEF RequestFails, vars, outcomes
  <2> QED BY <1>1, <2>1, BetweenTrials
<1>4. CASE StaleTimeout
  <2>1. /\ pc = "pollS" /\ pc' = "putS" /\ UNCHANGED <<writes, resp, trialViolations>>
        /\ visible' = Append(visible, FALSE)
    BY <1>4 DEF StaleTimeout, vars
  <2> QED BY <1>1, <2>1, SampleTaken
<1>5. CASE ReportStale \/ ReportChains
  <2>1. UNCHANGED <<writes, resp, visible, trialViolations>>
    BY <1>5 DEF ReportStale, ReportChains, vars, outcomes
  <2>2. ASSUME NEW row, AppendTrialRow(row) PROVE pc' \in {pc, "error"}
    BY <2>2 DEF AppendTrialRow
  <2>3. pc' \in {"putS", "putA", "done", "error"}
    BY <1>5, <2>2, Zenon DEF ReportStale, ReportChains
  <2> QED BY <1>1, <2>1, <2>3, BetweenTrials
<1>6. CASE \E which \in {"a", "b"} : Poll(which)
  BY <1>1, <1>6, PollAScript, PollBScript
<1>7. CASE PollStale \/ GetA \/ Judge \/ PollAgain \/ StopPolling \/ ClusterStep
  BY <1>1, <1>7, PollStaleScript, GetAScript, JudgeScript, PollAgainScript, ClusterScript
<1>8. CASE Finished \/ UNCHANGED allVars
  <2>1. UNCHANGED <<data, call, seen, writes, pc, resp, visible, trialViolations>>
    BY <1>8 DEF Finished, allVars, vars, scriptVars, outcomes
  <2> QED BY <2>1
       DEF Script, ScriptTypes, WritesFit, DataFit, BFollowsA, AtOrigin, AtReplica, ChainUnderWay,
           HasRead, Writing, Chain, RoundSound, SamplesAtReplica, NoTrialViolated
<1> QED BY <1>2, <1>3, <1>4, <1>5, <1>6, <1>7, <1>8 DEF TrialsNext

(* The layers of causal mode hold beside the experiment, and Script.       *)
THEOREM TrialsInvariant == TrialsSpec => [](Base /\ Buffered /\ Causal /\ Script)
<1>1. TrialsInit => Base /\ Buffered /\ Causal /\ Script
  BY InitBase, InitBuffered, InitCausal, InitScript DEF TrialsInit
<1>2. ASSUME Base, Buffered, Causal, Script, [TrialsNext]_allVars
      PROVE  Base' /\ Buffered' /\ Causal' /\ Script'
  <2>1. [Next]_vars
    BY <1>2, TrialsStep DEF Script
  <2> QED BY <1>2, <2>1, NextBase, NextBuffered, NextCausal, NextScript
<1> QED BY <1>1, <1>2, PTL DEF TrialsSpec

(* The experiment in causal mode never reports a violation, for any number *)
(* of trials, any cluster and any losses and delays of its RPCs.           *)
THEOREM NoTrialIsViolated == TrialsSpec => []NoTrialViolated
<1>1. Script => NoTrialViolated
  BY DEF Script
<1> QED BY <1>1, TrialsInvariant, PTL

(* The replica never shows B of a trial without A, at any instant, be it   *)
(* the origin's own node or another.                                       *)
THEOREM ChainsAreVisible == TrialsSpec => []ChainVisible
<1>1. Base /\ Causal /\ Script => ChainVisible
  BY ScriptChainVisible
<1> QED BY <1>1, TrialsInvariant, PTL

(* A staleness sample is of a value the replica shows from then on.        *)
THEOREM SamplesRemainVisible == TrialsSpec => []SamplesStayVisible
<1>1. ASSUME Script PROVE SamplesStayVisible
  <2>1. ASSUME NEW i \in 1 .. Len(visible), visible[i]
        PROVE  Visible(data[Home[Poller]], Stale[i]) = ValA
    <3>1. i \in 1 .. Len(Stale)
      <4>1. Len(visible) <= Len(Stale)
        BY <1>1 DEF Script, ScriptTypes
      <4>2. Len(visible) \in Nat /\ Len(Stale) \in Nat
        BY <1>1, TrialNumbers DEF Script
      <4> QED BY <4>1, <4>2
    <3>2. data[Home[Poller]][Stale[i]] # Missing
      BY <1>1, <2>1 DEF Script, SamplesAtReplica, AtReplica
    <3> QED BY <1>1, <3>1, <3>2, Ends, KeysOfTrials, PlannedIsVisible DEF Script
  <2> QED BY <2>1 DEF SamplesStayVisible
<1> QED BY <1>1, TrialsInvariant, PTL
----------------------------------------------------------------------------
(* The report.                                                             *)

Row == [test : {"header", "staleness", "causal_chain"}, trial : Int,
        value : {"", "ms"}, violation : {"", "timeout", "0", "1"}]

(* The t-th row the program appends, counted from 0 over both tests, and   *)
(* the header before them.                                                 *)
LineAt(t) ==
    IF t = -1 THEN Header
    ELSE IF t < Len(Stale) THEN StaleRow(t)
    ELSE ChainRow(t - Len(Stale))

(* Which one a line is.                                                    *)
Pos(r) ==
    IF r.test = "header" THEN -1
    ELSE IF r.test = "staleness" THEN r.trial
    ELSE r.trial + Len(Stale)

(* Lines are among the first m the program appends, and in their order.    *)
Ordered(lines, m) ==
    /\ \A i \in 1 .. Len(lines) :
          Pos(lines[i]) \in -1 .. m - 1 /\ lines[i] = LineAt(Pos(lines[i]))
    /\ \A i, j \in 1 .. Len(lines) : i < j => Pos(lines[i]) < Pos(lines[j])

(* They are all of them, after a header or none.                           *)
Complete(lines, m) ==
    \E h \in {0, 1} :
        /\ Len(lines) = m + h
        /\ \A i \in 1 .. Len(lines) : Pos(lines[i]) = i - 1 - h

(* What the file holds, whatever was lost.                                 *)
FileFits ==
    /\ csv \in Seq(Row)
    /\ exists \in BOOLEAN /\ cut \in BOOLEAN /\ intact \in BOOLEAN
    /\ ~exists => csv = <<>> /\ appended = 0 /\ ~cut
    /\ cut => ~intact
    /\ Ordered(csv, appended)
    /\ intact => Complete(csv, appended)

(* Rows are appended once the trials of their test have ended.             *)
RowsFollow ==
    /\ appended \in 0 .. Len(Stale) + Len(Chains)
    /\ appended > 0 => Len(visible) = Len(Stale) /\ pc # "pollS"
    /\ appended > Len(Stale) =>
          Len(trialViolations) = Len(Chains) /\ pc \notin {"putS"} \cup InChain
    /\ pc \in {"putA", "done"} \cup InChain =>
          appended >= Len(Stale) /\ Len(visible) = Len(Stale)
    /\ pc = "done" =>
          appended = Len(Stale) + Len(Chains) /\ Len(trialViolations) = Len(Chains)

(* samples counts the trials that found their value, the others timed out. *)
TrialsCounted ==
    /\ samples \in Nat /\ samples <= Len(visible)
    /\ CountOf(visible, TRUE) = samples
    /\ CountOf(visible, FALSE) = Len(visible) - samples

Reported == FileFits /\ RowsFollow /\ TrialsCounted

(* What a line says of its trial.                                          *)
LEMMA LineFacts ==
    ASSUME NEW t \in Int, t >= -1
    PROVE  /\ LineAt(t) \in Row /\ Pos(LineAt(t)) = t
           /\ t = -1 => LineAt(t).test = "header"
           /\ t # -1 /\ t < Len(Stale) =>
                 /\ LineAt(t).test = "staleness"
                 /\ LineAt(t).violation = IF t < samples THEN "" ELSE "timeout"
           /\ t # -1 /\ ~(t < Len(Stale)) =>
                 /\ LineAt(t).test = "causal_chain"
                 /\ LineAt(t).violation =
                       IF trialViolations[t - Len(Stale) + 1] THEN "1" ELSE "0"
<1>1. Len(Stale) \in Nat
  BY TrialLists
<1>2. CASE t = -1
  BY <1>1, <1>2 DEF LineAt, Header, Row, Pos
<1>3. CASE t # -1 /\ t < Len(Stale)
  BY <1>1, <1>3 DEF LineAt, StaleRow, Row, Pos
<1>4. CASE t # -1 /\ ~(t < Len(Stale))
  <2>1. LineAt(t) = ChainRow(t - Len(Stale))
    BY <1>4 DEF LineAt
  <2>2. /\ ChainRow(t - Len(Stale)) \in Row
        /\ ChainRow(t - Len(Stale)).test = "causal_chain"
        /\ ChainRow(t - Len(Stale)).trial = t - Len(Stale)
        /\ ChainRow(t - Len(Stale)).violation =
              IF trialViolations[t - Len(Stale) + 1] THEN "1" ELSE "0"
    BY <1>1 DEF ChainRow, Row
  <2>3. Pos(LineAt(t)) = t
    BY <1>1, <2>1, <2>2 DEF Pos
  <2> QED BY <1>4, <2>1, <2>2, <2>3
<1> QED BY <1>2, <1>3, <1>4

(* The header is a row.                                                    *)
LEMMA RowTypes == Header \in Row
BY DEF Header, Row

(* What a call of appendTrialRow does to the file, if it does not end the  *)
(* program: the row is added, with a header to a new file, or lost.        *)
Appends(row) ==
    /\ exists' = TRUE /\ appended' = appended + 1 /\ pc' = pc
    /\ cut' \in BOOLEAN /\ intact' \in BOOLEAN
    /\ cut' => ~intact'
    /\ intact' => intact
    /\ \/ csv' = csv /\ ~intact'
       \/ ~exists /\ csv' = <<Header>> /\ ~intact'
       \/ ~exists /\ csv' = <<Header, row>>
       \/ csv' = Append(csv, row)

(* What Flush writes of one line or two.                                   *)
LEMMA FlushedLines ==
    ASSUME NEW S, NEW x \in S, NEW y \in S
    PROVE  /\ SubSeq(<<x>>, 1, 0) = <<>> /\ SubSeq(<<x>>, 2, 0) = <<>>
           /\ SubSeq(<<x>>, 2, 1) = <<>> /\ SubSeq(<<x>>, 1, 1) = <<x>>
           /\ SubSeq(<<x, y>>, 1, 0) = <<>> /\ SubSeq(<<x, y>>, 1, 1) = <<x>>
           /\ SubSeq(<<x, y>>, 1, 2) = <<x, y>>
<1>1. <<x>> \in Seq(S) /\ <<x, y>> \in Seq(S) /\ Len(<<x>>) = 1 /\ Len(<<x, y>>) = 2
  OBVIOUS
<1>2. SubSeq(<<x>>, 1, 1) = <<x>> /\ SubSeq(<<x, y>>, 1, 2) = <<x, y>>
  BY <1>1, SubSeqFull
<1>3. SubSeq(<<x, y>>, 1, 1) = <<x>>
  <2>1. SubSeq(<<x, y>>, 1, 1) = <<<<x, y>>[1]>> \o SubSeq(<<x, y>>, 2, 1)
    BY <1>1, SubSeqRecursiveFirst
  <2>2. SubSeq(<<x, y>>, 2, 1) = <<>>
    BY SubSeqEmpty
  <2>3. <<<<x, y>>[1]>> = <<x>>
    OBVIOUS
  <2>4. <<x>> \o <<>> = <<x>>
    BY <1>1, ConcatEmptySeq
  <2> QED BY <2>1, <2>2, <2>3, <2>4, Zenon
<1> QED BY <1>2, <1>3, SubSeqEmpty

LEMMA LinesAfter ==
    ASSUME NEW S, NEW s \in Seq(S), NEW x \in S, NEW y \in S
    PROVE  /\ s \o <<>> = s /\ s \o <<x>> = Append(s, x)
           /\ s = <<>> => s \o <<y>> = <<y>> /\ s \o <<y, x>> = <<y, x>>
<1>1. <<y>> \in Seq(S) /\ <<y, x>> \in Seq(S)
  OBVIOUS
<1>2. <<>> \o <<y>> = <<y>> /\ <<>> \o <<y, x>> = <<y, x>>
  BY <1>1, ConcatEmptySeq
<1>3. s \o <<>> = s
  BY ConcatEmptySeq
<1>4. s \o <<x>> = Append(s, x)
  BY AppendAsConcat
<1> QED BY <1>2, <1>3, <1>4, Zenon

LEMMA AppendEffect ==
    ASSUME FileFits, NEW row \in Row, AppendTrialRow(row)
    PROVE  (pc' = "error" /\ UNCHANGED file) \/ Appends(row)
<1> DEFINE lines == IF exists THEN <<row>> ELSE <<Header, row>>
<1>1. CASE pc' = "error" /\ UNCHANGED file
  BY <1>1
<1>2. ASSUME NEW n \in 0 .. Len(lines), NEW part \in BOOLEAN,
             part => n < Len(lines),
             csv' = csv \o SubSeq(lines, IF cut THEN 2 ELSE 1, n),
             cut' = (part \/ (cut /\ n = 0)),
             intact' = (intact /\ n = Len(lines)),
             exists' = TRUE, appended' = appended + 1, pc' = pc
      PROVE  Appends(row)
  <2>1. /\ csv \in Seq(Row) /\ (~exists => csv = <<>> /\ ~cut)
        /\ exists \in BOOLEAN /\ cut \in BOOLEAN /\ intact \in BOOLEAN /\ (cut => ~intact)
    BY DEF FileFits
  <2>2. /\ csv \o <<>> = csv /\ csv \o <<row>> = Append(csv, row)
        /\ csv = <<>> => csv \o <<Header>> = <<Header>> /\ csv \o <<Header, row>> = <<Header, row>>
    BY <2>1, RowTypes, LinesAfter
  <2>3. CASE exists
    <3>1. lines = <<row>> /\ Len(lines) = 1 /\ n \in {0, 1}
      BY <2>3
    <3>2. csv' = csv \o (IF n = 1 /\ ~cut THEN <<row>> ELSE <<>>)
      BY <1>2, <2>1, <3>1, FlushedLines
    <3> QED BY <1>2, <2>1, <2>2, <3>1, <3>2 DEF Appends
  <2>4. CASE ~exists
    <3>1. lines = <<Header, row>> /\ Len(lines) = 2 /\ n \in {0, 1, 2} /\ csv = <<>> /\ ~cut
      BY <2>1, <2>4
    <3>2. csv' = csv \o (IF n = 0 THEN <<>> ELSE IF n = 1 THEN <<Header>> ELSE <<Header, row>>)
      BY <1>2, <3>1, RowTypes, FlushedLines
    <3>3. /\ cut' \in BOOLEAN /\ intact' \in BOOLEAN
          /\ intact' => intact /\ n = 2
          /\ cut' => ~intact'
      BY <1>2, <2>1, <3>1
    <3>4. CASE n = 0
      <4>1. csv' = csv
        BY <2>2, <3>1, <3>2, <3>4
      <4>2. ~intact'
        BY <3>3, <3>4
      <4> QED BY <1>2, <3>3, <4>1, <4>2 DEF Appends
    <3>5. CASE n = 1
      <4>1. csv' = <<Header>>
        BY <2>2, <3>1, <3>2, <3>5
      <4>2. ~intact'
        BY <3>3, <3>5
      <4> QED BY <1>2, <2>4, <3>3, <4>1, <4>2 DEF Appends
    <3>6. CASE n = 2
      <4>1. csv' = <<Header, row>>
        BY <2>2, <3>1, <3>2, <3>6
      <4> QED BY <1>2, <2>4, <3>3, <4>1 DEF Appends
    <3> QED BY <3>1, <3>4, <3>5, <3>6
  <2> QED BY <2>1, <2>3, <2>4
<1> QED BY <1>1, <1>2 DEF AppendTrialRow

(* The next row may follow the lines there are, and a header with the      *)
(* first row, or none, is a file's beginning.                              *)
LEMMA NextLine ==
    ASSUME NEW s \in Seq(Row), NEW m \in Nat, Ordered(s, m)
    PROVE  /\ Append(s, LineAt(m)) \in Seq(Row)
           /\ Ordered(s, m + 1)
           /\ Ordered(Append(s, LineAt(m)), m + 1)
           /\ Complete(s, m) => Complete(Append(s, LineAt(m)), m + 1)
<1> DEFINE x == LineAt(m)
           t == Append(s, x)
           l == Len(s)
<1>1. x \in Row /\ Pos(x) = m
  <2>1. m \in Int /\ m >= -1
    OBVIOUS
  <2> QED BY <2>1, LineFacts, Zenon
<1>2. l \in Nat
  BY LenProperties
<1>3. /\ t \in Seq(Row) /\ Len(t) = l + 1 /\ t[l + 1] = x
      /\ \A i \in 1 .. l : t[i] = s[i]
  <2>1. x \in Row
    BY <1>1
  <2> HIDE DEF x, Row
  <2> QED BY <2>1, AppendProperties
<1> HIDE DEF t, l
<1>4. /\ \A i \in 1 .. l : Pos(t[i]) \in -1 .. m - 1 /\ t[i] = LineAt(Pos(t[i])) /\ Pos(t[i]) = Pos(s[i])
      /\ \A i, j \in 1 .. l : i < j => Pos(t[i]) < Pos(t[j])
  <2>1. /\ \A i \in 1 .. l : Pos(s[i]) \in -1 .. m - 1 /\ s[i] = LineAt(Pos(s[i]))
        /\ \A i, j \in 1 .. l : i < j => Pos(s[i]) < Pos(s[j])
    BY DEF Ordered, l
  <2> QED BY <1>3, <2>1, Zenon
<1>5. Pos(t[l + 1]) = m /\ t[l + 1] = LineAt(Pos(t[l + 1]))
  BY <1>1, <1>3
<1>6. Ordered(s, m + 1)
  BY DEF Ordered
<1>7. ASSUME NEW i \in 1 .. l + 1 PROVE Pos(t[i]) \in -1 .. m /\ t[i] = LineAt(Pos(t[i]))
  <2>1. CASE i \in 1 .. l
    BY <1>4, <2>1
  <2>2. CASE i = l + 1
    BY <1>5, <2>2
  <2> QED BY <1>2, <2>1, <2>2
<1>8. ASSUME NEW i \in 1 .. l + 1, NEW j \in 1 .. l + 1, i < j PROVE Pos(t[i]) < Pos(t[j])
  <2>1. i \in 1 .. l /\ (j \in 1 .. l \/ j = l + 1)
    BY <1>2, <1>8
  <2>2. CASE j \in 1 .. l
    BY <1>4, <1>8, <2>1, <2>2
  <2>3. CASE j = l + 1
    BY <1>4, <1>5, <2>1, <2>3
  <2> QED BY <2>1, <2>2, <2>3
<1>9. Ordered(t, m + 1)
  BY <1>3, <1>7, <1>8 DEF Ordered
<1>10. ASSUME Complete(s, m) PROVE Complete(t, m + 1)
  <2>1. PICK h \in {0, 1} : l = m + h /\ \A i \in 1 .. l : Pos(s[i]) = i - 1 - h
    BY <1>10 DEF Complete, l
  <2>2. ASSUME NEW i \in 1 .. l + 1 PROVE Pos(t[i]) = i - 1 - h
    <3>1. CASE i \in 1 .. l
      BY <1>4, <2>1, <3>1
    <3>2. CASE i = l + 1
      BY <1>5, <2>1, <3>2
    <3> QED BY <1>2, <3>1, <3>2
  <2> QED BY <1>3, <2>1, <2>2 DEF Complete
<1> QED BY <1>3, <1>6, <1>9, <1>10 DEF t

LEMMA FirstLines ==
    /\ <<>> \in Seq(Row) /\ Ordered(<<>>, 0) /\ Complete(<<>>, 0)
    /\ <<Header>> \in Seq(Row) /\ \A m \in Nat : Ordered(<<Header>>, m)
    /\ Complete(<<Header>>, 0)
    /\ <<Header, LineAt(0)>> \in Seq(Row) /\ Ordered(<<Header, LineAt(0)>>, 1)
    /\ Complete(<<Header, LineAt(0)>>, 1)
<1>1. Header \in Row /\ Pos(Header) = -1 /\ Header = LineAt(-1)
  BY RowTypes DEF Pos, Header, LineAt
<1>2. <<>> \in Seq(Row) /\ Len(<<>>) = 0
  BY EmptySeq
<1>3. <<Header>> \in Seq(Row) /\ Len(<<Header>>) = 1 /\ <<Header>>[1] = Header
  <2> HIDE DEF Row
  <2> QED BY <1>1
<1>4. Ordered(<<>>, 0)
  BY <1>2 DEF Ordered
<1>5. Complete(<<>>, 0)
  BY <1>2 DEF Complete
<1>6. \A m \in Nat : Ordered(<<Header>>, m)
  BY <1>1, <1>3 DEF Ordered
<1>7. Complete(<<Header>>, 0)
  BY <1>1, <1>3 DEF Complete
<1>8. Append(<<Header>>, LineAt(0)) = <<Header, LineAt(0)>>
  <2>1. ASSUME NEW S, NEW x \in S, NEW y \in S PROVE Append(<<x>>, y) = <<x, y>>
    <3>1. <<x>> \in Seq(S) /\ <<x, y>> \in Seq(S) /\ Append(<<x>>, y) \in Seq(S)
      OBVIOUS
    <3>2. Len(<<x, y>>) = 2 /\ Len(Append(<<x>>, y)) = 2
      OBVIOUS
    <3>3. \A i \in 1 .. 2 : Append(<<x>>, y)[i] = <<x, y>>[i]
      OBVIOUS
    <3> QED BY <3>1, <3>2, <3>3, SeqEqual
  <2>2. LineAt(0) \in Row
    <3>1. 0 \in Int /\ 0 >= -1
      OBVIOUS
    <3> QED BY <3>1, LineFacts, Zenon
  <2> QED BY <1>1, <2>1, <2>2
<1>9. /\ Append(<<Header>>, LineAt(0)) \in Seq(Row) /\ Ordered(Append(<<Header>>, LineAt(0)), 1)
      /\ Complete(Append(<<Header>>, LineAt(0)), 1)
  <2>1. 0 \in Nat /\ 0 + 1 = 1
    OBVIOUS
  <2>2. Ordered(<<Header>>, 0)
    BY <1>6, <2>1
  <2>3. /\ Append(<<Header>>, LineAt(0)) \in Seq(Row) /\ Ordered(Append(<<Header>>, LineAt(0)), 0 + 1)
        /\ Complete(Append(<<Header>>, LineAt(0)), 0 + 1)
    BY <1>3, <1>7, <2>1, <2>2, NextLine, Zenon
  <2> QED BY <2>1, <2>3, Zenon
<1> QED BY <1>2, <1>3, <1>4, <1>5, <1>6, <1>7, <1>8, <1>9, Zenon

(* A call of appendTrialRow with the row that is due, whatever is written. *)
LEMMA FileGrows ==
    ASSUME FileFits, appended \in Nat, Appends(LineAt(appended)), UNCHANGED outcomes
    PROVE  FileFits'
<1> DEFINE row == LineAt(appended)
           m == appended + 1
<1>1. /\ csv \in Seq(Row) /\ Ordered(csv, appended) /\ (intact => Complete(csv, appended))
      /\ ~exists => appended = 0
  BY DEF FileFits
<1>2. /\ exists' = TRUE /\ appended' = m
      /\ cut' \in BOOLEAN /\ intact' \in BOOLEAN /\ (cut' => ~intact') /\ (intact' => intact)
  BY DEF Appends
<1>3. csv' \in Seq(Row) /\ Ordered(csv', m) /\ (intact' => Complete(csv', m))
  <2>1. CASE csv' = csv /\ ~intact'
    BY <1>1, <2>1, NextLine
  <2>2. CASE csv' = <<Header>> /\ ~intact'
    <3>1. m \in Nat
      OBVIOUS
    <3> QED BY <2>2, <3>1, FirstLines
  <2>3. CASE ~exists /\ csv' = <<Header, row>>
    <3>1. appended = 0 /\ m = 1
      BY <1>1, <2>3
    <3> QED BY <2>3, <3>1, FirstLines
  <2>4. CASE csv' = Append(csv, row)
    BY <1>1, <1>2, <2>4, NextLine
  <2> QED BY <2>1, <2>2, <2>3, <2>4 DEF Appends
<1>4. Ordered(csv, appended)'
  BY <1>2, <1>3 DEF Ordered, LineAt, StaleRow, ChainRow, outcomes
<1>5. (intact => Complete(csv, appended))'
  BY <1>2, <1>3 DEF Complete
<1> QED BY <1>2, <1>3, <1>4, <1>5 DEF FileFits

(* One outcome more counts one more of its kind.                           *)
LEMMA CountOneMore ==
    ASSUME NEW s \in Seq(BOOLEAN), NEW x \in BOOLEAN, NEW b \in BOOLEAN
    PROVE  CountOf(Append(s, x), b) = IF x = b THEN CountOf(s, b) + 1 ELSE CountOf(s, b)
<1> DEFINE n == Len(s)
           S == {i \in 1 .. n : s[i] = b}
           T == {i \in 1 .. n + 1 : Append(s, x)[i] = b}
<1>1. n \in Nat
  BY LenProperties
<1>2. /\ Len(Append(s, x)) = n + 1
      /\ \A i \in 1 .. n + 1 : Append(s, x)[i] = IF i = n + 1 THEN x ELSE s[i]
  BY AppendOutcome
<1> HIDE DEF n
<1>3. /\ \A i \in 1 .. n : i \in 1 .. n + 1 /\ i # n + 1
      /\ \A i \in 1 .. n + 1 : i # n + 1 => i \in 1 .. n
      /\ n + 1 \in 1 .. n + 1 /\ n + 1 \notin 1 .. n
  BY <1>1
<1>4. T = IF x = b THEN S \cup {n + 1} ELSE S
  BY <1>2, <1>3, Zenon
<1>5. IsFiniteSet(1 .. n)
  BY <1>1, FS_Interval
<1>6. IsFiniteSet(S)
  BY <1>5, FS_Subset
<1>7. n + 1 \notin S
  BY <1>3
<1>8. CountOf(s, b) = Cardinality(S) /\ CountOf(Append(s, x), b) = Cardinality(T)
  BY <1>2 DEF CountOf, n
<1>9. Cardinality(S) \in Nat
  BY <1>6, FS_CardinalityType
<1> HIDE DEF S, T
<1>10. CASE x = b
  BY <1>4, <1>6, <1>7, <1>8, <1>10, FS_AddElement
<1>11. CASE x # b
  BY <1>4, <1>8, <1>9, <1>11
<1> QED BY <1>10, <1>11

(* A trial more, with a sample or without.                                 *)
CountsOneMore ==
    /\ Len(visible') = Len(visible) + 1
    /\ \/ /\ samples' = samples + 1
          /\ CountOf(visible', TRUE) = CountOf(visible, TRUE) + 1
          /\ CountOf(visible', FALSE) = CountOf(visible, FALSE)
       \/ /\ samples' = samples
          /\ CountOf(visible', TRUE) = CountOf(visible, TRUE)
          /\ CountOf(visible', FALSE) = CountOf(visible, FALSE) + 1

(* The outcome of a staleness trial is a sample or a timeout.              *)
LEMMA OutcomeCounts ==
    ASSUME Script,
           \/ visible' = Append(visible, TRUE) /\ samples' = samples + 1
           \/ visible' = Append(visible, FALSE) /\ samples' = samples
    PROVE  CountsOneMore
<1>1. visible \in Seq(BOOLEAN)
  BY DEF Script, ScriptTypes
<1>2. ASSUME NEW x \in BOOLEAN, visible' = Append(visible, x)
      PROVE  /\ Len(visible') = Len(visible) + 1
             /\ \A b \in BOOLEAN :
                   CountOf(visible', b) = IF x = b THEN CountOf(visible, b) + 1
                                                  ELSE CountOf(visible, b)
  BY <1>1, <1>2, CountOneMore, AppendOutcome, Zenon
<1>3. TRUE # FALSE
  OBVIOUS
<1> QED BY <1>2, <1>3, Zenon DEF CountsOneMore

----------------------------------------------------------------------------
(* Nothing is appended, and what has been stays as it was reported.        *)
LEMMA ReportKept ==
    ASSUME FileFits, RowsFollow, UNCHANGED file,
           \A t \in 0 .. appended - 1 :
              /\ t < Len(Stale) => StaleRow(t)' = StaleRow(t)
              /\ t >= Len(Stale) => ChainRow(t - Len(Stale))' = ChainRow(t - Len(Stale))
    PROVE  FileFits'
<1>1. UNCHANGED <<exists, csv, cut, appended, intact>>
  BY DEF file
<1>2. Len(Stale) \in Nat /\ appended \in Nat
  BY TrialLists DEF RowsFollow
<1>3. \A t \in -1 .. appended - 1 : LineAt(t)' = LineAt(t)
  <2> SUFFICES ASSUME NEW t \in -1 .. appended - 1 PROVE LineAt(t)' = LineAt(t)
    OBVIOUS
  <2>1. CASE t = -1
    BY <2>1 DEF LineAt
  <2>2. CASE t # -1 /\ t < Len(Stale)
    <3>1. LineAt(t) = StaleRow(t) /\ LineAt(t)' = StaleRow(t)'
      BY <2>2 DEF LineAt
    <3> QED BY <1>2, <2>2, <3>1
  <2>3. CASE t # -1 /\ ~(t < Len(Stale))
    <3>1. LineAt(t) = ChainRow(t - Len(Stale)) /\ LineAt(t)' = ChainRow(t - Len(Stale))'
      BY <2>3 DEF LineAt
    <3> QED BY <1>2, <2>3, <3>1
  <2> QED BY <2>1, <2>2, <2>3
<1>4. csv \in Seq(Row) /\ Ordered(csv, appended)
  BY DEF FileFits
<1>5. Ordered(csv, appended)'
  <2>1. \A i \in 1 .. Len(csv) : csv[i] = LineAt(Pos(csv[i]))'
    <3> SUFFICES ASSUME NEW i \in 1 .. Len(csv) PROVE csv[i] = LineAt(Pos(csv[i]))'
      OBVIOUS
    <3> DEFINE t == Pos(csv[i])
    <3>1. t \in -1 .. appended - 1 /\ csv[i] = LineAt(t)
      BY <1>4 DEF Ordered
    <3> QED BY <1>1, <1>3, <3>1
  <2> QED BY <1>1, <1>4, <2>1 DEF Ordered
<1> QED BY <1>1, <1>5 DEF FileFits, Complete

(* How the program gets on while it neither writes nor ends a trial.       *)
GoesOn ==
    \/ pc' \in {pc, "error"}
    \/ pc = "putS" /\ pc' = "pollS" /\ Len(visible) < Len(Stale)
    \/ pc = "putS" /\ pc' = "putA" /\ Len(visible) = Len(Stale) /\ appended = Len(Stale)
    \/ pc \in {"putA"} \cup InChain /\ pc' \in InChain /\ Len(trialViolations) < Len(Chains)
    \/ /\ pc = "putA" /\ pc' = "done" /\ Len(trialViolations) = Len(Chains)
       /\ appended - Len(Stale) = Len(Chains)

LEMMA GoesOnReported ==
    ASSUME Script, Reported, UNCHANGED <<outcomes, file>>, GoesOn
    PROVE  Reported'
<1>1. UNCHANGED <<samples, visible, trialViolations, appended>> /\ UNCHANGED file
  BY DEF outcomes, file
<1>2. FileFits'
  BY <1>1, ReportKept DEF Reported, StaleRow, ChainRow
<1>3. TrialsCounted'
  BY <1>1 DEF Reported, TrialsCounted
<1>4. /\ Len(visible) \in Nat /\ Len(Stale) \in Nat
      /\ Len(trialViolations) \in Nat /\ Len(Chains) \in Nat
  BY TrialNumbers DEF Script
<1>5. RowsFollow'
  BY <1>1, <1>4 DEF Reported, RowsFollow, GoesOn, InChain
<1> QED BY <1>2, <1>3, <1>5 DEF Reported

(* A staleness trial ends, before any row is written.                      *)
LEMMA SampleReported ==
    ASSUME Script, Reported, pc = "pollS", pc' = "putS", UNCHANGED file, UNCHANGED trialViolations,
           \/ visible' = Append(visible, TRUE) /\ samples' = samples + 1
           \/ visible' = Append(visible, FALSE) /\ samples' = samples
    PROVE  Reported'
<1>1. /\ Len(visible) \in Nat /\ Len(Stale) \in Nat
      /\ Len(trialViolations) \in Nat /\ Len(Chains) \in Nat
  BY TrialNumbers DEF Script
<1>2. appended = 0 /\ appended' = 0
  BY <1>1 DEF Reported, RowsFollow, file
<1>3. FileFits'
  BY <1>2, ReportKept DEF Reported
<1>4. CountsOneMore
  BY OutcomeCounts
<1>5. TrialsCounted'
  <2>1. /\ samples \in Nat /\ samples <= Len(visible) /\ CountOf(visible, TRUE) = samples
        /\ CountOf(visible, FALSE) = Len(visible) - samples
    BY DEF Reported, TrialsCounted
  <2>2. /\ samples' \in Nat /\ samples' <= Len(visible') /\ CountOf(visible', TRUE) = samples'
        /\ CountOf(visible', FALSE) = Len(visible') - samples'
    <3> DEFINE l == Len(visible)
               hits == CountOf(visible, TRUE)
               misses == CountOf(visible, FALSE)
               l2 == Len(visible')
               hits2 == CountOf(visible', TRUE)
               misses2 == CountOf(visible', FALSE)
    <3>1. /\ l2 = l + 1
          /\ \/ samples' = samples + 1 /\ hits2 = hits + 1 /\ misses2 = misses
             \/ samples' = samples /\ hits2 = hits /\ misses2 = misses + 1
      BY <1>4, Zenon DEF CountsOneMore
    <3>2. l \in Nat /\ samples \in Nat /\ samples <= l /\ hits = samples /\ misses = l - samples
      BY <1>1, <2>1, Zenon
    <3> HIDE DEF l, hits, misses, l2, hits2, misses2
    <3>3. samples' \in Nat /\ samples' <= l2 /\ hits2 = samples' /\ misses2 = l2 - samples'
      BY <3>1, <3>2
    <3> QED BY <3>3, Zenon DEF l2, hits2, misses2
  <2> QED BY <2>2 DEF TrialsCounted, CountOf
<1>6. RowsFollow'
  BY <1>1, <1>2 DEF RowsFollow, InChain
<1> QED BY <1>3, <1>5, <1>6 DEF Reported

(* A chain trial ends, before any row of a chain is written.               *)
LEMMA ChainReported ==
    ASSUME Script, Reported, pc \in InChain, NEW v \in BOOLEAN, EndTrial(v)
    PROVE  Reported'
<1>1. /\ Len(visible) \in Nat /\ Len(Stale) \in Nat
      /\ Len(trialViolations) \in Nat /\ Len(Chains) \in Nat
  BY TrialNumbers DEF Script
<1>2. /\ pc' = "putA" /\ UNCHANGED <<samples, visible, appended>> /\ UNCHANGED file
      /\ trialViolations' = Append(trialViolations, v)
  BY DEF EndTrial, file
<1>3. appended = Len(Stale) /\ Len(visible) = Len(Stale)
  BY <1>1 DEF Reported, RowsFollow
<1>4. FileFits'
  BY <1>1, <1>2, <1>3, ReportKept DEF Reported, StaleRow
<1>5. TrialsCounted'
  BY <1>2 DEF Reported, TrialsCounted
<1>6. RowsFollow'
  BY <1>1, <1>2, <1>3 DEF RowsFollow, InChain
<1> QED BY <1>4, <1>5, <1>6 DEF Reported

(* The row that is due is appended.                                        *)
LEMMA AppendReported ==
    ASSUME Script, Reported, UNCHANGED outcomes, AppendTrialRow(LineAt(appended)),
           \/ pc = "putS" /\ Len(visible) = Len(Stale) /\ appended < Len(Stale)
           \/ /\ pc = "putA" /\ Len(trialViolations) = Len(Chains)
              /\ appended - Len(Stale) < Len(Chains)
    PROVE  Reported'
<1>1. /\ Len(visible) \in Nat /\ Len(Stale) \in Nat /\ appended \in Nat
      /\ Len(trialViolations) \in Nat /\ Len(Chains) \in Nat
  BY TrialNumbers DEF Script, Reported, RowsFollow
<1>2. LineAt(appended) \in Row
  <2>1. appended \in Int /\ appended >= -1
    BY <1>1
  <2> QED BY <2>1, LineFacts, Zenon
<1>3. (pc' = "error" /\ UNCHANGED file) \/ Appends(LineAt(appended))
  BY <1>2, AppendEffect DEF Reported
<1>4. CASE pc' = "error" /\ UNCHANGED file
  BY <1>4, GoesOnReported DEF GoesOn
<1>5. CASE Appends(LineAt(appended))
  <2>1. FileFits'
    BY <1>1, <1>5, FileGrows DEF Reported
  <2>2. /\ pc' = pc /\ appended' = appended + 1
        /\ UNCHANGED <<samples, visible, trialViolations>>
    BY <1>5 DEF Appends, outcomes
  <2>3. TrialsCounted'
    BY <2>2 DEF Reported, TrialsCounted
  <2>4. RowsFollow'
    BY <1>1, <2>2 DEF Reported, RowsFollow, InChain
  <2> QED BY <2>1, <2>3, <2>4 DEF Reported
<1> QED BY <1>3, <1>4, <1>5

LEMMA InitReported == TrialsInit => Reported
<1> SUFFICES ASSUME TrialsInit PROVE Reported
  OBVIOUS
<1>1. /\ pc = "putS" /\ samples = 0 /\ visible = <<>> /\ trialViolations = <<>>
      /\ appended = 0 /\ csv \in {<<>>, <<Header>>} /\ (~exists => csv = <<>> /\ ~cut)
      /\ exists \in BOOLEAN /\ cut \in BOOLEAN /\ intact = ~cut
  BY DEF TrialsInit
<1>2. Len(visible) = 0 /\ Len(Stale) \in Nat /\ Len(Chains) \in Nat
  BY <1>1, EmptySeq, TrialLists
<1>3. FileFits
  BY <1>1, FirstLines DEF FileFits
<1>4. RowsFollow
  BY <1>1, <1>2 DEF RowsFollow, InChain
<1>5. TrialsCounted
  <2>1. \A b : {i \in 1 .. Len(visible) : visible[i] = b} = {}
    BY <1>2
  <2>2. \A b : CountOf(visible, b) = 0
    BY <2>1, FS_EmptySet DEF CountOf
  <2>3. CountOf(visible, TRUE) = 0 /\ CountOf(visible, FALSE) = 0
    BY <2>2, Zenon
  <2>4. samples \in Nat /\ samples <= Len(visible) /\ samples = 0 /\ Len(visible) - samples = 0
    BY <1>1, <1>2
  <2> QED BY <2>3, <2>4, Zenon DEF TrialsCounted
<1> QED BY <1>3, <1>4, <1>5 DEF Reported

LEMMA NextReported ==
    ASSUME Script, Reported, [TrialsNext]_allVars
    PROVE  Reported'
<1>1. ScriptTypes /\ Len(Stale) \in Nat /\ appended \in Nat
  BY TrialLists DEF Script, Reported, RowsFollow
<1>2. ASSUME NEW now \in Wall, PutStale(now) \/ PutA(now) \/ PutB(now) \/ RequestFails(now)
      PROVE  Reported'
  <2>1. UNCHANGED <<outcomes, file>>
    BY <1>2 DEF PutStale, PutA, PutB, RequestFails
  <2>2. GoesOn
    BY <1>1, <1>2 DEF PutStale, PutA, PutB, RequestFails, GoesOn, InChain, ScriptTypes
  <2> QED BY <2>1, <2>2, GoesOnReported
<1>3. CASE PollStale \/ StaleTimeout
  <2>1. UNCHANGED file /\ UNCHANGED trialViolations /\ pc = "pollS"
    BY <1>3 DEF PollStale, StaleTimeout
  <2>2. CASE StaleTimeout \/ StaleFound
    <3>1. /\ pc' = "putS"
          /\ \/ visible' = Append(visible, TRUE) /\ samples' = samples + 1
             \/ visible' = Append(visible, FALSE) /\ samples' = samples
      BY <1>3, <2>2 DEF PollStale, StaleTimeout
    <3> QED BY <2>1, <3>1, SampleReported
  <2>3. CASE PollStale /\ ~StaleFound
    <3>1. UNCHANGED outcomes /\ pc' = pc
      BY <2>3 DEF PollStale, outcomes
    <3> QED BY <2>1, <3>1, GoesOnReported DEF GoesOn
  <2> QED BY <1>3, <2>2, <2>3
<1>4. CASE ReportStale
  <2>1. pc = "putS" /\ Len(visible) = Len(Stale) /\ UNCHANGED outcomes
    BY <1>4 DEF ReportStale
  <2>2. CASE appended < Len(Stale) /\ AppendTrialRow(StaleRow(appended))
    <3>1. LineAt(appended) = StaleRow(appended)
      BY <1>1, <2>2 DEF LineAt
    <3> QED BY <2>1, <2>2, <3>1, AppendReported
  <2>3. CASE appended = Len(Stale) /\ pc' = "putA" /\ UNCHANGED file
    BY <2>1, <2>3, GoesOnReported DEF GoesOn
  <2> QED BY <1>4, <2>2, <2>3 DEF ReportStale
<1>5. CASE ReportChains
  <2> DEFINE row == appended - Len(Stale)
  <2>1. pc = "putA" /\ Len(trialViolations) = Len(Chains) /\ UNCHANGED outcomes
    BY <1>5 DEF ReportChains
  <2>2. CASE row < Len(Chains) /\ AppendTrialRow(ChainRow(row))
    <3>1. appended >= Len(Stale)
      BY <2>1 DEF Reported, RowsFollow
    <3>2. LineAt(appended) = ChainRow(row)
      BY <1>1, <3>1 DEF LineAt
    <3> QED BY <2>1, <2>2, <3>2, AppendReported
  <2>3. CASE row = Len(Chains) /\ pc' = "done" /\ UNCHANGED file
    BY <2>1, <2>3, GoesOnReported DEF GoesOn
  <2> QED BY <1>5, <2>2, <2>3 DEF ReportChains
<1>6. CASE GetA \/ PollAgain \/ \E which \in {"a", "b"} : Poll(which)
  <2>1. UNCHANGED <<outcomes, file>>
    BY <1>6 DEF GetA, PollAgain, Poll
  <2>2. pc \in InChain /\ pc' \in InChain
    BY <1>6 DEF GetA, PollAgain, Poll, PollTurn, InChain
  <2>3. GoesOn
    BY <1>1, <2>2 DEF GoesOn, ScriptTypes
  <2> QED BY <2>1, <2>3, GoesOnReported
<1>7. CASE Judge \/ StopPolling
  <2>1. pc \in InChain /\ \E v \in BOOLEAN : EndTrial(v)
    BY <1>7 DEF Judge, StopPolling, InChain
  <2> QED BY <2>1, ChainReported
<1>8. CASE ClusterStep \/ Finished \/ UNCHANGED allVars
  <2>1. UNCHANGED <<outcomes, file>> /\ pc' = pc
    BY <1>8 DEF ClusterStep, Finished, allVars, scriptVars
  <2> QED BY <2>1, GoesOnReported DEF GoesOn
<1> QED BY <1>2, <1>3, <1>4, <1>5, <1>6, <1>7, <1>8 DEF TrialsNext

(* The file holds rows that were due, in their order, beside the trials.   *)
THEOREM ReportInvariant == TrialsSpec => [](Script /\ Reported)
<1>1. TrialsInit => Reported
  BY InitReported
<1>2. Script /\ Reported /\ [TrialsNext]_allVars => Reported'
  BY NextReported
<1> QED BY <1>1, <1>2, TrialsInvariant, PTL DEF TrialsSpec

----------------------------------------------------------------------------
(* What a line of the file says.                                           *)
LEMMA LineOfFile ==
    ASSUME Script, Reported, NEW i \in 1 .. Len(csv), NEW p, p = Pos(csv[i])
    PROVE  /\ p \in Int /\ p >= -1 /\ p < appended /\ csv[i] = LineAt(p) /\ csv[i] \in Row
           /\ csv[i].test = "header" => p = -1
           /\ csv[i].test = "staleness" =>
                 /\ p >= 0 /\ p < Len(Stale) /\ Len(visible) = Len(Stale)
                 /\ csv[i].violation = IF p < samples THEN "" ELSE "timeout"
           /\ csv[i].test = "causal_chain" =>
                 /\ p >= Len(Stale) /\ p + 1 - Len(Stale) \in 1 .. Len(trialViolations)
                 /\ csv[i].violation = IF trialViolations[p + 1 - Len(Stale)] THEN "1" ELSE "0"
<1>1. /\ Len(Stale) \in Nat /\ Len(Chains) \in Nat /\ Len(trialViolations) \in Nat
      /\ appended \in Nat /\ appended <= Len(Stale) + Len(Chains)
  BY TrialNumbers DEF Script, Reported, RowsFollow
<1>2. p \in Int /\ p >= -1 /\ p < appended /\ csv[i] = LineAt(p)
  <2>1. p \in -1 .. appended - 1 /\ csv[i] = LineAt(p)
    BY DEF Reported, FileFits, Ordered
  <2> QED BY <1>1, <2>1
<1>3. /\ LineAt(p) \in Row
      /\ p = -1 => LineAt(p).test = "header"
      /\ p # -1 /\ p < Len(Stale) =>
            /\ LineAt(p).test = "staleness"
            /\ LineAt(p).violation = IF p < samples THEN "" ELSE "timeout"
      /\ p # -1 /\ ~(p < Len(Stale)) =>
            /\ LineAt(p).test = "causal_chain"
            /\ LineAt(p).violation = IF trialViolations[p - Len(Stale) + 1] THEN "1" ELSE "0"
  BY <1>2, LineFacts, Zenon
<1>4. CASE p = -1
  BY <1>2, <1>3, <1>4
<1>5. CASE p # -1 /\ p < Len(Stale)
  <2>1. p >= 0 /\ appended > 0
    BY <1>1, <1>2, <1>5
  <2>2. Len(visible) = Len(Stale)
    BY <2>1 DEF Reported, RowsFollow
  <2> QED BY <1>2, <1>3, <1>5, <2>1, <2>2
<1>6. CASE p # -1 /\ ~(p < Len(Stale))
  <2>1. p >= Len(Stale) /\ appended > Len(Stale)
    BY <1>1, <1>2, <1>6
  <2>2. Len(trialViolations) = Len(Chains)
    BY <2>1 DEF Reported, RowsFollow
  <2>3. p + 1 - Len(Stale) \in 1 .. Len(trialViolations) /\ p + 1 - Len(Stale) = p - Len(Stale) + 1
    BY <1>1, <1>2, <2>1, <2>2
  <2> QED BY <1>2, <1>3, <1>6, <2>1, <2>3
<1> QED BY <1>4, <1>5, <1>6

(* With no line lost, the row of every trial is there.                     *)
LEMMA RowIsThere ==
    ASSUME Script, Reported, intact, NEW t \in Nat, t < appended
    PROVE  \E i \in 1 .. Len(csv) : Pos(csv[i]) = t
<1>1. PICK h \in {0, 1} :
          Len(csv) = appended + h /\ \A i \in 1 .. Len(csv) : Pos(csv[i]) = i - 1 - h
  BY DEF Reported, FileFits, Complete
<1>2. appended \in Nat
  BY DEF Reported, RowsFollow
<1>3. t + 1 + h \in 1 .. Len(csv)
  BY <1>1, <1>2
<1> QED BY <1>1, <1>3

(* Lines are counted by the trials they are of.                            *)
LEMMA CountRows ==
    ASSUME Script, Reported, NEW S \in SUBSET (1 .. Len(csv)), NEW T, IsFiniteSet(T), NEW d \in Int,
           \A i \in S : Pos(csv[i]) + d \in T
    PROVE  /\ Cardinality(S) <= Cardinality(T)
           /\ (\A t \in T : \E i \in S : Pos(csv[i]) + d = t) => Cardinality(S) = Cardinality(T)
<1> DEFINE f == [i \in S |-> Pos(csv[i]) + d]
<1>1. \A i \in S : Pos(csv[i]) \in Int
  BY LineOfFile
<1>2. \A i, j \in S : i < j => Pos(csv[i]) < Pos(csv[j])
  BY DEF Reported, FileFits, Ordered
<1>3. S \subseteq Int
  BY LenProperties DEF Reported, FileFits
<1>4. \A i, j \in S : f[i] = f[j] => i = j
  BY <1>1, <1>2, <1>3
<1>5. f \in Injection(S, T)
  BY <1>4 DEF Injection, IsInjective
<1>6. ASSUME \A t \in T : \E i \in S : Pos(csv[i]) + d = t PROVE f \in Surjection(S, T)
  BY <1>6 DEF Surjection
<1> QED BY <1>5, <1>6, FS_Injection

(* Rows of samples and of timeouts.                                        *)
LEMMA StaleRowsAddUp ==
    ASSUME Script, Reported
    PROVE  /\ Rows("staleness", "") <= CountOf(visible, TRUE)
           /\ Rows("staleness", "timeout") <= CountOf(visible, FALSE)
           /\ pc = "done" /\ intact =>
                 /\ Rows("staleness", "") = CountOf(visible, TRUE)
                 /\ Rows("staleness", "timeout") = CountOf(visible, FALSE)
<1> DEFINE S == RowsOf("staleness", "")
           T == 0 .. samples - 1
           U == RowsOf("staleness", "timeout")
           V == samples .. Len(visible) - 1
<1>1. /\ samples \in Nat /\ samples <= Len(visible) /\ Len(visible) \in Nat /\ Len(Stale) \in Nat
      /\ Len(visible) <= Len(Stale)
  BY TrialNumbers DEF Script, ScriptTypes, Reported, TrialsCounted
<1> DEFINE last == samples - 1
           end == Len(visible) - 1
<1>2. IsFiniteSet(T) /\ Cardinality(T) = samples
  <2>1. 0 \in Int /\ last \in Int /\ (IF 0 > last THEN 0 ELSE last - 0 + 1) = samples
    BY <1>1
  <2> HIDE DEF last
  <2>2. IsFiniteSet(0 .. last) /\ Cardinality(0 .. last) = IF 0 > last THEN 0 ELSE last - 0 + 1
    BY <2>1, FS_Interval
  <2> QED BY <2>1, <2>2 DEF last
<1>3. IsFiniteSet(V) /\ Cardinality(V) = Len(visible) - samples
  <2>1. /\ samples \in Int /\ end \in Int
        /\ (IF samples > end THEN 0 ELSE end - samples + 1) = Len(visible) - samples
    BY <1>1
  <2> HIDE DEF end
  <2>2. /\ IsFiniteSet(samples .. end)
        /\ Cardinality(samples .. end) = IF samples > end THEN 0 ELSE end - samples + 1
    BY <2>1, FS_Interval
  <2> QED BY <2>1, <2>2 DEF end
<1>4. Cardinality(T) = CountOf(visible, TRUE) /\ Cardinality(V) = CountOf(visible, FALSE)
  BY <1>2, <1>3, Zenon DEF Reported, TrialsCounted
<1>5. S \in SUBSET (1 .. Len(csv)) /\ U \in SUBSET (1 .. Len(csv))
  BY DEF RowsOf
<1>6. ASSUME NEW i \in S PROVE Pos(csv[i]) + 0 \in T
  <2>1. i \in 1 .. Len(csv) /\ csv[i].test = "staleness" /\ csv[i].violation = ""
    BY DEF RowsOf
  <2> DEFINE p == Pos(csv[i])
  <2>2. p \in Int /\ p >= 0 /\ csv[i].violation = IF p < samples THEN "" ELSE "timeout"
    BY <2>1, LineOfFile
  <2> HIDE DEF p
  <2>3. p < samples
    <3>1. "timeout" # ""
      OBVIOUS
    <3> QED BY <2>1, <2>2, <3>1, Zenon
  <2>4. p + 0 \in T
    <3> HIDE DEF S
    <3>1. samples \in Nat /\ p \in Int /\ p >= 0
      BY <1>1, <2>2
    <3> QED BY <2>3, <3>1
  <2> QED BY <2>4 DEF p
<1>7. ASSUME NEW i \in U PROVE Pos(csv[i]) + 0 \in V
  <2>1. i \in 1 .. Len(csv) /\ csv[i].test = "staleness" /\ csv[i].violation = "timeout"
    BY DEF RowsOf
  <2> DEFINE p == Pos(csv[i])
  <2>2. /\ p \in Int /\ p < Len(Stale) /\ Len(visible) = Len(Stale)
        /\ csv[i].violation = IF p < samples THEN "" ELSE "timeout"
    BY <2>1, LineOfFile
  <2> HIDE DEF p
  <2>3. ~(p < samples)
    BY <2>1, <2>2
  <2>4. p + 0 \in V
    BY <1>1, <2>2, <2>3
  <2> QED BY <2>4 DEF p
<1>8. ASSUME pc = "done", intact, NEW t \in Nat, t < Len(visible)
      PROVE  \E i \in (IF t < samples THEN S ELSE U) : Pos(csv[i]) + 0 = t
  <2>1. t < appended /\ t < Len(Stale)
    <3>1. appended = Len(Stale) + Len(Chains) /\ Len(Chains) \in Nat
      BY <1>8, TrialLists DEF Reported, RowsFollow
    <3> QED BY <1>1, <1>8, <3>1
  <2>2. PICK i \in 1 .. Len(csv) : Pos(csv[i]) = t
    BY <1>8, <2>1, RowIsThere
  <2>3. csv[i] = LineAt(t)
    BY <2>2, LineOfFile
  <2>4. /\ t \in Int /\ t >= -1 /\ t # -1 /\ t + 0 = t
    OBVIOUS
  <2>5. LineAt(t).test = "staleness" /\ LineAt(t).violation = IF t < samples THEN "" ELSE "timeout"
    BY <2>1, <2>4, LineFacts, Zenon
  <2>6. i \in (IF t < samples THEN S ELSE U)
    BY <2>3, <2>5 DEF RowsOf
  <2> QED BY <2>2, <2>4, <2>6
<1>9. ASSUME pc = "done", intact
      PROVE  /\ \A t \in T : \E i \in S : Pos(csv[i]) + 0 = t
             /\ \A t \in V : \E i \in U : Pos(csv[i]) + 0 = t
  <2>1. /\ \A t \in T : t \in Nat /\ t < Len(visible) /\ t < samples
        /\ \A t \in V : t \in Nat /\ t < Len(visible) /\ ~(t < samples)
    BY <1>1
  <2> HIDE DEF S, T, U, V
  <2> QED BY <1>8, <1>9, <2>1
<1> HIDE DEF S, T, U, V
<1>10. /\ Cardinality(S) <= Cardinality(T) /\ Cardinality(U) <= Cardinality(V)
       /\ pc = "done" /\ intact => Cardinality(S) = Cardinality(T) /\ Cardinality(U) = Cardinality(V)
  BY <1>2, <1>3, <1>5, <1>6, <1>7, <1>9, CountRows
<1> QED BY <1>4, <1>10, Zenon DEF Rows, S, U

(* Rows of chains.                                                         *)
LEMMA ChainRowsAddUp ==
    ASSUME Script, Reported, NEW b \in BOOLEAN, NEW v, v = IF b THEN "1" ELSE "0"
    PROVE  /\ Rows("causal_chain", v) <= CountOf(trialViolations, b)
           /\ pc = "done" /\ intact => Rows("causal_chain", v) = CountOf(trialViolations, b)
<1> DEFINE S == RowsOf("causal_chain", v)
           l == Len(trialViolations)
           T == {j \in 1 .. l : trialViolations[j] = b}
           d == 1 - Len(Stale)
<1>1. /\ l \in Nat /\ Len(Stale) \in Nat /\ Len(Chains) \in Nat /\ d \in Int
      /\ \A j \in 1 .. l : trialViolations[j] \in BOOLEAN
  <2>1. trialViolations \in Seq(BOOLEAN)
    BY DEF Script, ScriptTypes
  <2> QED BY <2>1, TrialLists, ElementOfSeq, LenProperties
<1>2. IsFiniteSet(T)
  <2>1. IsFiniteSet(1 .. l)
    BY <1>1, FS_Interval
  <2> QED BY <2>1, FS_Subset
<1>3. S \in SUBSET (1 .. Len(csv))
  BY DEF RowsOf
<1>4. ASSUME NEW i \in S PROVE Pos(csv[i]) + d \in T
  <2> DEFINE j == Pos(csv[i]) + 1 - Len(Stale)
  <2>1. i \in 1 .. Len(csv) /\ csv[i].test = "causal_chain" /\ csv[i].violation = v
    BY DEF RowsOf
  <2>2. /\ Pos(csv[i]) \in Int /\ j \in 1 .. l
        /\ csv[i].violation = IF trialViolations[j] THEN "1" ELSE "0"
    BY <2>1, LineOfFile
  <2>3. Pos(csv[i]) + d = j
    BY <1>1, <2>2
  <2> HIDE DEF j
  <2>4. trialViolations[j] = b
    <3>1. trialViolations[j] \in BOOLEAN
      BY <1>1, <2>2
    <3> QED BY <2>1, <2>2, <3>1
  <2> QED BY <2>2, <2>3, <2>4
<1>5. ASSUME pc = "done", intact, NEW j \in T PROVE \E i \in S : Pos(csv[i]) + d = j
  <2> DEFINE t == j + Len(Stale) - 1
  <2>1. appended = Len(Stale) + Len(Chains) /\ l = Len(Chains)
    BY <1>5 DEF Reported, RowsFollow
  <2>2. j \in 1 .. l /\ trialViolations[j] = b
    OBVIOUS
  <2>3. /\ t \in Nat /\ t \in Int /\ t >= -1 /\ t < appended /\ t # -1 /\ ~(t < Len(Stale))
        /\ t - Len(Stale) + 1 = j /\ t + d = j
    BY <1>1, <2>1, <2>2
  <2> HIDE DEF t, T, S, d
  <2>4. PICK i \in 1 .. Len(csv) : Pos(csv[i]) = t
    BY <1>5, <2>3, RowIsThere
  <2>5. csv[i] = LineAt(t)
    BY <2>4, LineOfFile
  <2>6. /\ LineAt(t).test = "causal_chain"
        /\ LineAt(t).violation = IF trialViolations[t - Len(Stale) + 1] THEN "1" ELSE "0"
    BY <2>3, LineFacts, Zenon
  <2>7. csv[i].test = "causal_chain" /\ csv[i].violation = v
    BY <2>2, <2>3, <2>5, <2>6, Zenon
  <2>8. i \in S
    BY <2>7 DEF RowsOf, S
  <2> QED BY <2>3, <2>4, <2>8
<1>6. Rows("causal_chain", v) = Cardinality(S) /\ CountOf(trialViolations, b) = Cardinality(T)
  BY DEF Rows, CountOf
<1> HIDE DEF S, T, d
<1>7. /\ Cardinality(S) <= Cardinality(T)
      /\ pc = "done" /\ intact => Cardinality(S) = Cardinality(T)
  BY <1>1, <1>2, <1>3, <1>4, <1>5, CountRows
<1> QED BY <1>6, <1>7, Zenon

(* Whatever is lost of the CSV file unnoticed, it reports no trial twice   *)
(* and no outcome that did not happen, and every trial if nothing was lost *)
(* and the program has ended.                                              *)
THEOREM ReportIsExact == TrialsSpec => []ReportAddsUp
<1>1. ASSUME Script, Reported PROVE ReportAddsUp
  <2>1. csv \in Seq(Row) /\ Len(csv) \in Nat /\ Len(Stale) \in Nat
    BY <1>1, TrialLists, LenProperties DEF Reported, FileFits
  <2>2. \A i, j \in 1 .. Len(csv) : i < j => Pos(csv[i]) < Pos(csv[j])
    BY <1>1 DEF Reported, FileFits, Ordered
  <2>3. \A i \in 1 .. Len(csv) :
            Pos(csv[i]) \in Int /\ Pos(csv[i]) >= -1 /\ csv[i] \in Row
    BY <1>1, LineOfFile
  <2>4. ASSUME NEW i \in 1 .. Len(csv), csv[i] = Header PROVE i = 1
    <3>1. Pos(csv[i]) = -1
      <4>1. Header.test = "header"
        BY DEF Header
      <4> QED BY <2>4, <4>1 DEF Pos
    <3>2. 1 \in 1 .. Len(csv) /\ (i # 1 => 1 < i)
      BY <2>1
    <3> QED BY <2>2, <2>3, <3>1, <3>2
  <2>5. ASSUME NEW i \in 1 .. Len(csv), NEW j \in 1 .. Len(csv), i < j, csv[i].test = csv[j].test
        PROVE  csv[i].trial < csv[j].trial
    <3>1. csv[i].trial \in Int /\ csv[j].trial \in Int
      BY <2>3 DEF Row
    <3>2. Pos(csv[i]) < Pos(csv[j])
      BY <2>2, <2>5
    <3> QED BY <2>1, <2>5, <3>1, <3>2 DEF Pos
  <2>6. /\ Rows("staleness", "") <= CountOf(visible, TRUE)
        /\ Rows("staleness", "timeout") <= CountOf(visible, FALSE)
        /\ pc = "done" /\ intact =>
              /\ Rows("staleness", "") = CountOf(visible, TRUE)
              /\ Rows("staleness", "timeout") = CountOf(visible, FALSE)
    BY <1>1, StaleRowsAddUp, Zenon
  <2>7. /\ Rows("causal_chain", "1") <= CountOf(trialViolations, TRUE)
        /\ pc = "done" /\ intact => Rows("causal_chain", "1") = CountOf(trialViolations, TRUE)
    <3>1. TRUE \in BOOLEAN /\ "1" = IF TRUE THEN "1" ELSE "0"
      OBVIOUS
    <3> QED BY <1>1, <3>1, ChainRowsAddUp, Zenon
  <2>8. /\ Rows("causal_chain", "0") <= CountOf(trialViolations, FALSE)
        /\ pc = "done" /\ intact => Rows("causal_chain", "0") = CountOf(trialViolations, FALSE)
    <3>1. FALSE \in BOOLEAN /\ "0" = IF FALSE THEN "1" ELSE "0"
      OBVIOUS
    <3> QED BY <1>1, <3>1, ChainRowsAddUp, Zenon
  <2> QED BY <2>4, <2>5, <2>6, <2>7, <2>8, Zenon DEF ReportAddsUp
<1> QED BY <1>1, ReportInvariant, PTL
============================================================================
