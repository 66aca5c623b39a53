---------------------------- MODULE Experiments ----------------------------
(***************************************************************************)
(* The experiments program (--test=all) on a cluster in causal mode:       *)
(* staleness trials, then causal-chain trials, with their rows in the CSV  *)
(* file.  A staleness trial puts a fresh value at the origin and polls the *)
(* replica until the value is there or its deadline passes.  A chain trial *)
(* puts A, gets A and puts B at the origin and polls the replica, B before *)
(* A, until B is there or the window ends; it is a violation if B is there *)
(* and A is not.  The program's clients are ordinary ones: their Gets are  *)
(* recorded by the nodes' read trackers.                                   *)
(*                                                                         *)
(* --test=staleness and --test=causal are the two halves.  How long a      *)
(* value took is not kept; Summary has the mean and the percentile.        *)
(***************************************************************************)
EXTENDS CausalCluster

CONSTANTS
    Writer,       \* the client of the experiment at --origin
    Poller,       \* its client at --replica
    ValA, ValB,
    Stale,        \* the key of each staleness trial, in order
    Chains        \* keyA and keyB of each chain trial, in order

(* The experiment has the cluster to itself.                               *)
ASSUME ClientAssumption == Client = {Writer, Poller} /\ Writer # Poller

(* No value it puts is empty.                                              *)
ASSUME ValAssumption == ValA \in Data \ {Empty} /\ ValB \in Data \ {Empty}
ASSUME StaleAssumption == Stale \in Seq(Key)
ASSUME ChainsAssumption == Chains \in Seq([a : Key, b : Key])

(* keyB of a trial is no other key of the experiment.                      *)
ASSUME KeysAssumption ==
    \A i \in 1 .. Len(Chains) :
        /\ \A j \in 1 .. Len(Chains) :
              Chains[i].b # Chains[j].a /\ (Chains[i].b = Chains[j].b => i = j)
        /\ \A j \in 1 .. Len(Stale) : Chains[i].b # Stale[j]

VARIABLES
    pc,               \* what the experiment asks for next
    resp,             \* respA and respB of this round of polling
    samples,          \* len(samples) of MeasureStaleness
    visible,          \* visible of each staleness trial so far
    trialViolations,  \* res.TrialViolations
    exists,           \* whether there is a file --output
    csv,              \* the complete lines of it
    cut,              \* whether it ends in the middle of a line
    appended,         \* how many rows appendTrialRow has been called with
    intact            \* history: no line was lost

outcomes == <<samples, visible, trialViolations>>
file == <<exists, csv, cut, appended, intact>>
scriptVars == <<pc, resp, outcomes, file>>
allVars == <<vars, scriptVars>>

NoResp == [a |-> Missing, b |-> Missing]

Header == [test |-> "header", trial |-> 0, value |-> "", violation |-> ""]

(* There is no file, or one an earlier run has left with its header or     *)
(* without; the rows of earlier runs are left out.                         *)
TrialsInit ==
    /\ Init
    /\ pc = "putS"
    /\ resp = NoResp
    /\ samples = 0
    /\ visible = <<>>
    /\ trialViolations = <<>>
    /\ exists \in BOOLEAN
    /\ csv \in IF exists THEN {<<>>, <<Header>>} ELSE {<<>>}
    /\ cut \in IF exists THEN BOOLEAN ELSE {FALSE}
    /\ appended = 0
    /\ intact = ~cut

StaleKey == Stale[Len(visible) + 1]
Chain == Chains[Len(trialViolations) + 1]

----------------------------------------------------------------------------
(* Plausible mistakes.                                                     *)

(* A is polled before B.                                                   *)
PollTurnSwapped(which) == IF which = "a" THEN "poll1" ELSE "poll2"

(* The rows of the timeouts begin one too late.                            *)
StaleRowOffByOne(i) ==
    [test |-> "staleness", trial |-> i,
     value |-> IF i < samples THEN "ms" ELSE "",
     violation |-> IF i <= samples THEN "" ELSE "timeout"]

(* The trial also asks the origin.                                         *)
StaleFoundAnywhere == \E n \in Node : Visible(data[n], StaleKey) = ValA

----------------------------------------------------------------------------
(* Node.Get of client c; a key that is not found leaves no trace.          *)
GetBy(c, k) ==
    \/ GetRead(c, k)
    \/ call[c] = Idle /\ ~Found(data[Home[c]], k) /\ UNCHANGED vars

(* appendTrialRow, where main ends if the file cannot be opened.  A new    *)
(* file gets the header along with its first row.  Nobody looks whether    *)
(* Flush wrote all of it: it may stop after some lines or in the middle of *)
(* one, and the next line then continues the broken one.                   *)
AppendTrialRow(row) ==
    LET lines == IF exists THEN <<row>> ELSE <<Header, row>>
    IN  \/ pc' = "error" /\ UNCHANGED file
        \/ \E n \in 0 .. Len(lines), part \in BOOLEAN :
              /\ part => n < Len(lines)
              /\ csv' = csv \o SubSeq(lines, IF cut THEN 2 ELSE 1, n)
              /\ cut' = (part \/ (cut /\ n = 0))
              /\ intact' = (intact /\ n = Len(lines))
              /\ exists' = TRUE
              /\ appended' = appended + 1
              /\ pc' = pc

(* Row i of runStaleness: first a row per sample, then one per timeout.    *)
StaleRow(i) ==
    [test |-> "staleness", trial |-> i,
     value |-> IF i < samples THEN "ms" ELSE "",
     violation |-> IF i < samples THEN "" ELSE "timeout"]

ChainRow(i) ==
    [test |-> "causal_chain", trial |-> i, value |-> "",
     violation |-> IF trialViolations[i + 1] THEN "1" ELSE "0"]

(* MeasureStaleness: the Put of a trial.                                   *)
PutStale(now) ==
    /\ pc = "putS"
    /\ Len(visible) < Len(Stale)
    /\ call[Poller] = Idle
    /\ Stamp(Writer, StaleKey, ValA, now)
    /\ pc' = "pollS"
    /\ UNCHANGED <<resp, outcomes, file>>

(* The value is there for the client that asks.                            *)
StaleFound == Visible(data[Home[Poller]], StaleKey) = ValA

(* One Get of its polling, which ends the trial if the value is there.     *)
PollStale ==
    /\ pc = "pollS"
    /\ call[Writer] = Idle
    /\ GetBy(Poller, StaleKey)
    /\ samples' = IF StaleFound THEN samples + 1 ELSE samples
    /\ visible' = IF StaleFound THEN Append(visible, TRUE) ELSE visible
    /\ pc' = IF StaleFound THEN "putS" ELSE "pollS"
    /\ UNCHANGED <<resp, trialViolations, file>>

(* The deadline passes between two Gets.                                   *)
StaleTimeout ==
    /\ pc = "pollS"
    /\ call[Writer] = Idle /\ call[Poller] = Idle
    /\ visible' = Append(visible, FALSE)
    /\ pc' = "putS"
    /\ UNCHANGED <<vars, resp, samples, trialViolations, file>>

(* runStaleness writes its rows one by one, and runCausal begins.          *)
ReportStale ==
    /\ pc = "putS"
    /\ Len(visible) = Len(Stale)
    /\ call[Poller] = Idle
    /\ \/ appended < Len(Stale) /\ AppendTrialRow(StaleRow(appended))
       \/ appended = Len(Stale) /\ pc' = "putA" /\ UNCHANGED file
    /\ UNCHANGED <<vars, resp, outcomes>>

(* pollCausalViolation asks for B first.                                   *)
PollTurn(which) == IF which = "b" THEN "poll1" ELSE "poll2"

(* Put of A: the cluster completes it before the writer's next call.       *)
PutA(now) ==
    /\ pc = "putA"
    /\ Len(trialViolations) < Len(Chains)
    /\ Stamp(Writer, Chain.a, ValA, now)
    /\ pc' = "getA"
    /\ UNCHANGED <<resp, outcomes, file>>

GetA ==
    /\ pc = "getA"
    /\ GetBy(Writer, Chain.a)
    /\ pc' = "putB"
    /\ UNCHANGED <<resp, outcomes, file>>

PutB(now) ==
    /\ pc = "putB"
    /\ Stamp(Writer, Chain.b, ValB, now)
    /\ pc' = "poll1"
    /\ UNCHANGED <<resp, outcomes, file>>

(* A request fails, because the clock overflows or before it reaches the   *)
(* node: the error is returned, and main ends without a row of this test.  *)
RequestFails(now) ==
    /\ \/ pc = "putS" /\ Len(visible) < Len(Stale)
       \/ pc = "putA" /\ Len(trialViolations) < Len(Chains)
       \/ pc \in {"pollS", "getA", "putB"}
    /\ call[Writer] = Idle /\ call[Poller] = Idle
    /\ Lossy \/ (pc \in {"putS", "putA", "putB"} /\ SendFails(clock[Home[Writer]], now))
    /\ pc' = "error"
    /\ UNCHANGED <<vars, resp, outcomes, file>>

(* One Get of a round of polling, once the Put of B has returned.          *)
Poll(which) ==
    /\ pc = PollTurn(which)
    /\ call[Writer] = Idle
    /\ GetBy(Poller, Chain[which])
    /\ resp' = [resp EXCEPT ![which] = Visible(data[Home[Poller]], Chain[which])]
    /\ pc' = IF pc = "poll1" THEN "poll2" ELSE "judge"
    /\ UNCHANGED <<outcomes, file>>

EndTrial(violated) ==
    /\ trialViolations' = Append(trialViolations, violated)
    /\ pc' = "putA"
    /\ resp' = NoResp
    /\ UNCHANGED <<vars, samples, visible, file>>

(* B is there: the verdict.                                                *)
Judge ==
    /\ pc = "judge"
    /\ call[Poller] = Idle
    /\ resp.b = ValB
    /\ EndTrial(resp.a # ValA)

(* B is not there: another round in 2 ms.                                  *)
PollAgain ==
    /\ pc = "judge"
    /\ call[Poller] = Idle
    /\ resp.b # ValB
    /\ pc' = "poll1"
    /\ resp' = NoResp
    /\ UNCHANGED <<vars, outcomes, file>>

(* The window ends before a round, or a Get of it fails: no violation.     *)
StopPolling ==
    /\ pc \in {"poll1", "poll2"}
    /\ call[Writer] = Idle
    /\ EndTrial(FALSE)

(* The cluster completes the calls under way and replicates.               *)
ClusterStep ==
    /\ \/ \E c \in Client : Continue(c)
       \/ Deliver
       \/ \E m \in wire : Lose(m)
    /\ UNCHANGED scriptVars

(* runCausal writes its rows after those of runStaleness.                  *)
ReportChains ==
    LET row == appended - Len(Stale)
    IN  /\ pc = "putA"
        /\ Len(trialViolations) = Len(Chains)
        /\ \/ row < Len(Chains) /\ AppendTrialRow(ChainRow(row))
           \/ row = Len(Chains) /\ pc' = "done" /\ UNCHANGED file
        /\ UNCHANGED <<vars, resp, outcomes>>

Finished == pc \in {"done", "error"} /\ Quiescent /\ UNCHANGED allVars

TrialsNext ==
    \/ \E now \in Wall : PutStale(now) \/ PutA(now) \/ PutB(now) \/ RequestFails(now)
    \/ PollStale \/ StaleTimeout \/ ReportStale
    \/ GetA
    \/ \E which \in {"a", "b"} : Poll(which)
    \/ Judge \/ PollAgain \/ StopPolling \/ ReportChains
    \/ ClusterStep
    \/ Finished

TrialsSpec == TrialsInit /\ [][TrialsNext]_allVars

----------------------------------------------------------------------------
(* In causal mode no trial ever counts a violation, however late A is      *)
(* replicated, whatever is lost, and although A may arrive between the two *)
(* Gets of a round: B is held until A is visible, and B is asked for       *)
(* first.                                                                  *)
NoTrialViolated ==
    \A i \in 1 .. Len(trialViolations) : ~trialViolations[i]

(* The replica never shows the value of B without the value of A of the    *)
(* same trial, at any instant, polled or not.                              *)
ChainVisible ==
    \A i \in 1 .. Len(Chains) :
        LET d == data[Home[Poller]]
        IN  Visible(d, Chains[i].b) = ValB => Visible(d, Chains[i].a) = ValA

(* A staleness trial counts as visible only if the replica itself shows    *)
(* the value it put, then and ever after: samples are never taken from the *)
(* origin, an earlier trial or a value that goes away again.               *)
SamplesStayVisible ==
    \A i \in 1 .. Len(visible) :
        visible[i] => Visible(data[Home[Poller]], Stale[i]) = ValA

RowsOf(test, violation) ==
    {i \in 1 .. Len(csv) : csv[i].test = test /\ csv[i].violation = violation}

CountOf(seq, b) == Cardinality({i \in 1 .. Len(seq) : seq[i] = b})

Rows(test, violation) == Cardinality(RowsOf(test, violation))

(* What the analysis of the CSV file may rely on, although flushes fail    *)
(* unnoticed and the rows of the samples come first and do not carry the   *)
(* number of their trial: a header can only be the first line, no trial is *)
(* reported twice, and there are never more samples, timeouts, violations  *)
(* or clean chains than trials that ended so.  All trials are in the file  *)
(* if the program has ended and no line was lost.                          *)
ReportAddsUp ==
    LET visibleRows == Rows("staleness", "")
        timeoutRows == Rows("staleness", "timeout")
        violatedRows == Rows("causal_chain", "1")
        cleanRows == Rows("causal_chain", "0")
    IN  /\ \A i \in 1 .. Len(csv) : csv[i] = Header => i = 1
        /\ \A i, j \in 1 .. Len(csv) :
              i < j /\ csv[i].test = csv[j].test => csv[i].trial < csv[j].trial
        /\ visibleRows <= CountOf(visible, TRUE)
        /\ timeoutRows <= CountOf(visible, FALSE)
        /\ violatedRows <= CountOf(trialViolations, TRUE)
        /\ cleanRows <= CountOf(trialViolations, FALSE)
        /\ pc = "done" /\ intact =>
              /\ visibleRows = CountOf(visible, TRUE)
              /\ timeoutRows = CountOf(visible, FALSE)
              /\ violatedRows = CountOf(trialViolations, TRUE)
              /\ cleanRows = CountOf(trialViolations, FALSE)
============================================================================
