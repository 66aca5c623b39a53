----------------------------- MODULE Benchmark -----------------------------
(***************************************************************************)
(* The benchmark program (cmd/bench, bench/) against a cluster in eventual *)
(* mode: it reads a workload, loads the records, makes the operations one  *)
(* after the other and appends a row to the summary file.  Proportions are *)
(* in hundredths.  An operation that fails is counted and the run goes on; *)
(* a Put that fails in the load phase ends the program.                    *)
(***************************************************************************)
EXTENDS EventualCluster, Summary

CONSTANTS
    Bench,       \* the program's client
    Workloads,   \* what the workload file may hold
    KeyFor,      \* the key of each record, 0, 1, ...
    HashBits,    \* 64, the width of fnvHash64
    Hash,        \* fnvHash64 of a record's index: any function will do
    Latency,     \* how long an operation may take
    NoFile       \* the summary file does not exist

ASSUME BenchAssumption == Bench \in Client
ASSUME LatencyAssumption == Latency \subseteq Nat
ASSUME WorkloadsAssumption ==
    \A w \in Workloads :
        /\ w.recordCount \in Int /\ w.operationCount \in Int /\ w.fieldLength \in Int
        /\ \A i \in 0 .. w.recordCount - 1 : KeyFor[i] \in Key
        /\ \A i \in 0 .. w.recordCount - 1 : Hash[i] \in 0 .. 2 ^ HashBits - 1
ASSUME HashBitsAssumption == HashBits \in Nat \ {0}

VARIABLES
    stage,       \* "start", "load", "run", "done" or "fatal"
    wl,          \* driver.Workload
    next,        \* i of the loop over the records or the operations
    pending,     \* what RPC is under way: "read", "write", "unsent", or "none"
    res,         \* Reads, Writes and Errors of the Result
    latencies,
    loaded,      \* history: the load phase was not skipped
    csv          \* --output: NoFile, or a header and a Result a row

benchVars == <<stage, wl, next, pending, res, latencies, loaded, csv>>
benchAllVars == <<vars, benchVars>>

Header == [title |-> "operations, reads, writes, ..."]

BenchInit ==
    /\ Init
    /\ stage = "start"
    /\ wl \in Workloads
    /\ next = 0
    /\ pending = "none"
    /\ res = [reads |-> 0, writes |-> 0, errors |-> 0]
    /\ latencies = <<>>
    /\ loaded = FALSE
    /\ csv \in {NoFile, <<>>, <<Header>>}

----------------------------------------------------------------------------
(* Plausible mistakes.                                                     *)

ValidateLengthUnchecked(w) ==
    /\ w.recordCount > 0
    /\ w.operationCount > 0
    /\ w.read + w.update + w.insert \in 99 .. 101
    /\ w.distribution \in {"uniform", "zipfian"}

(* int(hash) % n, where the conversion makes a hash with its top bit set   *)
(* negative and Go's remainder takes the sign over.                        *)
PickKeySigned(w) ==
    LET n == w.recordCount
        SignedRem(h) == IF h < 2 ^ (HashBits - 1) THEN h % n
                     ELSE -((2 ^ HashBits - h) % n)
    IN  IF w.distribution = "zipfian" /\ n > 1
        THEN {SignedRem(Hash[i]) : i \in 0 .. n - 1}
        ELSE 0 .. n - 1

(* break instead of going on: the operation is in Reads or Writes, its     *)
(* latency is not taken.                                                   *)
LatencyOfSuccess(failed, took) ==
    latencies' = IF failed THEN latencies ELSE Append(latencies, took)

----------------------------------------------------------------------------
(* Workload.Validate                                                       *)
Validate(w) ==
    /\ w.recordCount > 0
    /\ w.operationCount > 0
    /\ w.read + w.update + w.insert \in 99 .. 101
    /\ w.fieldLength > 0
    /\ w.distribution \in {"uniform", "zipfian"}

(* The bytes Load and Run put: FieldLength of them.                        *)
Payloads == IF wl.fieldLength = 0 THEN {Empty} ELSE Data \ {Empty}

(* pickOperation, for some r in [0, 1): insert is what the first two       *)
(* proportions leave, whatever the third says.                             *)
PickOperation(w) ==
    {op \in {"read", "update", "insert"} :
        CASE op = "read" -> w.read > 0
          [] op = "update" -> w.read < 100 /\ w.update > 0
          [] op = "insert" -> w.read + w.update < 100}

(* zipfianIndex: float64(n) * u^(1/theta), truncated, for some u in [0, 1).*)
(* It may round up to n, whence the clamp.                                 *)
ZipfianIndex(n) ==
    IF n <= 1 THEN {0} ELSE {IF idx >= n THEN n - 1 ELSE idx : idx \in 0 .. n}

(* scrambledZipfianIndex: the remainder is taken of the unsigned hash, so  *)
(* that the conversion to int sees a number below n.                       *)
ScrambledZipfianIndex(n) ==
    IF n <= 1 THEN {0} ELSE {Hash[raw] % n : raw \in ZipfianIndex(n)}

(* pickKey: the indices Rand may lead to; Intn(n) is one of 0 .. n - 1.    *)
PickKey(w) ==
    IF w.distribution = "zipfian" THEN ScrambledZipfianIndex(w.recordCount)
    ELSE 0 .. w.recordCount - 1

(* LoadWorkload, and main up to the load phase.                            *)
Start ==
    /\ stage = "start"
    /\ stage' \in IF Validate(wl) THEN {"load", "run"} ELSE {"fatal"}
    /\ loaded' = (stage' = "load")
    /\ UNCHANGED <<vars, wl, next, pending, res, latencies, csv>>

(* Load: the Put of a record, once the one before has returned.            *)
LoadPut(now) ==
    /\ stage = "load"
    /\ next < wl.recordCount
    /\ \E x \in Payloads : Stamp(Bench, KeyFor[next], x, now)
    /\ next' = next + 1
    /\ UNCHANGED <<stage, wl, pending, res, latencies, loaded, csv>>

(* A Put fails before or after it reached the node.                        *)
LoadFails(now) ==
    /\ stage = "load"
    /\ \/ Lossy
       \/ call[Bench] = Idle /\ next < wl.recordCount /\ SendFails(clock[Home[Bench]], now)
    /\ stage' = "fatal"
    /\ UNCHANGED <<vars, wl, next, pending, res, latencies, loaded, csv>>

LoadEnds ==
    /\ stage = "load"
    /\ next = wl.recordCount
    /\ call[Bench] = Idle
    /\ stage' = "run"
    /\ next' = 0
    /\ UNCHANGED <<vars, wl, pending, res, latencies, loaded, csv>>

----------------------------------------------------------------------------
Picks(op) ==
    /\ stage = "run"
    /\ next < wl.operationCount
    /\ pending = "none"
    /\ op \in PickOperation(wl)

(* Run begins an operation.  A Get changes nothing at the node.            *)
BeginGet ==
    /\ Picks("read")
    /\ pending' = "read"
    /\ UNCHANGED <<vars, stage, wl, next, res, latencies, loaded, csv>>

(* A Put that follows one whose RPC failed while the node still works on   *)
(* it is stamped after that one has been stored: the node has one handler  *)
(* per client here.                                                        *)
BeginPut(op, i, now) ==
    /\ Picks(op)
    /\ i \in PickKey(wl)
    /\ \E x \in Payloads : Stamp(Bench, KeyFor[i], x, now)
    /\ pending' = "write"
    /\ UNCHANGED <<stage, wl, next, res, latencies, loaded, csv>>

(* A Put the node cannot stamp, or that never reaches it.                  *)
BeginPutFailing(op, now) ==
    /\ Picks(op)
    /\ Lossy \/ (call[Bench] = Idle /\ SendFails(clock[Home[Bench]], now))
    /\ pending' = "unsent"
    /\ UNCHANGED <<vars, stage, wl, next, res, latencies, loaded, csv>>

RecordLatency(failed, took) == latencies' = Append(latencies, took)

(* The RPC returns, with an error if it was not served or was lost on the  *)
(* way back; the operation is counted either way.                          *)
EndOperation(failed, took) ==
    /\ pending # "none"
    /\ ~failed => pending # "unsent" /\ call[Bench] = Idle
    /\ failed => Lossy \/ pending = "unsent"
    /\ RecordLatency(failed, took)
    /\ res' = [reads |-> res.reads + IF pending = "read" THEN 1 ELSE 0,
               writes |-> res.writes + IF pending = "read" THEN 0 ELSE 1,
               errors |-> res.errors + IF failed THEN 1 ELSE 0]
    /\ next' = next + 1
    /\ pending' = "none"
    /\ UNCHANGED <<vars, stage, wl, loaded, csv>>

(* Run returns, WriteSummaryCSV appends the row, after a header if there   *)
(* was no file; one that an earlier program left empty gets none.          *)
WriteSummaryCSV ==
    /\ stage = "run"
    /\ next = wl.operationCount
    /\ csv' = (IF csv = NoFile THEN <<Header>> ELSE csv)
                \o <<[operations |-> next, counts |-> res, latency |-> Summarize(latencies)]>>
    /\ stage' = "done"
    /\ UNCHANGED <<vars, wl, next, pending, res, latencies, loaded>>

(* The file cannot be opened or written: main ends.  What may be in it     *)
(* then is left out.                                                       *)
SummaryFails ==
    /\ stage = "run"
    /\ next = wl.operationCount
    /\ stage' = "fatal"
    /\ UNCHANGED <<vars, wl, next, pending, res, latencies, loaded, csv>>

(* The cluster completes the calls under way and replicates.               *)
ClusterRuns ==
    /\ \/ StoreThenReplicate(Bench)
       \/ Deliver
       \/ \E m \in wire : Lose(m)
    /\ UNCHANGED benchVars

Finished == stage \in {"done", "fatal"} /\ Quiescent /\ UNCHANGED benchAllVars

BenchNext ==
    \/ Start
    \/ \E now \in Wall : LoadPut(now) \/ LoadFails(now)
    \/ LoadEnds
    \/ BeginGet
    \/ \E op \in {"update", "insert"}, now \in Wall :
          \/ BeginPutFailing(op, now)
          \/ \E i \in PickKey(wl) : BeginPut(op, i, now)
    \/ \E failed \in BOOLEAN, took \in Latency : EndOperation(failed, took)
    \/ WriteSummaryCSV \/ SummaryFails
    \/ ClusterRuns
    \/ Finished

BenchSpec == BenchInit /\ [][BenchNext]_benchAllVars

----------------------------------------------------------------------------
Records == {KeyFor[i] : i \in 0 .. wl.recordCount - 1}

(* No replica ever takes a record for deleted, and after the load phase    *)
(* the target finds every record, whatever the operations did since:       *)
(* Validate keeps out the length 0 that Replicate reads as a deletion.     *)
RecordsStay ==
    /\ \A n \in Node, k \in Key : data[n][k] # Missing => Found(data[n], k)
    /\ loaded /\ stage \in {"run", "done"} =>
          \A k \in Records : Found(data[Home[Bench]], k)

(* Run measures hits: from the end of the load phase on the target finds   *)
(* every record pickKey may come up with, for reads, updates and inserts   *)
(* alike, whatever the hash and while Puts are late or have failed.        *)
RunHitsRecords ==
    loaded /\ stage = "run" =>
        \A i \in PickKey(wl) :
            KeyFor[i] \in Records /\ Found(data[Home[Bench]], KeyFor[i])

(* A finished run reports every operation once, with one latency each, and *)
(* the writes it counts beyond its errors are those the node has stamped:  *)
(* no failed or late RPC is counted twice or left out.                     *)
ResultAddsUp ==
    stage = "done" =>
        LET row == csv[Len(csv)]
            stamped == Cardinality(writes) - IF loaded THEN wl.recordCount ELSE 0
        IN  /\ row.operations = wl.operationCount
            /\ row.counts.reads + row.counts.writes = row.operations
            /\ Len(latencies) = row.operations
            /\ stamped \in row.counts.writes - row.counts.errors .. row.counts.writes

(* v is the p-th percentile of the latencies by rank: at most that share   *)
(* of the other operations was faster, and more than it was no slower.     *)
IsPercentile(v, p) ==
    LET share == (Len(latencies) - 1) * p
        faster == {i \in 1 .. Len(latencies) : latencies[i] < v}
        noSlower == {i \in 1 .. Len(latencies) : latencies[i] <= v}
    IN  100 * Cardinality(faster) <= share /\ share < 100 * Cardinality(noSlower)

(* The reported percentiles are those of the latencies measured, and the   *)
(* experiments' own sort gives the same ones.                              *)
PercentilesExact ==
    stage = "done" =>
        LET lat == csv[Len(csv)].latency
        IN  /\ IsPercentile(lat.p50, 50) /\ PercentileOf(latencies, 50) = lat.p50
            /\ IsPercentile(lat.p95, 95) /\ PercentileOf(latencies, 95) = lat.p95
            /\ IsPercentile(lat.p99, 99) /\ PercentileOf(latencies, 99) = lat.p99
============================================================================
