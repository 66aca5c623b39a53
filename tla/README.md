# TLA+ verification of the distributed key-value store

The repository is a small replicated key-value store in Go with three
consistency modes (eventual, causal, strong), chosen once at start-up, and the
tools around it: a consistency checker, an experiment runner and a YCSB-style
benchmark. These modules model the store itself, that is the hybrid logical
clock, the per-node map, the causal buffer, the read tracker, the three
replication handlers, the four RPC handlers and the end of a node's process, and
beside a running cluster the consistency checker, the experiments and the
benchmark. TLC checks them on small
instances. TLAPS proves the central safety properties for every instance.

All paths below are relative to the repository root.

## 1. Inventory

| Component | State | Operations | Talks to |
|---|---|---|---|
| Hybrid logical clock, `internal/hlc/hlc.go` | `l`, `c` under a mutex | `New`, `Now`, `Send`, `Receive`, `Compare` | wall clock |
| Store, `internal/store/store.go` | map key -> value, timestamp, tombstone, under an RWMutex | `Put`, `Delete` (unconditional), `Apply`, `ApplyDelete` (last write wins), `Get`, `GetVersion` | clock order |
| Causal buffer, `internal/buffer/buffer.go` | `held`, the writes whose dependencies are not met | `Receive`, `depsSatisfied`, `applyLocked`, `drainLocked` | store, one lock per call |
| Read tracker, `internal/server/node.go` | `reads`, one slice per node | `Record`, `SnapshotAndClear` | all clients of the node |
| Node server, `internal/server/node.go` | the four above | RPCs `Put`, `Get`, `Delete`, `Replicate` | clients, peers |
| Replication handlers, `internal/replication/replication.go` | peers, quorum | three `OnWrite`, `buildReplicateRequest`, `NewHandler` | peers, by RPC |
| Node process, `cmd/node/main.go` | connections | `dialPeers`, serve, `GracefulStop` | operator |
| Checker, `internal/checker`, `cmd/checker` | none | `CheckKeys`, `WaitForConvergence` | nodes, by `Get` |
| Experiments, `internal/experiments`, `cmd/experiments` | samples, violations, CSV rows | `MeasureStaleness`, `MeasureCausalChains`, `appendTrialRow` | nodes |
| Benchmark, `bench`, `cmd/bench` | workload, counts, latencies, CSV rows | `Validate`, `Load`, `Run`, `summarize`, `WriteSummaryCSV` | nodes |
| Scripts and analysis, `scripts`, `analysis` | none of the system's | end-to-end runs, plots | programs |

How a write travels: `Put` takes a timestamp from the clock, in causal mode
takes the recorded reads from the tracker, and then either stores and starts one
goroutine per peer (eventual, causal) or calls every peer, waits for all of
them, and stores if enough said yes (strong). A peer's `Replicate` merges the
timestamp into its clock and then applies the value by last write wins, in causal
mode through the buffer.

What is hard, and therefore what the properties are about:

* A handler is several critical sections (clock, tracker, store, one RPC per
  peer) with no lock over the whole, so anything may run between two of them.
* The local store is unconditional while the replicated one is last write wins.
* RPCs are delivered in any order, are never retried, and in strong mode may be
  served after the call that sent them has ended.
* The buffer holds its own mutex but takes the store's anew for every access,
  and rebuilds `held` in several passes.
* Wall clocks are skewed and may step back; the logical counter is bounded.
* A node that is stopped finishes its handlers but not its replication goroutines.
* The tools report what they saw through failing RPCs, deadlines and files that are
  not written: counts, rows and percentiles have to add up all the same.
* The checker and the experiments read one node after the other, or one key after
  the other, while the cluster moves: what they compare is never one snapshot.

`PROJECT.json` lists each hazard at its line, with the properties that would
notice it.

## 2. Modules and their correspondence to the code

```
HLC  <-  HLCClocks                                clocks alone
HLC  <-  Store  <-  Replica  <-  LastWriteWins    abstract: what a replica promises
                             <-  QuorumStore      abstract: what strong mode promises
                             <-  EventualCluster  Put/Delete/Replicate, eventual
                             <-  StrongCluster    ... strong
                             <-  CausalCluster    ... causal, Get, buffer, tracker
EventualCluster           <-  NodeProcess         signals, GracefulStop
EventualCluster           <-  Checker             CheckKeys, WaitForConvergence
EventualCluster, Summary  <-  Benchmark           Load, Run, WriteSummaryCSV
CausalCluster             <-  Experiments         staleness and chain trials
EventualCluster, CausalCluster, StrongCluster  ==>  LastWriteWins   (refinement)
StrongCluster                                  ==>  QuorumStore
```

* **HLC**: the clock as operators. `Send`/`Receive` give the clock after the
  call, `SendFails`/`ReceiveFails` say when the call returns an error and leaves
  it alone. The wall reading is a parameter chosen freely from `Wall`. In
  `Receive` the order of the `switch` is kept: with equal wall parts the
  message's logical counter is ignored.
* **HLCClocks**: nodes that call `Send` and `Receive` in any order, with
  histories of what was issued, heard and read from the wall clock.
* **Store**: the methods of the map as operators on a function. A value is its
  payload, tombstone flag and timestamp. The extra field `by` (whose call wrote
  it) is auxiliary and guards nothing.
* **Replica**: what the modes share. `Dialled` gives each node the peers that
  `dialPeers` could make a client for, any relation without a node being its own
  peer; the runs use the full mesh, or one link that is missing, the proofs any.
  That no node is its own peer and none is listed twice is a condition on `--peers`,
  which `docker-compose.yml` meets and `dialPeers` does not check.
  `ReplicateRequest` drops the `Deleted` flag, as `buildReplicateRequest` does;
  `Decode` restores it as "the payload has length zero", as `Replicate` does.
* **LastWriteWins**: the abstract specification. A node without clients is a
  register per key that moves from an issued write to a later one and shows the
  payload of length zero as deleted; a node issues no timestamp twice. There are
  no clocks, messages, locks or buffers in it. `EventualCluster` and `CausalCluster`
  instantiate it (`LWW`), with `issued` the stamped writes and `view` the stores of the nodes
  without clients, and state `ImplementsLastWriteWins == LWW!Spec`.
* **QuorumStore**: the abstract specification of strong mode, without clocks, RPCs,
  results or calls. A node issues a write with a timestamp it has not given before;
  peers may accept it as a later version; its own node stores it, whatever it holds,
  and acknowledges it once most of its group, itself counted, has installed it; no node installs a
  write twice. `StrongCluster` states `ImplementsQuorumStore == QS!Spec`.
* **EventualCluster**: `Stamp` (up to `Clock.Send`), `StoreThenReplicate` (the
  store, and the start of the goroutines), `Serve`/`ServeError` (up to
  `Clock.Receive`), `ServeApply` (the store), `Lose` (a failed RPC).
* **StrongCluster**: `StampAndReplicate`, `Serve`, `ServeError` and `ServeApply`
  with their response, `Answer`, `CallFails` (an RPC ends in an error while its
  request or response may still travel), `Drop`, and `Commit`/`Abort` once
  `wg.Wait` has returned. `Hung` peers never answer.
* **CausalCluster**: a write is `Stamp`, `AttachDeps` (`SnapshotAndClear`),
  `StoreThenReplicate`; a read is `GetRead`, `GetRecord`. `Buffer.Receive` is
  `BufferReceive`, then one step per `GetVersion` (`DependencyMet`,
  `DependencyUnmet`) and per apply (`BufferApply`), with the position in
  `drainLocked` kept in `buf`.
* **NodeProcess**: `Interrupt` (the signal), `Exit` (`GracefulStop` has returned
  and `main` ends; any of the node's requests that have not left it are gone) and
  `Refuse` (a request to a node that takes none fails), with new RPCs only at
  nodes that are up; no other RPC fails (`Lose` is fired by the benchmark's run and
  part of the specification the proofs are about). Nothing is persisted, so a process that is started again is a
  new, empty node and no part of this one.
* **Checker**: `WaitForConvergence` beside the steps of the eventual cluster.
  `CheckKeys` starts a pass, `GetAnswered` and `GetFailed` are one `Get` with the
  comparison that follows, `PassEnds` the decision after a pass, `ContextDone` the
  pause that `ctx` ends. The settle deadline and the timeout of `ctx` pass at any
  time, in any order, or never (`TimePasses`).
* **Experiments**: the program with `--test=all` as a script that drives two
  clients of the causal cluster, whose steps lie in between: `PutStale`,
  `PollStale`, `StaleTimeout` and `ReportStale` for `MeasureStaleness` and
  `runStaleness`, then `PutA`, `GetA`, `PutB`, `Poll` of B and then of A, `Judge`,
  `PollAgain`, `StopPolling` and `ReportChains`; `RequestFails` ends it without the
  rows of the test. `visible` has the outcome of each staleness trial and `samples`
  the length of the slice of that name, whose rows come first. `ReportStale` and
  `ReportChains` write one row at a time. `AppendTrialRow` ends the program if the
  file cannot be opened, and otherwise writes all, some or none of its lines, the
  last one perhaps in part, since nobody asks for the error of `Flush`; the header
  goes with the row that creates the file. `csv` has the complete lines, `cut` says
  that the file ends within one, which the next line then continues and is lost with,
  and `intact` that nothing was lost. The file may exist at the start, with its header
  or empty, or with a broken line; the rows of earlier programs are left out.
* **Summary**: `summarize`, the two `percentile`s (the experiments' own exchange
  sort included), as operators; proportions and percentiles are in hundredths.
* **Benchmark**: `Start` (`LoadWorkload`, `Validate`, `--skip-load`), `LoadPut`,
  `LoadFails`, `LoadEnds`, `BeginGet`, `BeginPut`, `BeginPutFailing`,
  `EndOperation`, `WriteSummaryCSV`, `SummaryFails`. A Put of `Run` may fail before
  it reaches the node, while the node still works on it, or on the way back; in the
  second case the next Put waits for the node here, as a client has one handler.
  `PickKey` is the set of indices `pickKey` may return: for a Zipfian workload the
  clamped `ZipfianIndex`, whose power is any number up to n, then the remainder of an
  unsigned hash of `HashBits` bits, for which any function may be given.
* **MCxxx**: the clients' placement for TLC.
* **HLCLemmas, HLCClocksProofs, ReplicaLemmas, EventualProofs, StrongProofs,
  CausalProofs, ToolsProofs, ExperimentsProofs**: theorems. `EventualProofs` extends
  `NodeProcess`, `ToolsProofs` both `Checker` and `Benchmark`.

Each step is one critical section of the code: between two steps the goroutine
holds no lock that the step after needs. Two sections are joined where nothing
shared lies between them: `Store.Put` with the start of the goroutines (their
sends begin with an arbitrary delay in any case), and in strong mode `Clock.Send`
with the start of the RPCs. `Get` changes nothing outside causal mode and has no
action there. A request without a timestamp, or with a negative logical counter,
is refused by the code and sent by no node.

A `Client` is one caller at a time of its node. A real client that gives up and
calls again is two of them.

Abstractions: a payload is a model value, with `Empty` for length zero. The
artificial delays of `replication.Options` are any delay. The tracker and a
write's dependencies are sets, because `depsSatisfied` is indifferent to order and
repetition. `Deps` of a stored value are read by nothing and not kept.
`drainLocked` builds `remaining` in the array of `held` that it ranges over; since it
never has more entries than were read, the two are separate sequences in `Drain`.
Timestamps keep their bound: `MaxLogical` stands for 2^31-1.

Variables marked "history" in a module are read by properties and by no guard,
except that the number of writes in `writes` is bounded by `MaxWrites`.

The definitions under "Plausible mistakes" are wrong variants of a definition of
the same module. Each property of a passing run is violated when the variant
named in `PROJECT.json` replaces the definition.

## 3. Runs

`tlc -config <cfg> <module>`; states are distinct states.

| Run | Instance | Checks |
|---|---|---|
| `hlc_clocks` | 2 nodes, readings 1..3, `MaxLogical` 1; 15k | stamps of a node strictly increase, a clock never goes back, never invents a wall time, dominates the wall part of what it merged, never overflows |
| `eventual_safety` | 3 nodes, 3 clients on two of them that may both be stopped, 2 writes of one key, puts (also of the empty value) and deletes; 131k | unique stamps; a node that does not write a key holds the latest write it has served; only a local store replaces a version by one not newer; the third node implements `LastWriteWins`; nodes that run on come to hold the same version of a key with one writer, whose node runs on too, and no empty put; `GracefulStop` returns |
| `checker` | 2 nodes, a client on each, 2 keys, 2 writes, no loss in replication, puts also of the empty value, failing Gets of the checker; 279k | on a cluster at rest the verdict is exact, whatever earlier passes saw; the checker ends when its time is up; if every key has one writer and no empty put the checker sees them converge |
| `strong_safety` | 3 nodes, racing writers on two, 2 writes, readings 1..2, `MaxLogical` 1, failing RPCs; 456k | types; acknowledged writes were installed by a majority, and two such majorities meet; own versions are acknowledged; a majority keeps holding the acknowledged writes of a single writer or newer ones; the cluster implements `QuorumStore`; calls return |
| `causal_safety` | 3 nodes, clients on two, 2 keys, 2 writes, no loss; 281k | causal visibility across nodes; if every key has one writer, no write stays held and all nodes converge; the third node implements `LastWriteWins` |
| `causal_faults` | 2 nodes, a client on each, the second without peers, 2 keys, 3 writes, readings 1..2, `MaxLogical` 2, lost RPCs; 1.8M up to exchanging the keys | causal visibility, complete draining, nothing lost or repeated, no write held without a reason |
| `trials` | origin and replica, 2 staleness trials and a chain, readings 1..2, `MaxLogical` 2, lost RPCs, lost lines; 437k | types; samples are of values the replica goes on showing; it never shows B without A, and no trial counts a violation; the CSV file reports no trial twice, no outcome that was not, and all of them if no line was lost |
| `benchmark` | target and replica, 2 records, 3 operations, 2 latencies, `MaxLogical` 3, failing RPCs, workloads good and bad, of each distribution, a 4-bit hash, a file or none; 1.0M | types; no record is taken for deleted; every key `Run` picks is of a record the target finds; counts, latencies and stamped writes agree; percentiles by rank |
| `eventual_races` | clients on two nodes, one key | **violated**: `Converged` |
| `strong_races` | racing writers, failing RPCs | **violated**: `AckedHeldByMajority` |
| `strong_hung` | one hung peer of two | **violated**: `QuorumReturns` |
| `causal_shared` | two clients on one node | **violated**: `ReadsVisibleFirst` |

Why the bounds suffice for the interesting cases. Two writes are enough for a
race of two stores and for every reordering at a third node; three for a chain of
dependent writes whose drain needs more than one pass, and for a write that falls
between two others of the same node. Three nodes are the smallest cluster with a
quorum smaller than all and a node that only receives. A `MaxLogical` of 1 or
2 (3 where a client writes more) makes overflow and its error paths happen in the
middle of behaviours; a large `MaxLogical` in the other runs keeps them out so that the logical
counter orders all writes. `Wall` with a single reading is the coarse clock for
which every order comes from the logical part. With two nodes that may be stopped
there are behaviours in which both wait for their handlers at once, and others that
leave two nodes to agree. Three dependent writes by the clients of both nodes, with
skewed clocks, also reach the held write that a local store makes ready and the one
whose dependency a local store puts back to an older version. A sample and a timeout
are two staleness trials, in both orders; a chain more has rows of both tests. The
hash has values with and without its top bit. Three operations are enough
for a percentile that is neither end of the latencies, for each kind of operation and for a failure between
two successes. Clocks that are never equal, or
jump, need two readings, and two are enough for a skew and a step back. Symmetry is
used in `causal_faults` alone, of the two keys, which nothing distinguishes, and with
invariants only: the clients' placement distinguishes the nodes, and liveness
properties would not allow it.

Deadlock is checked in every run of a cluster: `Rest` (`Finished` in the trials
and the benchmark) is possible only when nothing is under way, so a state in which work is left and nothing can move is an
error. `hlc_clocks` switches the check off, since clocks whose counters are all at
the limit really cannot move.

### Fairness

`FairSpec` in the eventual and causal modules assumes weak fairness of each
client's next step inside a call and of `Deliver` (some request or handler
proceeds). A handler in these modes waits for nothing but a mutex, whose holder
never waits for anything but another mutex that is always released; the Go
scheduler runs every runnable goroutine; and gRPC delivers a request or fails it,
failures being switched off (`Lossy = FALSE`) where convergence is claimed. No
fairness is assumed of clients: they may stop at any time. In strong mode `Deliver`
does not cover hung peers and no deadline is assumed. `CheckSpec` adds weak
fairness of the checker's own steps: a node answers a `Get` or `ctx` ends it, and
the loop goes on. It does not assume that time passes or that other Gets fail.
`ProcSpec` adds that a request to a stopped node fails and that `GracefulStop`
returns once no handler runs; signals may never come. The trials and the benchmark
are checked for safety only.

### What the violations show

* `Converged`: `Store.Put` of a local write is unconditional (`store.go:33`) and
  runs after `Clock.Send` has released the clock. A newer replicated write that
  is applied in between is overwritten at that node only. Independently, nodes may
  issue equal timestamps, and `Apply` refuses the equal one without a tie-break;
  and because `Receive` ignores the logical counter of a message with the local
  wall time, a write made after a replicated one was seen may be stamped below it.
  Replication then settles with the nodes apart, which the checker's settle time
  takes to be impossible.
* `AckedHeldByMajority`: in strong mode the unconditional store after `OnWrite`
  may replace a newer acknowledged write. One failed RPC for each write then leaves
  the newer one on a minority.
* `QuorumReturns`: `wg.Wait` waits for all peers, so a hung one blocks a write that
  has its quorum, contrary to the comment on `StrongHandler`.
* `ReadsVisibleFirst`: the tracker belongs to the node, so one client's write
  takes another client's reads along, and the other's next write carries no
  dependency on what it read.

The positive properties are stated next to these limits: convergence if RPCs do not
fail, no counter overflows, every node has dialled every other, and keys have one
writer and no empty put (in causal mode all keys, elsewhere the key it is about);
durability for keys with one writer, visibility for clients that have a node to
themselves and for keys the node's own clients do not write, and last write wins
without exception at nodes without clients.

Further observations have no run of their own. `Put(k, "")` is found at its node and
not found at the peers, which take an empty value for a deletion (`node.go:151`), and
the checker calls the key inconsistent for good; `Decode` models it, and `RecordsStay`
shows that the benchmark, which refuses `field_length` 0, does not meet it. A
dependency that a local store satisfies
drains nothing, so a held write then waits for the next replicated one
(`buffer.go:33`); `DrainComplete` says that nothing else is left behind. In causal
mode the race of `Converged` on one key also holds up writes of another: a client of
n1 stamps k1, a newer k1 from n2 is applied at n1, n1's own store puts the older one
back (`node.go:85`), and a write of k2 made at n2 after reading the newer k1 stays in
n1's buffer for good, although k2 has one writer and every request has arrived;
`HeldForAReason` says that a key which the node's own clients write is the only such
reason. The errors of `w.Write` and `Flush` are dropped when the experiments write
their rows (`cmd/experiments/main.go:112`), so rows may be missing in a file of a
program that ended well, and a file created without its header never gets one. The trial
column of a staleness row is not the number of the trial, since the samples' rows
come first (`cmd/experiments/main.go:58`). Proportions that sum to 0.99 pass
`Validate`, and `pickOperation` makes the rest inserts (`ycsb_driver.go:121`), which
are Puts of existing records. `Replicate` in causal mode reports success also when last write
wins refuses the value (`node.go:156`). The comment on `Handler` says it is called
after a local Put, which strong mode does before (`replication.go:36`).

## 4. Proofs

`tlapm <module>` checks them; no fact is assumed but the named `ASSUME`s of the
models: `Wall` are positive naturals, `MaxLogical` and `MaxWrites` naturals, `Node`
is finite, `Home` maps clients to nodes, `Dialled` nodes to peers other than
themselves, and the marker values (`Missing`, `Idle`,
...) are not values of the types they mark; for the experiments also that they have
the cluster to themselves, put no empty value, and that keyB of a trial is none of
their other keys, as `chain-b-%d` is not (`experiments.go:107`), and for the benchmark
that a workload's counts are integers and its records have keys. TLC evaluates them in
every run.

* **HLCLemmas**: `Compare` is the lexicographic order and total; `Send` and
  `Receive` return timestamps strictly after the clock they start from.
* **HLCClocksProofs**: types, `SendMonotonic`, `IssuedBelowClock`, `WallIsAReading`,
  `HeardWallDominated` and `ClockAdvances`. `SendMonotonic` is not inductive by
  itself: a `Send` must know that the clock is not behind anything already issued
  (`IssuedBelowClock`). `WallIsAReading` needs the same fact of stamps in transit.
* **ReplicaLemmas**: what a local store, a broadcast and a replicated apply do to a
  map: types, the one key they touch, and when; which write a request carries.
* **EventualProofs**: types, `StampsUnique`, `PassiveLatest`,
  `OnlyLocalWriteRegresses`, and that the cluster implements `LastWriteWins`. The
  inductive invariant adds `CallsAreWrites`: the write under way is in the history and
  is its client's own, hence the unconditional store touches only keys its node writes
  itself, and a new stamp, being after the clock, which is not behind any stamp of the
  node, is unlike all of them. For the refinement a second layer, `Provenance`, says
  that every request and every stored value is of an issued write; then `Stamp` maps
  to an abstract issue, an accepted `ServeApply` at a node without clients to an
  abstract move to a later write, and every other step to a stutter. The same four
  properties are proved of `ProcSpec`, where processes end: each of its steps is a step
  of the cluster, or forgets requests (`Forget`), which no invariant needs to be there.
* **StrongProofs**: types, `AckedOnQuorum`, `QuorumsMeet`, `OwnVersionAcked` and
  `SingleWriterDurable`. The argument
  follows a success backwards: a counted "ok" was a response with `Success`
  (`OkIsInstalled`), which the peer sent after its store accepted the write
  (`ResponseIsInstalled`). `total/2 + 1` with the node in the total is more than
  half of the node's group (`AcksAndHome`), as the node is never its own peer, and two
  sets that are each more than half of a finite group have a member in common. Requests
  never reach the node they come from (`RequestsLeaveHome`), so what a node shows
  of its own clients it stored in `Commit`. The layer `Durable` adds that the write a
  client has under way is the latest of its own (`LatestCall`): with one writer the
  unconditional store of `Commit` therefore never replaces a newer version, and what a
  node has installed it holds, or something newer (`InstalledIsHeld`). The layer
  `Sourced` is for the refinement of `QuorumStore`: a node's stamps differ
  (`StampsDiffer`), every request is of a write of the history, and a request is on the
  wire, in a handler or done, never two of these (`ServedOnce`), so that an accepted
  `ServeApply` installs its write at that node for the first time; and a write still
  under way is not yet installed at its own node (`CallNotInstalled`).
  `StampAndReplicate` then maps to `Issue`, an accepted `ServeApply` to `Accept`,
  `Commit` to `Ack`, whose majority is `AcksAndHome` with `OkIsInstalled`, and every
  other step to a stutter. That nodes without clients implement `LastWriteWins`
  (`StrongIsLastWriteWins`) follows from the same facts; it has no run of its own.
* **CausalProofs**: four layers, each inductive given the ones before.
  `Base`: types; calls, requests and stamps come from the history. `Buffered`: the
  worker's `cur`, `todo` and `remaining` with `held` form one sequence, which a step of
  `Receive` or `drainLocked` reorders, extends by the new request or shortens by the
  applied one, and in which none occurs twice since a request is sent once
  (`SentOnce`); `NoneForgotten` is part of it. `Drained`: while a pass runs without
  progress, every entry put aside lacks a dependency that only a local store could have
  brought since (`GivenUp`); at the end of the last pass that is `DrainComplete`.
  `HeldForAReason` needs with it that what was put to a store of a key the node's
  clients do not write is covered there from then on (`SettledCovered`): a held write
  whose dependencies were all settled, of such keys, would be ready, and
  `DrainComplete` leaves no ready write but by a local store.
  `Causal`: what a client has read is at its node from then on, in its tracker until
  its next write takes it, in the request after that, and is found at a peer before the
  request is applied there; `CausalVisibility` is its last conjunct. It rests on two
  facts about a store, that a covered dependency stays covered (versions of keys the
  node's clients do not write only grow) and that each value is of a write of the
  history. The refinement of `LastWriteWins` follows the eventual one.
* **ToolsProofs**, the checker: types and `VerdictExact`. `PassExact` says what a pass knows half
  way, provided the cluster has been at rest since it began: the keys it is through
  with are equal at all nodes unless marked, the nodes asked for the current key showed
  the reference, and a key is marked for a reason. The checker's steps leave the
  cluster alone, so the invariant of `EventualProofs` carries over.
  The benchmark: `RecordsStay`, `RunHitsRecords` and `ResultAddsUp`, for every workload
  and any hash. `PicksAreRecords` says that the clamp and the remainder of an unsigned
  number leave an index of a record.
  Its Puts are calls of the eventual cluster, and `BenchIsAClient` says so: whatever
  holds of every behaviour of the cluster holds beside the benchmark. `BenchInv` adds
  that every write has the key of a record and a payload that is not empty
  (`WritesPutRecords`), that the records before `next` are at the target once loaded
  (`RecordsLoaded`), and how far the counts are (`CountsFit`): reads, writes and errors
  against `next`, and the stamped writes between the successes and the attempts, with
  the operation under way, which the node may have stamped already, counted apart.
  The percentile: `PercentileIsByRank`, for latencies of any number. If they are
  rearranged in order, fewer than i+1 are below the one at index i and at least i+1 are
  not above it (by the pigeonhole principle, `FewBelow` and `EnoughNotAbove`), and the
  index is the share of the others rounded down (`IndexIsShare`).
* **ExperimentsProofs**: `NoTrialViolated`, `ChainVisible`, `SamplesStayVisible` and
  `ReportAddsUp`.
  The experiment's calls are calls of causal mode, so the layers of `CausalProofs` hold
  beside it. `Script` adds what the experiment knows at each point: only its writer
  writes, one value per key; when it puts B it has read A (`ChainUnderWay`,
  `BFollowsA`); and a round that saw B found it at the replica (`RoundSound`). With
  `CausalVisibility`, or with the order of the origin's own stores when the replica is
  the origin, B is never there without A, and A, asked for second, is still there.
  `Reported` says what the file holds at each point, whatever was lost of it: each line
  is the header or the row due for some trial (`LineAt`), in their order (`Ordered`),
  with none missing while `intact` holds (`Complete`); rows are written only once the
  trials of their test have ended (`RowsFollow`), so that what they say stays true; and
  `samples` is the number of trials that saw their value (`TrialsCounted`). A row and
  its trial determine each other, so the counts of rows and of outcomes are compared by
  an injection, onto when no line was lost (`CountRows`), and no fold over the file is
  needed.

Only model-checked: the liveness properties (`SurvivorsConverge`, `StopsInTime`,
`SingleWriterConverges`, `CallsReturn`, `CheckerEnds`, `ConvergenceSeen`), which need
fairness and are out of reach of the prover; and `PercentilesExact` as a whole: that
`SortSeq` and the experiments' exchange sort, a fold, put the latencies in order is
induction over data. What `percentile` picks from them once they are in order is proved.

## 5. Not modelled

* The elapsed milliseconds of a staleness sample, the float `mean`, the throughput and
  the printed lines. Which indices `scrambledZipfianIndex` favours: the power is any
  number up to n, and `fnvHash64` any function to unsigned numbers of its width. What a
  failed `WriteSummaryCSV` has left in the file, and an `os.Stat` that fails on a file
  that is there. The rounding of `float64` in an index or a sum of
  proportions.
* The length of the tracker's slice, which nothing bounds: the model keeps the set.
* Stopping a node in causal and strong mode. In strong mode the handlers wait for
  their peers, so `GracefulStop` returns when `CallsReturn` applies.
* Starting a process: flags, listening, `log.Fatal` before the first RPC, pprof.
* The generated gRPC code, the scripts and the plots.

## 6. Plan

Done: the clock, the store, the three modes, the process, the checker, the
experiments, the benchmark, the two abstract specifications, their runs and the proofs
of section 4. Left: stopping a node in causal and strong mode.
