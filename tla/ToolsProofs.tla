---------------------------- MODULE ToolsProofs ----------------------------
(***************************************************************************)
(* The two programs that run against a cluster in eventual mode: the       *)
(* consistency checker and the benchmark.                                  *)
(*                                                                         *)
(* The verdict of WaitForConvergence is proved for any lists of nodes and  *)
(* keys, the same one twice included, any number of passes and any failing *)
(* Gets.  PassExact says what a pass knows while it runs, provided the     *)
(* cluster has been at rest since the pass began: the keys it is through   *)
(* with are equal at all nodes unless marked, the nodes asked for the      *)
(* current key have shown the reference unless it is marked, and a key is  *)
(* marked for a reason.                                                    *)
(*                                                                         *)
(* What the benchmark reports, and what it leaves in the cluster, is       *)
(* proved for any workload file, any failing or late RPC, and any clocks.  *)
(* BenchInv counts the node's stamps against the driver's own counts while *)
(* the run is under way, the Put that has not returned included.           *)
(***************************************************************************)
EXTENDS Checker, Benchmark, EventualProofs, FiniteSetTheorems

(* What node m of the list shows of key i of the list.                     *)
Shown(i, m) == Visible(data[Addrs[m]], Keys[i])

(* Two nodes of the list show different values of k.                       *)
Differs(k) ==
    \E i \in 1 .. Len(Keys), m, n \in 1 .. Len(Addrs) :
        Keys[i] = k /\ Shown(i, m) # Shown(i, n)

PassExact ==
    quiet =>
        /\ \A i \in 1 .. key - 1 : Keys[i] \notin bad =>
              \A m, n \in 1 .. Len(Addrs) : Shown(i, m) = Shown(i, n)
        /\ key <= Len(Keys) /\ Keys[key] \notin bad =>
              \A m \in 1 .. addr - 1 : Shown(key, m) = ref
        /\ ref # NoRef =>
              key <= Len(Keys) /\ \E m \in 1 .. addr - 1 : Shown(key, m) = ref
        /\ \A k \in bad : erred \/ Differs(k)

(* How a pass ends.                                                        *)
PhaseFits ==
    /\ phase \in {"pausing", "diverged"} => bad # {}
    /\ phase = "consistent" => bad = {} /\ key = Len(Keys) + 1

CheckInv ==
    /\ TypeOK
    /\ CheckTypeOK
    /\ PassExact
    /\ PhaseFits

(* The lists the checker is given.                                         *)
LEMMA ListTypes ==
    /\ Len(Keys) \in Nat /\ Len(Addrs) \in Nat /\ Len(Addrs) >= 1
    /\ \A i \in 1 .. Len(Keys) : Keys[i] \in Key
    /\ \A m \in 1 .. Len(Addrs) : Addrs[m] \in Node
<1>1. Len(Keys) \in Nat /\ \A i \in 1 .. Len(Keys) : Keys[i] \in Key
  BY KeysAssumption
<1>2. Len(Addrs) \in Nat /\ \A m \in 1 .. Len(Addrs) : Addrs[m] \in Node
  BY AddrsAssumption
<1>3. Len(Addrs) # 0
  BY AddrsAssumption
<1> QED BY <1>1, <1>2, <1>3

(* A node shows a payload or nothing, never the mark for no reference.     *)
LEMMA ShownType ==
    ASSUME TypeOK, NEW i \in 1 .. Len(Keys), NEW m \in 1 .. Len(Addrs)
    PROVE  Shown(i, m) \in Data \cup {Empty, Missing} /\ Shown(i, m) # NoRef
<1>1. Addrs[m] \in Node /\ Keys[i] \in Key
  BY ListTypes
<1>2. data[Addrs[m]][Keys[i]] \in Value \cup {Missing}
  BY <1>1 DEF TypeOK
<1>3. Shown(i, m) \in Data \cup {Empty, Missing}
  BY <1>2 DEF Shown, Visible, Found, Value
<1> QED BY <1>3, NoRefAssumption

(* The loops advance within the lists.                                     *)
LEMMA AdvanceResult ==
    ASSUME CheckTypeOK, key <= Len(Keys), Advance
    PROVE  /\ key' \in 1 .. Len(Keys) + 1 /\ addr' \in 1 .. Len(Addrs)
           /\ \/ addr = Len(Addrs) /\ key' = key + 1 /\ addr' = 1
              \/ addr < Len(Addrs) /\ key' = key /\ addr' = addr + 1
<1>1. CASE addr = Len(Addrs)
  BY <1>1, ListTypes DEF Advance, CheckTypeOK
<1>2. CASE addr # Len(Addrs)
  BY <1>2, ListTypes DEF Advance, CheckTypeOK
<1> QED BY <1>1, <1>2

(* The checker has asked nothing at first.                                 *)
LEMMA InitCheck == CheckInit => CheckInv
<1> SUFFICES ASSUME CheckInit PROVE CheckInv
  OBVIOUS
<1>1. TypeOK
  BY InitInv DEF CheckInit, Inv
<1>2. CheckTypeOK
  <2>1. key \in 1 .. Len(Keys) + 1 /\ addr \in 1 .. Len(Addrs)
    BY ListTypes DEF CheckInit
  <2>2. late \in BOOLEAN /\ done \in BOOLEAN /\ quiet \in BOOLEAN /\ erred \in BOOLEAN
    BY DEF CheckInit
  <2> QED BY <2>1, <2>2 DEF CheckInit, CheckTypeOK
<1> QED BY <1>1, <1>2 DEF CheckInit, CheckInv, PassExact, PhaseFits

(* A step of one Get: the cluster is as it was, the loops advance, and the *)
(* key is marked or the answer agrees with the reference.                  *)
LEMMA GetStep ==
    ASSUME CheckInv, key <= Len(Keys), Advance, UNCHANGED <<data, quiet, phase>>,
           phase = "reading",
           NEW r,
           ref' = NextRef(r),
           bad' \in {bad, bad \cup {Keys[key]}},
           erred' = erred \/ erred' = TRUE,
           r # NoRef => r = ref \/ r = Shown(key, addr),
           Keys[key] \notin bad' =>
              Shown(key, addr) = r /\ (ref # NoRef => ref = r),
           bad' # bad => erred' \/ (ref # NoRef /\ ref # Shown(key, addr))
    PROVE  PassExact' /\ PhaseFits'
<1> USE DEF CheckInv
<1>1. /\ key \in 1 .. Len(Keys) /\ addr \in 1 .. Len(Addrs)
      /\ Len(Keys) \in Nat /\ Len(Addrs) \in Nat
  BY ListTypes DEF CheckTypeOK
<1>2. \/ addr = Len(Addrs) /\ key' = key + 1 /\ addr' = 1 /\ ref' = NoRef
      \/ addr < Len(Addrs) /\ key' = key /\ addr' = addr + 1 /\ ref' = r
  BY <1>1, AdvanceResult DEF NextRef
<1>3. \A i, m : Shown(i, m)' = Shown(i, m)
  BY DEF Shown
<1>4. PhaseFits'
  BY DEF PhaseFits
<1>5. ASSUME quiet PROVE \A m \in 1 .. addr : Keys[key] \notin bad' => Shown(key, m) = r
  <2> SUFFICES ASSUME NEW m \in 1 .. addr, Keys[key] \notin bad' PROVE Shown(key, m) = r
    OBVIOUS
  <2>1. CASE m = addr
    BY <2>1
  <2>2. CASE m # addr
    <3>1. m \in 1 .. addr - 1 /\ m \in 1 .. Len(Addrs)
      BY <1>1, <2>2
    <3>2. Shown(key, m) = ref
      BY <1>1, <1>5, <3>1 DEF PassExact
    <3>3. ref # NoRef
      BY <1>1, <3>1, <3>2, ShownType
    <3> QED BY <3>2, <3>3
  <2> QED BY <2>1, <2>2
<1>6. ASSUME quiet, NEW i \in 1 .. key' - 1, Keys[i] \notin bad',
             NEW m \in 1 .. Len(Addrs), NEW n \in 1 .. Len(Addrs)
      PROVE  Shown(i, m) = Shown(i, n)
  <2>1. CASE i = key
    <3>1. addr = Len(Addrs)
      BY <1>1, <1>2, <2>1
    <3> QED BY <1>5, <1>6, <2>1, <3>1
  <2>2. CASE i # key
    <3>1. i \in 1 .. key - 1
      BY <1>1, <1>2, <2>2
    <3> QED BY <1>6, <3>1 DEF PassExact
  <2> QED BY <2>1, <2>2
<1>7. ASSUME quiet, key' <= Len(Keys), Keys[key'] \notin bad', NEW m \in 1 .. addr' - 1
      PROVE  Shown(key', m) = ref'
  <2>1. /\ addr < Len(Addrs) /\ key' = key /\ addr' = addr + 1 /\ ref' = r
        /\ m \in 1 .. addr
    BY <1>1, <1>2, <1>7
  <2> QED BY <1>5, <1>7, <2>1
<1>8. ASSUME quiet, ref' # NoRef
      PROVE  key' <= Len(Keys) /\ \E m \in 1 .. addr' - 1 : Shown(key', m) = ref'
  <2>1. key' = key /\ addr' = addr + 1 /\ ref' = r
    BY <1>2, <1>8
  <2>2. CASE r = Shown(key, addr)
    BY <1>1, <2>1, <2>2
  <2>3. CASE r = ref
    <3>1. PICK m \in 1 .. addr - 1 : Shown(key, m) = ref
      BY <1>8, <2>1, <2>3 DEF PassExact
    <3>2. m \in 1 .. addr' - 1
      BY <1>1, <2>1
    <3> QED BY <1>1, <2>1, <2>3, <3>1, <3>2
  <2> QED BY <1>8, <2>1, <2>2, <2>3
<1>9. ASSUME quiet, NEW k \in bad' PROVE erred' \/ Differs(k)
  <2>1. CASE k \in bad
    BY <1>9, <2>1 DEF PassExact
  <2>2. CASE k \notin bad /\ ~erred'
    <3>1. k = Keys[key] /\ ref # NoRef /\ ref # Shown(key, addr)
      BY <2>2
    <3>2. PICK m \in 1 .. addr - 1 : Shown(key, m) = ref
      BY <1>9, <3>1 DEF PassExact
    <3>3. m \in 1 .. Len(Addrs)
      BY <1>1
    <3> QED BY <1>1, <3>1, <3>2, <3>3 DEF Differs
  <2> QED BY <2>1, <2>2
<1>10. \A k : Differs(k)' <=> Differs(k)
  BY <1>3 DEF Differs
<1>11. PassExact'
  BY <1>3, <1>6, <1>7, <1>8, <1>9, <1>10 DEF PassExact
<1> QED BY <1>4, <1>11

(* A step that leaves the pass alone, and the cluster too if the pass is   *)
(* to stay exact.                                                          *)
LEMMA PassKept ==
    ASSUME CheckInv, UNCHANGED <<passVars, erred>>, quiet' => quiet /\ data' = data
    PROVE  PassExact'
<1>1. ASSUME quiet' PROVE \A i, m : Shown(i, m)' = Shown(i, m)
  BY <1>1 DEF Shown
<1>2. ASSUME quiet' PROVE \A k : Differs(k)' <=> Differs(k)
  BY <1>1, <1>2 DEF Differs
<1> QED BY <1>1, <1>2 DEF CheckInv, PassExact, passVars

(* Every step keeps CheckInv.                                              *)
LEMMA NextCheck == CheckInv /\ TypeOK' /\ [CheckNext]_allVars => CheckInv'
<1> SUFFICES ASSUME CheckInv, TypeOK', [CheckNext]_allVars PROVE CheckInv'
  OBVIOUS
<1> USE DEF CheckInv
<1>1. CASE CheckKeys
  <2>1. CheckTypeOK'
    BY <1>1, ListTypes DEF CheckKeys, CheckTypeOK, Quiescent
  <2>2. PassExact' /\ PhaseFits'
    BY <1>1, ListTypes DEF CheckKeys, PassExact, PhaseFits
  <2> QED BY <2>1, <2>2
<1>2. CASE GetAnswered
  <2> DEFINE answer == Shown(key, addr)
             r == IF ref = NoRef THEN answer ELSE ref
  <2>1. /\ phase = "reading" /\ key <= Len(Keys) /\ Advance
        /\ bad' = (IF ref \notin {NoRef, answer} THEN bad \cup {Keys[key]} ELSE bad)
        /\ ref' = NextRef(r)
        /\ UNCHANGED <<data, phase, late, done, quiet, erred>>
    BY <1>2 DEF GetAnswered, Shown, vars
  <2>2. key \in 1 .. Len(Keys) /\ addr \in 1 .. Len(Addrs) /\ Keys[key] \in Key
    BY <2>1, ListTypes DEF CheckTypeOK
  <2>3. answer \in Data \cup {Empty, Missing} /\ answer # NoRef
    BY <2>2, ShownType
  <2> HIDE DEF answer
  <2>4. CheckTypeOK'
    BY <2>1, <2>2, <2>3, AdvanceResult DEF CheckTypeOK, NextRef
  <2>5. /\ r # NoRef => r = ref \/ r = answer
        /\ Keys[key] \notin bad' => answer = r /\ (ref # NoRef => ref = r)
        /\ bad' # bad => ref # NoRef /\ ref # answer
        /\ bad' \in {bad, bad \cup {Keys[key]}}
    BY <2>1, <2>3
  <2> HIDE DEF r
  <2>6. PassExact' /\ PhaseFits'
    BY <2>1, <2>5, GetStep DEF answer
  <2> QED BY <2>4, <2>6
<1>3. CASE GetFailed
  <2>1. /\ phase = "reading" /\ key <= Len(Keys) /\ Advance
        /\ bad' = bad \cup {Keys[key]} /\ ref' = NextRef(ref) /\ erred' = TRUE
        /\ UNCHANGED <<data, phase, late, done, quiet>>
    BY <1>3 DEF GetFailed, vars
  <2>2. key \in 1 .. Len(Keys) /\ Keys[key] \in Key
    BY <2>1, ListTypes DEF CheckTypeOK
  <2>3. CheckTypeOK'
    BY <2>1, <2>2, AdvanceResult DEF CheckTypeOK, NextRef
  <2>4. PassExact' /\ PhaseFits'
    BY <2>1, GetStep
  <2> QED BY <2>3, <2>4
<1>4. CASE PassEnds
  <2>1. CheckTypeOK' /\ PhaseFits'
    BY <1>4, ListTypes DEF PassEnds, CheckTypeOK, PhaseFits, passVars
  <2>2. PassExact'
    BY <1>4, PassKept DEF PassEnds, vars
  <2> QED BY <2>1, <2>2
<1>5. CASE ContextDone
  <2>1. CheckTypeOK' /\ PhaseFits'
    BY <1>5 DEF ContextDone, CheckTypeOK, PhaseFits, passVars
  <2>2. PassExact'
    BY <1>5, PassKept DEF ContextDone, vars
  <2> QED BY <2>1, <2>2
<1>6. CASE TimePasses
  <2>1. CheckTypeOK' /\ PhaseFits'
    BY <1>6 DEF TimePasses, CheckTypeOK, PhaseFits, passVars
  <2>2. PassExact'
    BY <1>6, PassKept DEF TimePasses, vars
  <2> QED BY <2>1, <2>2
<1>7. CASE ClusterStep
  <2>1. CheckTypeOK' /\ PhaseFits'
    BY <1>7 DEF ClusterStep, CheckTypeOK, PhaseFits, passVars
  <2>2. quiet' => quiet /\ data' = data
    BY <1>7 DEF ClusterStep, vars
  <2>3. PassExact'
    BY <1>7, <2>2, PassKept DEF ClusterStep
  <2> QED BY <2>1, <2>3
<1>8. CASE UNCHANGED allVars
  <2>1. CheckTypeOK' /\ PhaseFits'
    BY <1>8 DEF allVars, checkerVars, CheckTypeOK, PhaseFits
  <2>2. PassExact'
    BY <1>8, PassKept DEF allVars, checkerVars, passVars, vars
  <2> QED BY <2>1, <2>2
<1> QED BY <1>1, <1>2, <1>3, <1>4, <1>5, <1>6, <1>7, <1>8 DEF CheckNext, Proceed

(* The checker runs beside the cluster and does not change it.             *)
LEMMA CheckerOnlyReads == [CheckNext]_allVars => [Next]_vars
BY DEF CheckNext, ClusterStep, Proceed, CheckKeys, GetAnswered, GetFailed, PassEnds,
       ContextDone, TimePasses, allVars

(* The invariant of the checker, beside the cluster's own.                 *)
THEOREM CheckerInvariant == CheckSpec => []CheckInv
<1>1. CheckInit => Inv /\ CheckInv
  BY InitInv, InitCheck DEF CheckInit
<1>2. Inv /\ CheckInv /\ [CheckNext]_allVars => (Inv /\ CheckInv)'
  <2>1. Inv /\ [CheckNext]_allVars => Inv'
    BY NextInv, CheckerOnlyReads
  <2>2. Inv' => TypeOK'
    BY DEF Inv
  <2> QED BY <2>1, <2>2, NextCheck
<1> QED BY <1>1, <1>2, PTL DEF CheckSpec

(* Type correctness of the checker beside any cluster in eventual mode.    *)
THEOREM CheckerTypeCorrect == CheckSpec => []CheckTypeOK
<1>1. CheckInv => CheckTypeOK
  BY DEF CheckInv
<1> QED BY <1>1, CheckerInvariant, PTL

(* The verdict of WaitForConvergence is exact on a cluster at rest.        *)
THEOREM VerdictIsExact == CheckSpec => []VerdictExact
<1>1. CheckInv => VerdictExact
  <2> SUFFICES ASSUME CheckInv, quiet
               PROVE  /\ phase = "consistent" => AllMatch
                      /\ phase = "diverged" => ~AllMatch \/ erred
    BY DEF VerdictExact
  <2> USE DEF CheckInv
  <2>1. ASSUME phase = "consistent" PROVE AllMatch
    <3>1. bad = {} /\ key - 1 = Len(Keys)
      BY <2>1, ListTypes DEF PhaseFits, CheckTypeOK
    <3> QED BY <3>1 DEF PassExact, AllMatch, Shown
  <2>2. ASSUME phase = "diverged" PROVE ~AllMatch \/ erred
    <3>1. PICK k \in bad : TRUE
      BY <2>2 DEF PhaseFits
    <3>2. erred \/ Differs(k)
      BY <3>1 DEF PassExact
    <3> QED BY <3>2 DEF Differs, AllMatch, Shown
  <2> QED BY <2>1, <2>2
<1> QED BY <1>1, CheckerInvariant, PTL
----------------------------------------------------------------------------
(* The benchmark.                                                          *)

(* Where the program is fits its loop variables, its workload and its file.*)
ProgramFits ==
    /\ stage \in {"start", "load", "run", "done", "fatal"}
    /\ wl \in Workloads
    /\ next \in Nat
    /\ loaded \in BOOLEAN
    /\ stage \in {"load", "run", "done"} => Validate(wl)
    /\ stage = "start" => ~loaded /\ next = 0 /\ writes = {} /\ call[Bench] = Idle
    /\ stage = "load" => loaded /\ next <= wl.recordCount
    /\ stage \in {"start", "load"} => latencies = <<>>
    /\ pending \in {"none", "read", "write", "unsent"}
    /\ pending # "none" => stage = "run" /\ next < wl.operationCount
    /\ stage = "run" => next <= wl.operationCount
    /\ stage # "done" => csv \in {NoFile, <<>>, <<Header>>}

(* Every write is a Put of bytes to a record, and so is every request.     *)
WritesPutRecords ==
    /\ \A w \in writes : w.key \in Records /\ w.val.data # Empty /\ ~w.val.deleted
    /\ \A m \in wire \cup serving : m.key \in Records /\ m.data # Empty
    /\ \A n \in Node, k \in Key :
          data[n][k] # Missing => k \in Records /\ ~data[n][k].deleted

(* A record whose Put has returned is at the target.                       *)
RecordsLoaded ==
    \A i \in 0 .. wl.recordCount - 1 :
        \/ data[Home[Bench]][KeyFor[i]] # Missing
        \/ stage = "load" /\ call[Bench] # Idle /\ call[Bench].key = KeyFor[i]
        \/ stage = "load" /\ i >= next
        \/ stage \in {"start", "fatal"} \/ ~loaded

(* The stamps of the load phase, and those of the operations' Puts but the *)
(* one under way.                                                          *)
Base == IF loaded THEN wl.recordCount ELSE 0

Returned == Cardinality(writes) - Base - IF pending = "write" THEN 1 ELSE 0

(* The driver's counts against the stamps of the node.                     *)
CountsFit ==
    /\ IsFiniteSet(writes)
    /\ res.reads \in Nat /\ res.writes \in Nat /\ res.errors \in Nat
    /\ stage \in {"start", "load"} => res = [reads |-> 0, writes |-> 0, errors |-> 0]
    /\ stage = "load" => Cardinality(writes) = next
    /\ stage \in {"run", "done"} =>
          /\ next = res.reads + res.writes
          /\ Returned \in res.writes - res.errors .. res.writes

(* One latency for each operation that has ended.                          *)
LatenciesFit ==
    /\ latencies \in Seq(Nat)
    /\ stage \in {"run", "done"} => Len(latencies) = next

(* The file of a finished run ends with this run's row.                    *)
RowFits ==
    stage = "done" =>
        /\ next = wl.operationCount /\ pending = "none"
        /\ csv[Len(csv)] = [operations |-> next, counts |-> res, latency |-> Summarize(latencies)]

BenchInv ==
    /\ Inv
    /\ ProgramFits
    /\ WritesPutRecords
    /\ RecordsLoaded
    /\ CountsFit
    /\ LatenciesFit
    /\ RowFits

(* The records of a workload are keys.                                     *)
LEMMA RecordTypes ==
    ASSUME wl \in Workloads
    PROVE  /\ wl.recordCount \in Int /\ wl.operationCount \in Int
           /\ wl.fieldLength \in Int
           /\ \A i \in 0 .. wl.recordCount - 1 : KeyFor[i] \in Key
           /\ Records \subseteq Key
BY WorkloadsAssumption DEF Records

(* A clamp and a remainder: pickKey never leaves the loaded records,       *)
(* whatever fnvHash64 computes.                                            *)
LEMMA PicksAreRecords ==
    ASSUME wl \in Workloads, Validate(wl)
    PROVE  PickKey(wl) \subseteq 0 .. wl.recordCount - 1
<1> DEFINE n == wl.recordCount
<1>1. n \in Int /\ n > 0
  BY RecordTypes DEF Validate
<1>2. CASE n = 1
  BY <1>1, <1>2 DEF PickKey, ScrambledZipfianIndex
<1>3. CASE n > 1 /\ wl.distribution = "zipfian"
  <2>1. ZipfianIndex(n) \subseteq 0 .. n - 1
    BY <1>1, <1>3 DEF ZipfianIndex
  <2>2. \A i \in 0 .. n - 1 : Hash[i] \in Int
    BY WorkloadsAssumption, HashBitsAssumption
  <2>3. \A h \in Int : h % n \in 0 .. n - 1
    BY <1>1
  <2> QED BY <1>1, <1>3, <2>1, <2>2, <2>3 DEF PickKey, ScrambledZipfianIndex
<1>4. CASE n > 1 /\ wl.distribution # "zipfian"
  BY <1>4 DEF PickKey
<1> QED BY <1>1, <1>2, <1>3, <1>4

(* Validate leaves no empty payload, so every write of the program is a    *)
(* Put.                                                                    *)
LEMMA PayloadsOfValid ==
    ASSUME wl \in Workloads, Validate(wl), NEW x \in Payloads
    PROVE  x \in Data /\ x # Empty /\ x # Missing
<1>1. wl.fieldLength > 0 /\ wl.fieldLength \in Int
  BY RecordTypes DEF Validate
<1>2. Payloads = Data \ {Empty}
  BY <1>1 DEF Payloads
<1> QED BY <1>2, MissingAssumption

(* Clock.Send gives a write that is not in the history yet.                *)
LEMMA StampIsFresh ==
    ASSUME Inv, NEW c \in Client, NEW k \in Key, NEW x \in Data,
           NEW now \in Wall, Stamp(c, k, x, now)
    PROVE  \E op \in Op :
              /\ op \notin writes
              /\ op.key = k /\ op.val.data = x /\ ~op.val.deleted
              /\ writes' = writes \cup {op}
              /\ call' = [call EXCEPT ![c] = op]
<1> DEFINE n == Home[c]
           ts == Send(clock[n], now)
           op == OpFor(k, x, ts, c)
<1>0. n \in Node /\ clock[n] \in Timestamp
  BY HomeAssumption DEF Inv, TypeOK
<1>1. ts \in Timestamp /\ After(ts, clock[n])
  BY <1>0, SendAdvances DEF Stamp
<1>2. op \in Op /\ op.key = k /\ op.val.by = c /\ op.val.ts = ts
  BY <1>1, OpForType
<1>3. writes' = writes \cup {op} /\ call' = [call EXCEPT ![c] = op]
  BY DEF Stamp
<1>4. op.val = PutValue(x, ts, c)
  BY MissingAssumption DEF OpFor
<1>5. op.val.data = x /\ op.val.deleted = FALSE
  BY <1>4 DEF PutValue
<1> HIDE DEF ts, op
<1>6. op \notin writes
  <2> SUFFICES ASSUME op \in writes PROVE FALSE
    OBVIOUS
  <2>1. AfterOrEqual(clock[n], ts)
    BY <1>2 DEF Inv, StampsUnique
  <2> QED BY <1>0, <1>1, <2>1, CompareIsTotalOrder
<1> QED BY <1>2, <1>3, <1>5, <1>6

(* A Put of the program is a step of the cluster that adds one write, of a *)
(* record.                                                                 *)
LEMMA PutStep ==
    ASSUME BenchInv, Validate(wl), UNCHANGED wl, NEW i \in 0 .. wl.recordCount - 1,
           NEW x \in Payloads, NEW now \in Wall, Stamp(Bench, KeyFor[i], x, now)
    PROVE  /\ Next
           /\ WritesPutRecords'
           /\ IsFiniteSet(writes') /\ Cardinality(writes') = Cardinality(writes) + 1
           /\ UNCHANGED data
           /\ call[Bench] = Idle /\ call'[Bench] # Idle /\ call'[Bench].key = KeyFor[i]
<1>1. x \in Data /\ x # Empty
  BY PayloadsOfValid DEF BenchInv, ProgramFits
<1>2. KeyFor[i] \in Key /\ KeyFor[i] \in Records
  BY RecordTypes DEF BenchInv, ProgramFits, Records
<1>3. Next
  BY <1>1, <1>2, BenchAssumption DEF Next
<1>4. PICK op \in Op :
         /\ op \notin writes
         /\ op.key = KeyFor[i] /\ op.val.data = x /\ ~op.val.deleted
         /\ writes' = writes \cup {op}
         /\ call' = [call EXCEPT ![Bench] = op]
  BY <1>1, <1>2, BenchAssumption, StampIsFresh DEF BenchInv
<1>5. IsFiniteSet(writes') /\ Cardinality(writes') = Cardinality(writes) + 1
  BY <1>4, FS_AddElement DEF BenchInv, CountsFit
<1>6. UNCHANGED <<data, wire, serving>> /\ call[Bench] = Idle
  BY DEF Stamp
<1>7. call'[Bench] = op /\ op # Idle
  BY <1>4, BenchAssumption, IdleAssumption DEF BenchInv, Inv, TypeOK
<1>8. Records' = Records
  BY DEF Records
<1>9. WritesPutRecords'
  BY <1>1, <1>2, <1>4, <1>6, <1>8 DEF BenchInv, WritesPutRecords
<1> QED BY <1>3, <1>4, <1>5, <1>6, <1>7, <1>9

(* What the cluster does by itself: it puts the call under way in the      *)
(* target's store, and requests in those of the peers.                     *)
LEMMA ClusterRunsStep ==
    ASSUME BenchInv, ClusterRuns
    PROVE  /\ Next
           /\ WritesPutRecords'
           /\ UNCHANGED <<writes, benchVars>>
           /\ \A n \in Node, k \in Key : data[n][k] # Missing => data'[n][k] # Missing
           /\ \/ UNCHANGED call
              \/ call[Bench] # Idle /\ data'[Home[Bench]][call[Bench].key] # Missing
<1> USE DEF BenchInv
<1>0. UNCHANGED benchVars /\ Records' = Records
  BY DEF ClusterRuns, benchVars, Records
<1>1. ASSUME StoreThenReplicate(Bench)
      PROVE  /\ WritesPutRecords' /\ UNCHANGED writes
             /\ \A n \in Node, k \in Key : data[n][k] # Missing => data'[n][k] # Missing
             /\ call[Bench] # Idle /\ data'[Home[Bench]][call[Bench].key] # Missing
  <2> DEFINE h == Home[Bench]
             op == call[Bench]
  <2>1. h \in Node /\ op \in Op /\ op # Idle /\ op \in writes /\ data[h] \in Map
    BY <1>1, HomeAssumption, BenchAssumption
       DEF StoreThenReplicate, Inv, TypeOK, CallsAreWrites, Map
  <2>2. /\ data' = [data EXCEPT ![h] = StoreLocally(data[h], op)]
        /\ wire' = wire \cup Broadcast(op, {})
        /\ UNCHANGED <<serving, writes>>
    BY <1>1 DEF StoreThenReplicate
  <2>3. op.key \in Key /\ op.key \in Records /\ op.val.data # Empty /\ ~op.val.deleted
    BY <2>1 DEF WritesPutRecords, Op
  <2>4. op.val \in Value /\ op.val # Missing
    BY <2>1, MissingAssumption DEF Op
  <2>5. /\ StoreLocally(data[h], op)[op.key] = op.val
        /\ \A k \in Key : k # op.key => StoreLocally(data[h], op)[k] = data[h][k]
    BY <2>1, <2>3, StoreLocallyResult
  <2>6. \A m \in Broadcast(op, {}) : m.key \in Records /\ m.data # Empty
    BY <2>3, BroadcastCarries DEF Carries
  <2> HIDE DEF h, op
  <2>7. data'[h] = StoreLocally(data[h], op) /\ \A n \in Node : n # h => data'[n] = data[n]
    BY <2>1, <2>2 DEF Inv, TypeOK
  <2>8. \A n \in Node, k \in Key :
           /\ data[n][k] # Missing => data'[n][k] # Missing
           /\ data'[n][k] # Missing => k \in Records /\ ~data'[n][k].deleted
    BY <2>1, <2>3, <2>4, <2>5, <2>7 DEF WritesPutRecords
  <2>9. WritesPutRecords'
    BY <1>0, <2>2, <2>6, <2>8 DEF WritesPutRecords
  <2> QED BY <2>1, <2>2, <2>4, <2>5, <2>7, <2>8, <2>9 DEF h, op
<1>2. ASSUME NEW m \in serving, ServeApply(m)
      PROVE  /\ WritesPutRecords' /\ UNCHANGED <<writes, call>>
             /\ \A n \in Node, k \in Key : data[n][k] # Missing => data'[n][k] # Missing
  <2>1. m \in Message /\ m.to \in Node /\ m.key \in Key /\ data[m.to] \in Map
    BY DEF Inv, TypeOK, Message, Map
  <2>2. /\ data' = [data EXCEPT ![m.to] = ApplyReplicated(data[m.to], m)]
        /\ serving' = serving \ {m}
        /\ UNCHANGED <<wire, writes, call>>
    BY <1>2 DEF ServeApply
  <2>3. m.key \in Records /\ m.data # Empty
    BY DEF WritesPutRecords
  <2>4. Decode(m) \in Value /\ Decode(m) # Missing
    BY <2>1, DecodeType, MissingAssumption
  <2>5. Decode(m).deleted = (m.data = Empty)
    BY DEF Decode
  <2>6. ~Decode(m).deleted
    BY <2>3, <2>5
  <2>7. data'[m.to] = ApplyReplicated(data[m.to], m)
        /\ \A n \in Node : n # m.to => data'[n] = data[n]
    BY <2>1, <2>2 DEF Inv, TypeOK
  <2>8. \A k \in Key : \/ ApplyReplicated(data[m.to], m)[k] = data[m.to][k]
                       \/ k = m.key /\ ApplyReplicated(data[m.to], m)[k] = Decode(m)
    BY <2>1, ApplyReplicatedResult
  <2>9. \A n \in Node, k \in Key :
           /\ data[n][k] # Missing => data'[n][k] # Missing
           /\ data'[n][k] # Missing => k \in Records /\ ~data'[n][k].deleted
    BY <2>1, <2>3, <2>4, <2>6, <2>7, <2>8 DEF WritesPutRecords
  <2> QED BY <1>0, <2>2, <2>9 DEF WritesPutRecords
<1>3. ASSUME wire' \cup serving' \subseteq wire \cup serving, UNCHANGED <<data, writes, call>>
      PROVE  WritesPutRecords'
  BY <1>0, <1>3 DEF WritesPutRecords
<1>4. ASSUME NEW m \in wire, NEW now \in Wall, Serve(m, now) \/ ServeError(m, now)
      PROVE  wire' \cup serving' \subseteq wire \cup serving /\ UNCHANGED <<data, writes, call>>
  BY <1>4 DEF Serve, ServeError
<1>5. ASSUME NEW m \in wire, Lose(m)
      PROVE  wire' \cup serving' \subseteq wire \cup serving /\ UNCHANGED <<data, writes, call>>
  BY <1>5 DEF Lose
<1>6. Next
  BY BenchAssumption DEF ClusterRuns, Next
<1> QED BY <1>0, <1>1, <1>2, <1>3, <1>4, <1>5, <1>6 DEF ClusterRuns, Deliver

(* The program starts with nothing written.                                *)
LEMMA InitBench == BenchInit => BenchInv
<1> SUFFICES ASSUME BenchInit PROVE BenchInv
  OBVIOUS
<1>1. Inv
  BY InitInv DEF BenchInit
<1>2. ProgramFits
  BY BenchAssumption DEF BenchInit, Init, ProgramFits
<1>3. WritesPutRecords
  BY DEF BenchInit, Init, WritesPutRecords, NewStore
<1>4. RecordsLoaded
  BY DEF BenchInit, RecordsLoaded
<1>5. CountsFit
  <2>1. writes = {} /\ stage = "start" /\ res = [reads |-> 0, writes |-> 0, errors |-> 0]
    BY DEF BenchInit, Init
  <2>2. IsFiniteSet(writes)
    BY <2>1, FS_EmptySet
  <2> QED BY <2>1, <2>2 DEF CountsFit
<1>6. LatenciesFit /\ RowFits
  BY DEF BenchInit, LatenciesFit, RowFits
<1> QED BY <1>1, <1>2, <1>3, <1>4, <1>5, <1>6 DEF BenchInv

(* What an operation that ends does to the counts: it is a read or a       *)
(* write, and if its stamp may be missing it is an error too.              *)
LEMMA EndCounts ==
    ASSUME NEW reads \in Nat, NEW puts \in Nat, NEW errors \in Nat,
           NEW stamped \in Int, NEW failed \in BOOLEAN,
           NEW kind \in {"read", "write", "unsent"}, kind = "unsent" => failed,
           stamped - (IF kind = "write" THEN 1 ELSE 0) \in puts - errors .. puts
    PROVE  LET r == reads + IF kind = "read" THEN 1 ELSE 0
               p == puts + IF kind = "read" THEN 0 ELSE 1
               e == errors + IF failed THEN 1 ELSE 0
           IN  /\ r \in Nat /\ p \in Nat /\ e \in Nat
               /\ r + p = reads + puts + 1
               /\ stamped \in p - e .. p
<1>1. CASE kind = "read"
  BY <1>1
<1>2. CASE kind = "write"
  BY <1>2
<1>3. CASE kind = "unsent"
  BY <1>3
<1> QED BY <1>1, <1>2, <1>3

(* The steps the program takes without the cluster keep what is written    *)
(* where it is.                                                            *)
LEMMA ProgramOnly ==
    ASSUME BenchInv, UNCHANGED <<vars, wl>>
    PROVE  Inv' /\ WritesPutRecords'
<1>1. Inv'
  BY NextInv DEF BenchInv
<1> QED BY <1>1 DEF BenchInv, vars, WritesPutRecords, Records

(* LoadWorkload.                                                           *)
LEMMA StartBench == ASSUME BenchInv, Start PROVE BenchInv'
<1>1. /\ stage = "start" /\ ~loaded /\ next = 0 /\ writes = {} /\ latencies = <<>>
      /\ res = [reads |-> 0, writes |-> 0, errors |-> 0]
      /\ pending = "none" /\ csv \in {NoFile, <<>>, <<Header>>} /\ wl \in Workloads
  BY DEF BenchInv, ProgramFits, CountsFit, Start
<1>2. /\ \/ stage' = "load" /\ loaded' = TRUE /\ Validate(wl)
         \/ stage' = "run" /\ loaded' = FALSE /\ Validate(wl)
         \/ stage' = "fatal" /\ loaded' = FALSE
      /\ UNCHANGED <<vars, wl, next, pending, res, latencies, csv>>
  BY DEF Start
<1>3. Inv' /\ WritesPutRecords' /\ writes' = {}
  BY <1>1, <1>2, ProgramOnly DEF vars
<1>4. /\ wl.recordCount \in Int /\ wl.operationCount \in Int
      /\ Validate(wl) => wl.recordCount > 0 /\ wl.operationCount > 0
  BY <1>1, RecordTypes DEF Validate
<1>5. ProgramFits'
  <2>1. Validate(wl) => Validate(wl)'
    BY <1>2 DEF Validate
  <2>2. loaded' \in BOOLEAN /\ (stage' = "load" => loaded')
    BY <1>2
  <2>3. stage' \in {"load", "run"} => Validate(wl)
    BY <1>2
  <2> QED BY <1>1, <1>2, <1>4, <2>1, <2>2, <2>3 DEF ProgramFits
<1>6. RecordsLoaded'
  BY <1>1, <1>2, <1>4 DEF RecordsLoaded
<1>7. CountsFit'
  <2>1. IsFiniteSet(writes') /\ Cardinality(writes') = 0
    BY <1>3, FS_EmptySet
  <2>2. stage' = "run" => Returned' = 0
    BY <1>1, <1>2, <2>1 DEF Returned, Base
  <2> QED BY <1>1, <1>2, <2>1, <2>2 DEF CountsFit
<1>8. LatenciesFit' /\ RowFits'
  BY <1>1, <1>2 DEF LatenciesFit, RowFits, BenchInv
<1> QED BY <1>3, <1>5, <1>6, <1>7, <1>8 DEF BenchInv

(* A Put of the load phase.                                                *)
LEMMA LoadPutBench ==
    ASSUME BenchInv, NEW now \in Wall, LoadPut(now) PROVE Next /\ BenchInv'
<1>1. /\ stage = "load" /\ next < wl.recordCount /\ next' = next + 1
      /\ UNCHANGED <<stage, wl, pending, res, latencies, loaded, csv>>
  BY DEF LoadPut
<1>2. PICK x \in Payloads : Stamp(Bench, KeyFor[next], x, now)
  BY DEF LoadPut
<1>3. wl \in Workloads /\ next \in Nat /\ wl.recordCount \in Int /\ Validate(wl)
  BY <1>1, RecordTypes DEF BenchInv, ProgramFits
<1>4. next \in 0 .. wl.recordCount - 1
  BY <1>1, <1>3
<1>5. /\ Next
      /\ WritesPutRecords'
      /\ IsFiniteSet(writes') /\ Cardinality(writes') = Cardinality(writes) + 1
      /\ UNCHANGED data
      /\ call[Bench] = Idle /\ call'[Bench] # Idle /\ call'[Bench].key = KeyFor[next]
  BY <1>1, <1>2, <1>3, <1>4, PutStep
<1>6. Inv'
  BY <1>5, NextInv DEF BenchInv
<1>7. ProgramFits'
  BY <1>1, <1>3 DEF BenchInv, ProgramFits, Validate
<1>8. RecordsLoaded'
  BY <1>1, <1>3, <1>5 DEF BenchInv, RecordsLoaded
<1>9. CountsFit'
  BY <1>1, <1>3, <1>5 DEF BenchInv, CountsFit
<1>10. LatenciesFit' /\ RowFits'
  BY <1>1 DEF LatenciesFit, RowFits, BenchInv
<1> QED BY <1>5, <1>6, <1>7, <1>8, <1>9, <1>10 DEF BenchInv

(* The program ends, by an error of the load phase or of the file.         *)
LEMMA FatalBench ==
    ASSUME BenchInv, stage' = "fatal", pending = "none", stage \in {"load", "run"},
           UNCHANGED <<vars, wl, next, pending, res, latencies, loaded, csv>>
    PROVE  BenchInv'
<1>1. Inv' /\ WritesPutRecords' /\ UNCHANGED writes
  BY ProgramOnly DEF vars
<1>2. ProgramFits' /\ RecordsLoaded' /\ CountsFit' /\ LatenciesFit' /\ RowFits'
  BY <1>1 DEF BenchInv, ProgramFits, RecordsLoaded, CountsFit, LatenciesFit, RowFits
<1> QED BY <1>1, <1>2 DEF BenchInv

(* The load phase ends: every record is at the target.                     *)
LEMMA LoadEndsBench == ASSUME BenchInv, LoadEnds PROVE BenchInv'
<1>1. /\ stage = "load" /\ next = wl.recordCount /\ call[Bench] = Idle
      /\ stage' = "run" /\ next' = 0
      /\ UNCHANGED <<vars, wl, pending, res, latencies, loaded, csv>>
  BY DEF LoadEnds
<1>2. Inv' /\ WritesPutRecords' /\ UNCHANGED <<writes, data, call>>
  BY <1>1, ProgramOnly DEF vars
<1>3. /\ wl \in Workloads /\ wl.recordCount \in Int /\ wl.operationCount \in Int
      /\ Validate(wl) /\ loaded /\ pending = "none"
  BY <1>1, RecordTypes DEF BenchInv, ProgramFits
<1>4. ProgramFits'
  BY <1>1, <1>3 DEF BenchInv, ProgramFits, Validate
<1>5. RecordsLoaded'
  BY <1>1, <1>2, <1>3 DEF BenchInv, RecordsLoaded
<1>6. CountsFit'
  <2>1. /\ IsFiniteSet(writes) /\ Cardinality(writes) = wl.recordCount
        /\ res = [reads |-> 0, writes |-> 0, errors |-> 0]
    BY <1>1 DEF BenchInv, CountsFit
  <2>2. Returned' = 0
    BY <1>1, <1>2, <1>3, <2>1 DEF Returned, Base
  <2> QED BY <1>1, <1>2, <2>1, <2>2 DEF CountsFit
<1>7. LatenciesFit' /\ RowFits'
  BY <1>1 DEF BenchInv, ProgramFits, LatenciesFit, RowFits
<1> QED BY <1>2, <1>4, <1>5, <1>6, <1>7 DEF BenchInv

(* An operation begins that stamps nothing.                                *)
LEMMA BeginBench ==
    ASSUME BenchInv, stage = "run", next < wl.operationCount, pending = "none",
           pending' \in {"read", "unsent"},
           UNCHANGED <<vars, stage, wl, next, res, latencies, loaded, csv>>
    PROVE  BenchInv'
<1>1. Inv' /\ WritesPutRecords' /\ UNCHANGED <<writes, data, call>>
  BY ProgramOnly DEF vars
<1>2. ProgramFits'
  BY DEF BenchInv, ProgramFits, Validate
<1>3. RecordsLoaded'
  BY <1>1 DEF BenchInv, RecordsLoaded
<1>4. CountsFit'
  BY <1>1 DEF BenchInv, CountsFit, Returned, Base
<1>5. LatenciesFit' /\ RowFits'
  BY DEF BenchInv, LatenciesFit, RowFits
<1> QED BY <1>1, <1>2, <1>3, <1>4, <1>5 DEF BenchInv

(* An operation begins with a Put: one more stamp, of a Put under way.     *)
LEMMA BeginPutBench ==
    ASSUME BenchInv, NEW op, NEW i \in PickKey(wl), NEW now \in Wall,
           BeginPut(op, i, now)
    PROVE  Next /\ BenchInv'
<1>1. /\ stage = "run" /\ next < wl.operationCount
      /\ pending = "none" /\ pending' = "write"
      /\ UNCHANGED <<stage, wl, next, res, latencies, loaded, csv>>
  BY DEF BeginPut, Picks
<1>2. PICK x \in Payloads : Stamp(Bench, KeyFor[i], x, now)
  BY DEF BeginPut
<1>3. i \in 0 .. wl.recordCount - 1 /\ Validate(wl) /\ wl \in Workloads
  BY <1>1, PicksAreRecords DEF BenchInv, ProgramFits
<1>4. /\ Next
      /\ WritesPutRecords'
      /\ IsFiniteSet(writes') /\ Cardinality(writes') = Cardinality(writes) + 1
      /\ UNCHANGED data
  BY <1>1, <1>2, <1>3, PutStep
<1>5. Inv'
  BY <1>4, NextInv DEF BenchInv
<1>6. ProgramFits'
  BY <1>1, <1>3 DEF BenchInv, ProgramFits, Validate
<1>7. RecordsLoaded'
  BY <1>1, <1>4 DEF BenchInv, RecordsLoaded
<1>8. CountsFit'
  <2>1. Cardinality(writes) \in Nat /\ Base \in Int
    BY <1>3, RecordTypes, FS_CardinalityType DEF BenchInv, CountsFit, Base
  <2>2. Base' = Base
    BY <1>1 DEF Base
  <2>3. Returned' = Returned
    BY <1>1, <1>4, <2>1, <2>2 DEF Returned
  <2> QED BY <1>1, <1>4, <2>3 DEF BenchInv, CountsFit
<1>9. LatenciesFit' /\ RowFits'
  BY <1>1 DEF BenchInv, LatenciesFit, RowFits
<1> QED BY <1>4, <1>5, <1>6, <1>7, <1>8, <1>9 DEF BenchInv

(* An operation ends and is counted.                                       *)
LEMMA EndBench ==
    ASSUME BenchInv, pending \in {"read", "write", "unsent"},
           NEW failed \in BOOLEAN, NEW took \in Latency, EndOperation(failed, took)
    PROVE  BenchInv'
<1>1. /\ next' = next + 1 /\ pending' = "none" /\ pending # "none"
      /\ pending = "unsent" => failed
      /\ latencies' = Append(latencies, took)
      /\ res' = [reads |-> res.reads + IF pending = "read" THEN 1 ELSE 0,
                 writes |-> res.writes + IF pending = "read" THEN 0 ELSE 1,
                 errors |-> res.errors + IF failed THEN 1 ELSE 0]
      /\ UNCHANGED <<vars, stage, wl, loaded, csv>>
  BY DEF EndOperation, RecordLatency
<1>2. /\ stage = "run" /\ next < wl.operationCount /\ next \in Nat
      /\ wl \in Workloads /\ wl.operationCount \in Int
  BY <1>1, RecordTypes DEF BenchInv, ProgramFits
<1>3. Inv' /\ WritesPutRecords' /\ UNCHANGED <<writes, data, call>>
  BY <1>1, ProgramOnly DEF vars
<1>4. ProgramFits'
  BY <1>1, <1>2 DEF BenchInv, ProgramFits, Validate
<1>5. RecordsLoaded'
  BY <1>1, <1>2, <1>3 DEF BenchInv, RecordsLoaded
<1>6. CountsFit'
  <2> DEFINE stamped == Cardinality(writes) - Base
  <2>1. /\ IsFiniteSet(writes) /\ stamped \in Int
        /\ res.reads \in Nat /\ res.writes \in Nat /\ res.errors \in Nat
        /\ next = res.reads + res.writes
    BY <1>2, RecordTypes, FS_CardinalityType DEF BenchInv, CountsFit, Base
  <2>2. Returned \in res.writes - res.errors .. res.writes
    BY <1>2 DEF BenchInv, CountsFit
  <2>3. Returned = stamped - (IF pending = "write" THEN 1 ELSE 0)
    BY DEF Returned
  <2>4. stamped' = stamped
    BY <1>1, <1>3 DEF Base
  <2>5. Returned' = stamped
    BY <1>1, <2>1, <2>4 DEF Returned
  <2> HIDE DEF stamped
  <2>6. /\ res'.reads \in Nat /\ res'.writes \in Nat /\ res'.errors \in Nat
        /\ res'.reads + res'.writes = res.reads + res.writes + 1
        /\ stamped \in res'.writes - res'.errors .. res'.writes
    <3>1. /\ res'.reads = res.reads + IF pending = "read" THEN 1 ELSE 0
          /\ res'.writes = res.writes + IF pending = "read" THEN 0 ELSE 1
          /\ res'.errors = res.errors + IF failed THEN 1 ELSE 0
      BY <1>1
    <3>2. stamped - (IF pending = "write" THEN 1 ELSE 0)
             \in res.writes - res.errors .. res.writes
      BY <2>2, <2>3
    <3>3. pending = "unsent" => failed
      BY <1>1
    <3> QED BY <2>1, <3>1, <3>2, <3>3, EndCounts
  <2> QED BY <1>1, <1>2, <1>3, <2>1, <2>5, <2>6 DEF CountsFit
<1>7. LatenciesFit'
  <2>1. latencies \in Seq(Nat) /\ Len(latencies) = next /\ took \in Nat
    BY <1>2, LatencyAssumption DEF BenchInv, LatenciesFit
  <2> QED BY <1>1, <2>1 DEF LatenciesFit
<1>8. RowFits'
  BY <1>1, <1>2 DEF RowFits
<1> QED BY <1>3, <1>4, <1>5, <1>6, <1>7, <1>8 DEF BenchInv

(* The run returns and its row is appended.                                *)
LEMMA SummaryBench == ASSUME BenchInv, WriteSummaryCSV PROVE BenchInv'
<1> DEFINE row == [operations |-> next, counts |-> res, latency |-> Summarize(latencies)]
<1>1. /\ stage = "run" /\ next = wl.operationCount /\ stage' = "done"
      /\ csv' = (IF csv = NoFile THEN <<Header>> ELSE csv) \o <<row>>
      /\ UNCHANGED <<vars, wl, next, pending, res, latencies, loaded>>
  BY DEF WriteSummaryCSV
<1>2. /\ pending = "none" /\ csv \in {NoFile, <<>>, <<Header>>} /\ wl \in Workloads
      /\ next \in Nat /\ Validate(wl)
  BY <1>1, RecordTypes DEF BenchInv, ProgramFits
<1>3. Inv' /\ WritesPutRecords' /\ UNCHANGED <<writes, data, call>>
  BY <1>1, ProgramOnly DEF vars
<1>4. ProgramFits'
  BY <1>1, <1>2 DEF BenchInv, ProgramFits, Validate
<1>5. RecordsLoaded'
  BY <1>1, <1>3 DEF BenchInv, RecordsLoaded
<1>6. CountsFit' /\ LatenciesFit'
  BY <1>1, <1>3 DEF BenchInv, CountsFit, Returned, Base, LatenciesFit
<1>7. RowFits'
  <2> HIDE DEF row
  <2> DEFINE old == IF csv = NoFile THEN <<Header>> ELSE csv
  <2>1. old = <<>> \/ old = <<Header>>
    BY <1>2
  <2>2. csv' = old \o <<row>>
    BY <1>1
  <2>3. csv'[Len(csv')] = row
    <3>1. /\ Len(<<>> \o <<row>>) = 1 /\ (<<>> \o <<row>>)[1] = row
          /\ Len(<<Header>> \o <<row>>) = 2 /\ (<<Header>> \o <<row>>)[2] = row
      OBVIOUS
    <3> HIDE DEF old
    <3> QED BY <2>1, <2>2, <3>1
  <2>4. row' = row
    BY <1>1 DEF row
  <2> QED BY <1>1, <1>2, <2>3, <2>4 DEF RowFits, row
<1> QED BY <1>3, <1>4, <1>5, <1>6, <1>7 DEF BenchInv

(* The cluster's own steps.                                                *)
LEMMA ClusterRunsBench == ASSUME BenchInv, ClusterRuns PROVE Next /\ BenchInv'
<1>1. /\ Next
      /\ WritesPutRecords'
      /\ UNCHANGED <<writes, benchVars>>
      /\ \A n \in Node, k \in Key : data[n][k] # Missing => data'[n][k] # Missing
      /\ \/ UNCHANGED call
         \/ call[Bench] # Idle /\ data'[Home[Bench]][call[Bench].key] # Missing
  BY ClusterRunsStep
<1>2. UNCHANGED <<writes, stage, wl, next, pending, res, latencies, loaded, csv>>
  BY <1>1 DEF benchVars
<1>3. Inv'
  BY <1>1, NextInv DEF BenchInv
<1>4. ProgramFits'
  <2>1. stage = "start" => call[Bench] = Idle
    BY DEF BenchInv, ProgramFits
  <2>2. stage' = "start" => call'[Bench] = Idle
    BY <1>1, <1>2, <2>1
  <2> QED BY <1>2, <2>2 DEF BenchInv, ProgramFits, Validate
<1>5. RecordsLoaded'
  <2> SUFFICES ASSUME NEW i \in 0 .. wl.recordCount - 1
               PROVE  \/ data'[Home[Bench]][KeyFor[i]] # Missing
                      \/ /\ stage = "load" /\ call'[Bench] # Idle
                         /\ call'[Bench].key = KeyFor[i]
                      \/ stage = "load" /\ i >= next
                      \/ stage \in {"start", "fatal"} \/ ~loaded
    BY <1>2 DEF RecordsLoaded
  <2>1. Home[Bench] \in Node /\ KeyFor[i] \in Key
    BY RecordTypes, HomeAssumption, BenchAssumption DEF BenchInv, ProgramFits
  <2> QED BY <1>1, <2>1 DEF BenchInv, RecordsLoaded
<1>6. CountsFit' /\ LatenciesFit' /\ RowFits'
  BY <1>2 DEF BenchInv, CountsFit, Returned, Base, LatenciesFit, RowFits
<1> QED BY <1>1, <1>3, <1>4, <1>5, <1>6 DEF BenchInv

(* Every step of the program and of the cluster under it is one the        *)
(* cluster may take, and keeps the invariant.                              *)
LEMMA NextBench ==
    BenchInv /\ [BenchNext]_benchAllVars => [Next]_vars /\ BenchInv'
<1> SUFFICES ASSUME BenchInv, [BenchNext]_benchAllVars
             PROVE  [Next]_vars /\ BenchInv'
  OBVIOUS
<1>1. CASE Start
  BY <1>1, StartBench DEF Start
<1>2. ASSUME NEW now \in Wall, LoadPut(now) PROVE Next /\ BenchInv'
  BY <1>2, LoadPutBench
<1>3. ASSUME NEW now \in Wall, LoadFails(now) PROVE UNCHANGED vars /\ BenchInv'
  <2>1. /\ stage = "load" /\ stage' = "fatal"
        /\ UNCHANGED <<vars, wl, next, pending, res, latencies, loaded, csv>>
    BY <1>3 DEF LoadFails
  <2>2. pending = "none"
    BY <2>1 DEF BenchInv, ProgramFits
  <2> QED BY <2>1, <2>2, FatalBench
<1>4. CASE LoadEnds
  BY <1>4, LoadEndsBench DEF LoadEnds
<1>5. CASE BeginGet
  BY <1>5, BeginBench DEF BeginGet, Picks
<1>6. ASSUME NEW op, NEW now \in Wall, BeginPutFailing(op, now)
      PROVE  UNCHANGED vars /\ BenchInv'
  BY <1>6, BeginBench DEF BeginPutFailing, Picks
<1>7. ASSUME NEW op, NEW now \in Wall, NEW i \in PickKey(wl), BeginPut(op, i, now)
      PROVE  Next /\ BenchInv'
  BY <1>7, BeginPutBench
<1>8. ASSUME NEW failed \in BOOLEAN, NEW took \in Latency, EndOperation(failed, took)
      PROVE  UNCHANGED vars /\ BenchInv'
  <2>1. pending \in {"read", "write", "unsent"}
    BY <1>8 DEF EndOperation, BenchInv, ProgramFits
  <2> QED BY <1>8, <2>1, EndBench DEF EndOperation
<1>9. CASE WriteSummaryCSV
  BY <1>9, SummaryBench DEF WriteSummaryCSV
<1>10. CASE SummaryFails
  <2>1. /\ stage = "run" /\ next = wl.operationCount /\ stage' = "fatal"
        /\ UNCHANGED <<vars, wl, next, pending, res, latencies, loaded, csv>>
    BY <1>10 DEF SummaryFails
  <2>2. next \in Nat /\ pending = "none"
    BY <2>1 DEF BenchInv, ProgramFits
  <2> QED BY <2>1, <2>2, FatalBench
<1>11. CASE ClusterRuns
  BY <1>11, ClusterRunsBench
<1>12. CASE UNCHANGED benchAllVars
  <2>1. UNCHANGED <<vars, stage, wl, next, pending, res, latencies, loaded, csv>>
    BY <1>12 DEF benchAllVars, benchVars
  <2>2. Inv' /\ WritesPutRecords' /\ UNCHANGED <<writes, data, call>>
    BY <2>1, ProgramOnly DEF vars
  <2>3. ProgramFits' /\ RecordsLoaded' /\ CountsFit' /\ LatenciesFit' /\ RowFits'
    BY <2>1, <2>2 DEF BenchInv, ProgramFits, Validate, RecordsLoaded, CountsFit,
                      Returned, Base, LatenciesFit, RowFits
  <2> QED BY <2>1, <2>2, <2>3 DEF BenchInv
<1> QED BY <1>1, <1>2, <1>3, <1>4, <1>5, <1>6, <1>7, <1>8, <1>9, <1>10, <1>11, <1>12
        DEF BenchNext, Finished

(* The invariant holds in every behaviour of the program.                  *)
THEOREM BenchInvariant == BenchSpec => []BenchInv
BY InitBench, NextBench, PTL DEF BenchSpec

(* What the program does is one of the things clients may do to a cluster  *)
(* in eventual mode: all that is proved of the cluster holds under it.     *)
THEOREM BenchIsAClient == BenchSpec => Spec
<1>1. BenchInit => Init
  BY DEF BenchInit
<1> QED BY <1>1, InitBench, NextBench, PTL DEF BenchSpec, Spec

(* No replica takes a record for deleted, and after the load phase the     *)
(* target finds every record, whatever the operations and the late         *)
(* requests of earlier Puts do.                                            *)
THEOREM RecordsAreKept == BenchSpec => []RecordsStay
<1>1. BenchInv => RecordsStay
  <2> SUFFICES ASSUME BenchInv PROVE RecordsStay
    OBVIOUS
  <2>1. \A n \in Node, k \in Key : data[n][k] # Missing => Found(data[n], k)
    BY DEF BenchInv, WritesPutRecords, Found
  <2>2. ASSUME loaded, stage \in {"run", "done"}, NEW i \in 0 .. wl.recordCount - 1
        PROVE  Found(data[Home[Bench]], KeyFor[i])
    <3>1. Home[Bench] \in Node /\ KeyFor[i] \in Key
      BY RecordTypes, HomeAssumption, BenchAssumption DEF BenchInv, ProgramFits
    <3> QED BY <2>1, <2>2, <3>1 DEF BenchInv, RecordsLoaded
  <2> QED BY <2>1, <2>2 DEF RecordsStay, Records
<1> QED BY <1>1, BenchInvariant, PTL

(* Run measures hits: every record pickKey may come up with is found at    *)
(* the target, for any number of records, either distribution and any hash.*)
THEOREM RunOnlyHitsRecords == BenchSpec => []RunHitsRecords
<1>1. BenchInv => RunHitsRecords
  <2> SUFFICES ASSUME BenchInv, loaded, stage = "run", NEW i \in PickKey(wl)
               PROVE  KeyFor[i] \in Records /\ Found(data[Home[Bench]], KeyFor[i])
    BY DEF RunHitsRecords
  <2>1. i \in 0 .. wl.recordCount - 1
    BY PicksAreRecords DEF BenchInv, ProgramFits
  <2>2. Home[Bench] \in Node /\ KeyFor[i] \in Key
    BY <2>1, RecordTypes, HomeAssumption, BenchAssumption DEF BenchInv, ProgramFits
  <2>3. data[Home[Bench]][KeyFor[i]] # Missing
    BY <2>1 DEF BenchInv, RecordsLoaded
  <2> QED BY <2>1, <2>2, <2>3 DEF Records, Found, BenchInv, WritesPutRecords
<1> QED BY <1>1, BenchInvariant, PTL

(* A finished run reports every operation once, one latency each, and its  *)
(* writes beyond its errors are the node's stamps.                         *)
THEOREM ResultIsExact == BenchSpec => []ResultAddsUp
<1>1. BenchInv => ResultAddsUp
  <2> SUFFICES ASSUME BenchInv, stage = "done" PROVE ResultAddsUp
    BY DEF ResultAddsUp
  <2> DEFINE row == csv[Len(csv)]
  <2>1. row = [operations |-> next, counts |-> res, latency |-> Summarize(latencies)]
    BY DEF BenchInv, RowFits
  <2>2. row.operations = next /\ row.counts = res
    BY <2>1
  <2>3. next = wl.operationCount /\ pending = "none" /\ Len(latencies) = next
    BY DEF BenchInv, RowFits, LatenciesFit
  <2>4. wl \in Workloads /\ Cardinality(writes) \in Nat /\ Base \in Int
    BY RecordTypes, FS_CardinalityType DEF BenchInv, ProgramFits, CountsFit, Base
  <2>5. /\ next = res.reads + res.writes
        /\ Returned \in res.writes - res.errors .. res.writes
    BY DEF BenchInv, CountsFit
  <2>6. Returned = Cardinality(writes) - Base
    BY <2>3, <2>4 DEF Returned
  <2> QED BY <2>1, <2>2, <2>3, <2>5, <2>6 DEF ResultAddsUp, Base
<1> QED BY <1>1, BenchInvariant, PTL

----------------------------------------------------------------------------
(* The index of the driver's percentile, without its sort: what sort.Slice *)
(* computes is out of the provers' reach, that its result may be indexed   *)
(* in this way is not.                                                     *)

(* The p-th share of the other operations, in hundredths.                  *)
Share(n, p) == (n - 1) * p

(* An index of Go, from 0, of a slice of n elements.                       *)
InSlice(x, n) == x \in Nat /\ x + 1 \in 1 .. n

(* x is the p-th share of the others rounded down, inside the slice.       *)
IsIndex(x, n, p) ==
    /\ InSlice(x, n)
    /\ Share(n, p) \in Int
    /\ 100 * x <= Share(n, p)
    /\ Share(n, p) < 100 * (x + 1)

(* What Index computes, for the three percentiles that are reported.       *)
LEMMA IndexIsShare ==
    ASSUME NEW n \in Nat \ {0}, NEW p \in {50, 95, 99}
    PROVE  IsIndex(Index(n, p), n, p)
<1> USE DEF IsIndex, InSlice, Index, Share
<1>1. CASE p = 50
  BY <1>1
<1>2. CASE p = 95
  BY <1>2
<1>3. CASE p = 99
  BY <1>3
<1> QED BY <1>1, <1>2, <1>3

(* t is s in order: f says where each element of t comes from.             *)
InOrder(t, s, n, f) ==
    /\ n \in Nat /\ s \in [1 .. n -> Nat]
    /\ f \in [1 .. n -> 1 .. n]
    /\ \A i, j \in 1 .. n : f[i] = f[j] => i = j
    /\ \A j \in 1 .. n : \E i \in 1 .. n : f[i] = j
    /\ \A i \in 1 .. n : t[i] = s[f[i]]
    /\ \A i, j \in 1 .. n : i <= j => t[i] <= t[j]

(* The elements of s below v, and those not above it.                      *)
Below(s, n, v) == {i \in 1 .. n : s[i] < v}
NotAbove(s, n, v) == {i \in 1 .. n : s[i] <= v}

(* v has the rank of the p-th percentile of s.                             *)
HasRank(v, s, n, p) ==
    /\ 100 * Cardinality(Below(s, n, v)) <= Share(n, p)
    /\ Share(n, p) < 100 * Cardinality(NotAbove(s, n, v))

(* Fewer than x elements are below the x-th in order.                      *)
LEMMA FewBelow ==
    ASSUME NEW n, NEW s, NEW t, NEW f, InOrder(t, s, n, f), NEW x, InSlice(x, n)
    PROVE  Cardinality(Below(s, n, t[x + 1])) <= x
<1> n \in Nat /\ s \in [1 .. n -> Nat] /\ x \in Nat /\ x + 1 \in 1 .. n
  BY DEF InOrder, InSlice
<1> DEFINE S == {i \in 1 .. n : s[i] < t[x + 1]}
           g == [j \in S |-> CHOOSE i \in 1 .. n : f[i] = j]
<1>1. ASSUME NEW j \in S PROVE g[j] \in 1 .. n /\ f[g[j]] = j
  BY DEF InOrder
<1>2. ASSUME NEW j \in S PROVE g[j] \in 1 .. x
  <2> HIDE DEF g
  <2>1. g[j] \in 1 .. n /\ t[g[j]] = s[j] /\ s[j] \in Nat /\ s[j] < t[x + 1]
    BY <1>1 DEF InOrder
  <2>2. t[x + 1] \in Nat
    <3>1. f[x + 1] \in 1 .. n /\ t[x + 1] = s[f[x + 1]]
      BY DEF InOrder
    <3> QED BY <3>1
  <2>3. x + 1 <= g[j] => t[x + 1] <= t[g[j]]
    BY <2>1 DEF InOrder
  <2> QED BY <2>1, <2>2, <2>3
<1>3. IsFiniteSet(S) /\ IsFiniteSet(1 .. x) /\ Cardinality(1 .. x) = x
  <2>1. IsFiniteSet(1 .. n)
    BY FS_Interval
  <2>2. S \subseteq 1 .. n
    OBVIOUS
  <2> HIDE DEF S
  <2>3. IsFiniteSet(S)
    BY <2>1, <2>2, FS_Subset
  <2>4. IsFiniteSet(1 .. x) /\ Cardinality(1 .. x) = x
    BY FS_Interval
  <2> QED BY <2>3, <2>4
<1>4. g \in [S -> 1 .. x]
  BY <1>2
<1>5. \A i, j \in S : g[i] = g[j] => i = j
  BY <1>1
<1> HIDE DEF S, g
<1>6. ~(Cardinality(1 .. x) < Cardinality(S))
  BY <1>3, <1>4, <1>5, FS_PigeonHole
<1>7. Cardinality(S) \in Nat
  BY <1>3, FS_CardinalityType
<1>8. Cardinality(S) <= x
  BY <1>3, <1>6, <1>7
<1> QED BY <1>8 DEF S, Below

(* At least x elements are no more than the x-th in order.                 *)
LEMMA EnoughNotAbove ==
    ASSUME NEW n, NEW s, NEW t, NEW f, InOrder(t, s, n, f), NEW x, InSlice(x, n)
    PROVE  x + 1 <= Cardinality(NotAbove(s, n, t[x + 1]))
<1> n \in Nat /\ s \in [1 .. n -> Nat] /\ x \in Nat /\ x + 1 \in 1 .. n
  BY DEF InOrder, InSlice
<1> DEFINE S == {i \in 1 .. n : s[i] <= t[x + 1]}
           h == [i \in 1 .. x + 1 |-> f[i]]
<1>1. ASSUME NEW i \in 1 .. x + 1 PROVE i \in 1 .. n /\ f[i] \in S
  <2>1. i \in 1 .. n /\ i <= x + 1
    OBVIOUS
  <2>2. f[i] \in 1 .. n /\ t[i] = s[f[i]] /\ t[i] <= t[x + 1]
    BY <2>1 DEF InOrder
  <2> QED BY <2>1, <2>2
<1>2. IsFiniteSet(S) /\ IsFiniteSet(1 .. x + 1) /\ Cardinality(1 .. x + 1) = x + 1
  <2>1. IsFiniteSet(1 .. n)
    BY FS_Interval
  <2>2. S \subseteq 1 .. n
    OBVIOUS
  <2> HIDE DEF S
  <2>3. IsFiniteSet(S)
    BY <2>1, <2>2, FS_Subset
  <2>4. IsFiniteSet(1 .. x + 1) /\ Cardinality(1 .. x + 1) = x + 1
    BY FS_Interval
  <2> QED BY <2>3, <2>4
<1>3. h \in [1 .. x + 1 -> S]
  <2> HIDE DEF S
  <2> QED BY <1>1
<1>4. \A i, j \in 1 .. x + 1 : h[i] = h[j] => i = j
  <2> HIDE DEF S
  <2> QED BY <1>1 DEF InOrder
<1> HIDE DEF S, h
<1>5. ~(Cardinality(S) < Cardinality(1 .. x + 1))
  BY <1>2, <1>3, <1>4, FS_PigeonHole
<1>6. Cardinality(S) \in Nat
  BY <1>2, FS_CardinalityType
<1>7. x + 1 <= Cardinality(S)
  BY <1>2, <1>5, <1>6
<1> QED BY <1>7 DEF S, NotAbove

(* The element at the index that percentile computes, by rank.             *)
LEMMA RankOfIndex ==
    ASSUME NEW n, n # 0, NEW s, NEW t, NEW f, InOrder(t, s, n, f),
           NEW p \in {50, 95, 99}, NEW v, v = t[Index(n, p) + 1]
    PROVE  HasRank(v, s, n, p)
<1> DEFINE x == Index(n, p)
<1>1. IsIndex(x, n, p)
  <2>1. n \in Nat \ {0}
    BY DEF InOrder
  <2> QED BY <2>1, IndexIsShare
<1>2. v = t[x + 1]
  OBVIOUS
<1> HIDE DEF x
<1>3. PICK q \in Int : q = Share(n, p)
  BY <1>1 DEF IsIndex
<1>4. InSlice(x, n) /\ x \in Nat /\ n \in Nat /\ 100 * x <= q /\ q < 100 * (x + 1)
  BY <1>1, <1>3 DEF IsIndex, InSlice, InOrder
<1>5. Cardinality(Below(s, n, t[x + 1])) <= x
  BY <1>4, FewBelow
<1>6. x + 1 <= Cardinality(NotAbove(s, n, t[x + 1]))
  BY <1>4, EnoughNotAbove
<1>7. /\ Cardinality(Below(s, n, t[x + 1])) \in Nat
      /\ Cardinality(NotAbove(s, n, t[x + 1])) \in Nat
  <2>1. IsFiniteSet(1 .. n)
    BY <1>4, FS_Interval
  <2>2. Below(s, n, t[x + 1]) \subseteq 1 .. n /\ NotAbove(s, n, t[x + 1]) \subseteq 1 .. n
    BY DEF Below, NotAbove
  <2> QED BY <2>1, <2>2, FS_Subset, FS_CardinalityType
<1> QED BY <1>2, <1>3, <1>4, <1>5, <1>6, <1>7 DEF HasRank

(* percentile(sorted, p), of the latencies in order, is their percentile   *)
(* by rank: at most the p-th share of the other operations was faster, and *)
(* more than it was no slower.                                             *)
THEOREM PercentileIsByRank ==
    ASSUME latencies \in Seq(Nat), latencies # <<>>,
           NEW sorted \in Seq(Nat), Len(sorted) = Len(latencies),
           NEW f, InOrder(sorted, latencies, Len(latencies), f),
           NEW p \in {50, 95, 99}
    PROVE  IsPercentile(Percentile(sorted, p), p)
<1> DEFINE n == Len(latencies)
           v == sorted[Index(n, p) + 1]
<1>1. n # 0 /\ Len(sorted) = n /\ InOrder(sorted, latencies, n, f)
  OBVIOUS
<1>2. Percentile(sorted, p) = v
  <2>1. sorted # <<>>
    BY <1>1
  <2> QED BY <1>1, <2>1 DEF Percentile
<1>3. v = sorted[Index(n, p) + 1]
  OBVIOUS
<1> HIDE DEF n, v
<1>4. HasRank(v, latencies, n, p)
  <2>1. \A m, s, t, g, w :
            m # 0 /\ InOrder(t, s, m, g) /\ w = t[Index(m, p) + 1] => HasRank(w, s, m, p)
    BY RankOfIndex
  <2> QED BY <1>1, <1>3, <2>1
<1> QED BY <1>2, <1>4 DEF IsPercentile, HasRank, Share, Below, NotAbove, n
============================================================================
