------------------------------- MODULE Store -------------------------------
(***************************************************************************)
(* The key-value map of internal/store/store.go as operators on a map d,   *)
(* d \in [Key -> Value \cup {Missing}].  Every method of store.Store runs  *)
(* under its mutex, so each operator is one atomic step of a caller.       *)
(*                                                                         *)
(* A payload is a member of Data; Empty is the payload of length zero.     *)
(* store.Value also carries Deps, which nothing reads back from the store, *)
(* so they are not kept here.  The field `by' is auxiliary: it names the   *)
(* client whose call produced the value and no operator looks at it.       *)
(***************************************************************************)
EXTENDS HLC

CONSTANTS
    Key,
    Data,      \* payloads clients Put
    Empty,     \* the payload of length 0, which may be one of them
    Missing,   \* an absent map entry
    Client     \* callers of the KVStore service

Value == [data : Data \cup {Empty}, deleted : BOOLEAN, ts : Timestamp, by : Client]

ASSUME MissingAssumption == Missing \notin Value /\ Missing \notin Data

Dependency == [key : Key, minTS : Timestamp]

NewStore == [k \in Key |-> Missing]

Tombstone(ts, c) == [data |-> Empty, deleted |-> TRUE, ts |-> ts, by |-> c]

Put(d, k, v) == [d EXCEPT ![k] = v]

Delete(d, k, ts, c) == [d EXCEPT ![k] = Tombstone(ts, c)]

----------------------------------------------------------------------------
(* Plausible mistakes.                                                     *)

AcceptsOlder(d, k, ts) == d[k] = Missing \/ Compare(ts, d[k].ts) <= 0

AcceptsWallOnly(d, k, ts) == d[k] = Missing \/ ts.wall > d[k].ts.wall

----------------------------------------------------------------------------
(* The last-write-wins test shared by Apply and ApplyDelete.               *)
Accepts(d, k, ts) == d[k] = Missing \/ ~(Compare(ts, d[k].ts) <= 0)

Apply(d, k, v) == IF Accepts(d, k, v.ts) THEN Put(d, k, v) ELSE d

ApplyDelete(d, k, ts, c) == IF Accepts(d, k, ts) THEN Delete(d, k, ts, c) ELSE d

(* Get: a tombstone is not found.                                          *)
Found(d, k) == d[k] # Missing /\ ~d[k].deleted

(* GetVersion: tombstones count, a missing key has the zero timestamp.     *)
GetVersion(d, k) == IF d[k] = Missing THEN ZeroTS ELSE d[k].ts
============================================================================
