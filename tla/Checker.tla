------------------------------ MODULE Checker ------------------------------
(***************************************************************************)
(* The consistency checker beside a cluster in eventual mode.              *)
(* WaitForConvergence repeats CheckKeys until a pass finds every key equal *)
(* at all nodes or the time is up; CheckKeys asks one node after the other *)
(* for one key after the other, and the cluster runs on in between.        *)
(*                                                                         *)
(* A response is what Visible gives, found and bytes together.  Of the     *)
(* report only the keys with Consistent = FALSE are kept; the report as a  *)
(* whole is consistent when there is none.  Time is two flags, set in any  *)
(* order or never: the settle deadline and the timeout of the context.     *)
(***************************************************************************)
EXTENDS EventualCluster, Sequences

CONSTANTS
    Addrs,   \* the nodes of --nodes, in order
    Keys,    \* the keys to check, in order
    NoRef,   \* haveRef = false
    Flaky    \* whether a Get of the checker may fail

ASSUME AddrsAssumption == Addrs \in Seq(Node) /\ Addrs # <<>>
ASSUME KeysAssumption == Keys \in Seq(Key)
ASSUME NoRefAssumption == NoRef \notin Data \cup {Empty, Missing}
ASSUME FlakyAssumption == Flaky \in BOOLEAN

VARIABLES
    phase,     \* where WaitForConvergence is, and how it returned
    key,       \* the position of the loop over keys
    addr,      \* the position of the loop over c.Clients
    ref,       \* ref, refFound and haveRef of this key
    bad,       \* keys of this pass with Consistent = FALSE
    late,      \* the settle deadline has passed
    done,      \* ctx is done, by its timeout
    quiet,     \* history: the cluster was and is at rest since the pass began
    erred      \* history: a Get has failed

passVars == <<key, addr, ref, bad>>
checkerVars == <<phase, key, addr, ref, bad, late, done, quiet, erred>>
allVars == <<vars, checkerVars>>

CheckInit ==
    /\ Init
    /\ phase = "start"
    /\ key = 1 /\ addr = 1 /\ ref = NoRef /\ bad = {}
    /\ late = FALSE
    /\ done = FALSE
    /\ quiet = FALSE
    /\ erred = FALSE

----------------------------------------------------------------------------
(* Plausible mistakes.                                                     *)

(* haveRef is declared outside the loop over the keys.                     *)
NextRefKept(r) == r

(* The inner loop runs one client too far.                                 *)
AdvanceOverruns ==
    IF addr > Len(Addrs)
    THEN key' = key + 1 /\ addr' = 1
    ELSE key' = key /\ addr' = addr + 1

(* Every pass adds to the same report.                                     *)
CheckKeysAddsUp ==
    /\ phase = "start" \/ (phase = "pausing" /\ ~done)
    /\ phase' = "reading"
    /\ key' = 1 /\ addr' = 1 /\ ref' = NoRef
    /\ quiet' = Quiescent
    /\ UNCHANGED <<vars, bad, late, done, erred>>

(* The loop looks at the report only.                                      *)
TooLateNever == FALSE

----------------------------------------------------------------------------
(* CheckKeys begins a pass: at the start, and after each pause that ctx    *)
(* does not end.                                                           *)
CheckKeys ==
    /\ phase = "start" \/ (phase = "pausing" /\ ~done)
    /\ phase' = "reading"
    /\ key' = 1 /\ addr' = 1 /\ ref' = NoRef /\ bad' = {}
    /\ quiet' = Quiescent
    /\ UNCHANGED <<vars, late, done, erred>>

(* The reference for the next Get, which may be the first of a new key.    *)
NextRef(r) == IF addr = Len(Addrs) THEN NoRef ELSE r

Advance ==
    IF addr = Len(Addrs)
    THEN key' = key + 1 /\ addr' = 1
    ELSE key' = key /\ addr' = addr + 1

(* A node answers: the first answer for a key is the reference.            *)
GetAnswered ==
    LET answer == Visible(data[Addrs[addr]], Keys[key])
    IN  /\ phase = "reading"
        /\ key <= Len(Keys)
        /\ ~done
        /\ bad' = IF ref \notin {NoRef, answer} THEN bad \cup {Keys[key]} ELSE bad
        /\ ref' = NextRef(IF ref = NoRef THEN answer ELSE ref)
        /\ Advance
        /\ UNCHANGED <<vars, phase, late, done, quiet, erred>>

(* A Get fails, as every Get does once ctx is done: the key counts as      *)
(* inconsistent, the loop goes on.                                         *)
GetFailed ==
    /\ Flaky \/ done
    /\ phase = "reading"
    /\ key <= Len(Keys)
    /\ bad' = bad \cup {Keys[key]}
    /\ ref' = NextRef(ref)
    /\ Advance
    /\ erred' = TRUE
    /\ UNCHANGED <<vars, phase, late, done, quiet>>

(* time.Now().After(deadline)                                              *)
TooLate == late

(* WaitForConvergence after a pass: success, error, or another pass after  *)
(* 100 ms.                                                                 *)
PassEnds ==
    /\ phase = "reading"
    /\ key > Len(Keys)
    /\ phase' = CASE bad = {} -> "consistent"
                  [] bad # {} /\ TooLate -> "diverged"
                  [] OTHER -> "pausing"
    /\ UNCHANGED <<vars, passVars, late, done, quiet, erred>>

(* ctx.Done() ends the pause.                                              *)
ContextDone ==
    /\ phase = "pausing"
    /\ done
    /\ phase' = "diverged"
    /\ UNCHANGED <<vars, passVars, late, done, quiet, erred>>

TimePasses ==
    /\ \/ ~late /\ late' = TRUE /\ done' = done
       \/ ~done /\ done' = TRUE /\ late' = late
    /\ UNCHANGED <<vars, phase, passVars, quiet, erred>>

(* A step of the cluster beside the checker.                               *)
ClusterStep ==
    /\ Next
    /\ quiet' = (quiet /\ vars' = vars)
    /\ UNCHANGED <<phase, passVars, late, done, erred>>

(* The steps of WaitForConvergence when the nodes answer.                  *)
Proceed ==
    \/ CheckKeys
    \/ GetAnswered
    \/ done /\ GetFailed
    \/ PassEnds
    \/ ContextDone

CheckNext ==
    \/ ClusterStep
    \/ Proceed
    \/ GetFailed
    \/ TimePasses

(* The cluster is fair as in EventualCluster, the nodes answer a Get that  *)
(* ctx does not end, and the checker's own loop runs.  Neither the passing *)
(* of time nor another failure is assumed.                                 *)
CheckSpec ==
    /\ CheckInit /\ [][CheckNext]_allVars
    /\ Fairness
    /\ WF_allVars(Proceed)

----------------------------------------------------------------------------
(* Type correctness of the checker's variables.                            *)
CheckTypeOK ==
    /\ phase \in {"start", "reading", "pausing", "consistent", "diverged"}
    /\ key \in 1 .. Len(Keys) + 1
    /\ addr \in 1 .. Len(Addrs)
    /\ ref \in Data \cup {Empty, Missing, NoRef}
    /\ bad \subseteq Key
    /\ late \in BOOLEAN /\ done \in BOOLEAN /\ quiet \in BOOLEAN /\ erred \in BOOLEAN

(* Every listed node shows the same of every key to check.                 *)
AllMatch ==
    \A i \in 1 .. Len(Keys), m, n \in 1 .. Len(Addrs) :
        Visible(data[Addrs[m]], Keys[i]) = Visible(data[Addrs[n]], Keys[i])

(* On a cluster at rest the verdict is exact: "converged" only if all      *)
(* nodes show the same, "did not converge" only if they do not or a Get    *)
(* failed, whatever earlier passes saw.                                    *)
VerdictExact ==
    quiet =>
        /\ phase = "consistent" => AllMatch
        /\ phase = "diverged" => ~AllMatch \/ erred

(* WaitForConvergence returns once its deadline passes or its ctx is done. *)
CheckerEnds == <>(late \/ done) => <>(phase \in {"consistent", "diverged"})

(* If every key has one writer and is never put the empty value, and no    *)
(* Get fails, the checker sees the nodes converge before its time is up.   *)
(* After a Put of the empty value it may not: the writer's node answers    *)
(* found and its peers not found for good.                                 *)
ConvergenceSeen ==
    []((\A k \in Key : SingleWriter(k) /\ NoEmptyPut(k)) /\ ~late /\ ~done /\ ~erred)
        => <>(phase = "consistent")
============================================================================
