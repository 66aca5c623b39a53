------------------------------ MODULE Summary ------------------------------
(***************************************************************************)
(* The statistics of the benchmark driver (bench/ycsb_driver.go) and of    *)
(* the experiments program, over sequences of natural numbers.  p is in    *)
(* hundredths, and an index is the exact quotient: the rounding of float64 *)
(* is left out.                                                            *)
(***************************************************************************)
EXTENDS Integers, Sequences

LOCAL INSTANCE SequencesExt
LOCAL INSTANCE TLC

(* A plausible mistake: len * p instead of (len - 1) * p.                  *)
IndexOfLen(n, p) == (n * p) \div 100

Index(n, p) == ((n - 1) * p) \div 100

(* percentile of the driver, whose argument is sorted.                     *)
Percentile(sorted, p) ==
    IF sorted = <<>> THEN 0 ELSE sorted[Index(Len(sorted), p) + 1]

(* summarize                                                               *)
Summarize(latencies) ==
    LET sorted == SortSeq(latencies, <)
        n == Len(latencies)
    IN  [p50 |-> Percentile(sorted, 50),
         p95 |-> Percentile(sorted, 95),
         p99 |-> Percentile(sorted, 99),
         avg |-> IF n = 0 THEN 0 ELSE FoldLeft(+, 0, latencies) \div n]

----------------------------------------------------------------------------
(* The pairs (i, j) of the two loops of the experiments' percentile.       *)
Pairs(n) ==
    FlattenSeq([i \in 1 .. n |-> [d \in 1 .. n - i |-> <<i, i + d>>]])

(* cp[i], cp[j] = cp[j], cp[i] where cp[j] < cp[i]                         *)
Exchange(cp, ij) ==
    IF cp[ij[2]] < cp[ij[1]]
    THEN [cp EXCEPT ![ij[1]] = cp[ij[2]], ![ij[2]] = cp[ij[1]]]
    ELSE cp

(* The experiments' percentile sorts its argument itself.                  *)
PercentileOf(vals, p) == Percentile(FoldLeft(Exchange, vals, Pairs(Len(vals))), p)
============================================================================
