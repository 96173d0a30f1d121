---------------------------- MODULE HistogramWalk ----------------------------
(***************************************************************************)
(* One histogram that one goroutine records into, and a Merge of it after  *)
(* every request: what the summary's numbers promise of the latencies that *)
(* were recorded.                                                          *)
(***************************************************************************)
EXTENDS Histogram

CONSTANTS Latencies,    \* the latencies a request may have
          Percentiles,  \* the percentiles asked for, in tenths of a percent
          MaxRecords    \* bound: requests recorded

VARIABLES hist,      \* the histogram: counts, n, sum, min and max
          recorded   \* the latencies recorded, in order

vars == <<hist, recorded>>

Init == hist = newHistogram /\ recorded = <<>>

Record(v) == hist' = record(hist, v) /\ recorded' = Append(recorded, v)

Next == /\ Len(recorded) < MaxRecords
        /\ \E v \in Latencies : Record(v)

Spec == Init /\ [][Next]_vars

-----------------------------------------------------------------------------
(* Properties *)

Occurrences(S) == Cardinality({k \in DOMAIN recorded : recorded[k] \in S})

\* The exact nearest-rank percentile: the smallest latency recorded with at
\* least p of the samples at or below it.
ExactPercentile(p) ==
    Min({v \in Latencies : /\ Occurrences({v}) > 0
                           /\ Occurrences({u \in Latencies : u <= v}) * 1000 >= p * Len(recorded)})

\* metrics.go:4, "Percentiles are within 0.78 % of the exact value" (for six
\* sub-bucket bits, that is one part in 2^(subBits+1)), for latencies that
\* are tracked; a larger percentile is never a smaller latency, and all lie
\* between the exact extremes the summary shows beside them.
PercentileAccurate ==
    Len(recorded) > 0 =>
      \A p \in Percentiles :
        LET got   == percentile(hist, p)
            exact == ExactPercentile(p)
            diff  == IF got >= exact THEN got - exact ELSE exact - got
        IN  /\ exact <= MaxTracked => diff * linear <= exact
            /\ \A q \in Percentiles : p <= q => got <= percentile(hist, q)
            /\ got \in hist.min .. hist.max
=============================================================================
