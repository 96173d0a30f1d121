------------------------------ MODULE Histogram ------------------------------
(***************************************************************************)
(* The latency histogram (internal/metrics/histogram.go): log-linear       *)
(* buckets of which every power of two has 2^subBits, and nearest-rank     *)
(* percentiles read from the bucket counts.                                *)
(***************************************************************************)
EXTENDS Integers, Sequences, FiniteSetsExt, Functions

CONSTANTS SubBits,     \* 6 in the code
          MaxTracked   \* the largest latency with a bucket of its own

ASSUME BucketAssumption == SubBits \in Nat /\ MaxTracked \in Nat

subBuckets == 2^SubBits
linear     == 2 * subBuckets

\* bits.Len64 of a positive number.
BitLen(v) == CHOOSE n \in 1..v : 2^(n-1) <= v /\ v < 2^n

\* The bucket of v nanoseconds.
bucketIndex(v) ==
    IF v < linear THEN v
    ELSE LET shift == BitLen(v) - (SubBits + 1)
             top   == v \div 2^shift
         IN  linear + (shift - 1) * subBuckets + (top - subBuckets)

numBuckets == bucketIndex(MaxTracked) + 1
Buckets    == 0..(numBuckets - 1)

\* The midpoint of bucket b.
bucketMid(b) ==
    IF b < linear THEN b
    ELSE LET shift == (b - linear) \div subBuckets + 1
             top   == subBuckets + ((b - linear) % subBuckets)
         IN  top * 2^shift + 2^shift \div 2

\* The bucket histogram.record counts latency v in.
BucketOf(v) == bucketIndex(Min({v, MaxTracked}))

Infinity == 2^30   \* math.MaxInt64: above every latency

newHistogram == [counts |-> [b \in Buckets |-> 0], n |-> 0, sum |-> 0,
                 min |-> Infinity, max |-> 0]

\* histogram.record as one step; Sampler takes its atomic operations apart.
record(h, v) == [counts |-> [h.counts EXCEPT ![BucketOf(v)] = @ + 1],
                 n   |-> h.n + 1,
                 sum |-> h.sum + v,
                 min |-> Min({h.min, v}),
                 max |-> Max({h.max, v})]

\* The merged view of a sequence of histograms.
combine(hs) ==
    [counts |-> [b \in Buckets |-> SumFunction([i \in DOMAIN hs |-> hs[i].counts[b]])],
     n   |-> SumFunction([i \in DOMAIN hs |-> hs[i].n]),
     sum |-> SumFunction([i \in DOMAIN hs |-> hs[i].sum]),
     min |-> Min({Infinity} \union {hs[i].min : i \in DOMAIN hs}),
     max |-> Max({0} \union {hs[i].max : i \in DOMAIN hs})]

-----------------------------------------------------------------------------
(* combined.percentile: percentiles are given in tenths of a percent *)

Clamp(x, lo, hi) == Min({Max({x, lo}), hi})

RankFloor(p, n) == Max({(p * n) \div 1000, 1})
Rank(p, n) == Max({(p * n + 999) \div 1000, 1})

percentile(h, p) ==
    LET seen[b \in Buckets] == h.counts[b] + (IF b = 0 THEN 0 ELSE seen[b - 1])
        at == {b \in Buckets : seen[b] >= Rank(p, h.n)}
    IN  IF at = {} THEN h.max ELSE Clamp(bucketMid(Min(at)), h.min, h.max)
=============================================================================
