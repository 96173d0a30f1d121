------------------------------- MODULE Sampler -------------------------------
(***************************************************************************)
(* VUs recording into a shard of histograms with atomic operations         *)
(* (internal/metrics/histogram.go, histogram.record), the sampler that     *)
(* reads the shard meanwhile (sampler.go, Sampler.Sample; engine/          *)
(* scenario.go, sample) and the final Merge (metrics.go).  Every atomic    *)
(* operation on shared memory is a step of its own.                        *)
(*                                                                         *)
(* One shard stands for the sixteen: shards share nothing, and the sampler *)
(* reads one after the other.  Latency sums and percentiles of a point are *)
(* left out; the summary's sum, min and max are kept.                      *)
(***************************************************************************)
EXTENDS Histogram

CONSTANTS
    Sharers,      \* the VUs that share the shard
    Latencies,    \* the latencies a request may have
    MaxRequests,  \* bound: requests a VU records
    MaxTicks      \* bound: ticks of the sampling interval

ASSUME SamplerAssumption ==
    IsFiniteSet(Sharers) /\ IsFiniteSet(Latencies) /\ MaxRequests \in Nat /\ MaxTicks \in Nat

\* What the powers of two come to: no latency is beyond an int64, and each has
\* its bucket.
ASSUME BucketsAssumption ==
    /\ Infinity \in Nat /\ numBuckets \in Nat \ {0}
    /\ \A lat \in Latencies : lat \in 0..Infinity /\ BucketOf(lat) \in Buckets

Kinds == {"ok", "failed"}   \* shard.ok and shard.failed

VARIABLES
    hist,     \* per kind: counts, n, sum, min, max
    vu,       \* where each VU is in histogram.record
    req,      \* the kind and latency it records
    seen,     \* the min or max it has loaded
    made,     \* how many requests it has begun to record
    recordings,  \* how often each kind and latency was recorded, as a reference
    spc,      \* where the sampler is
    pos,      \* the next load of Sample's loops
    cur, curFailed,     \* Sampler.cur and curFailed
    prev, prevFailed,   \* Sampler.prev and prevFailed
    points    \* the time series

vuVars  == <<vu, req, seen, made, recordings>>
samVars == <<spc, pos, cur, curFailed, prev, prevFailed, points>>
samplerVars == <<hist, vuVars, samVars>>

-----------------------------------------------------------------------------
(* histogram.record, one atomic operation per step *)

Goto(v, from, to) == vu[v] = from /\ vu' = [vu EXCEPT ![v] = to]

Kind(v) == req[v].kind
Lat(v)  == req[v].lat

\* h.counts[i].Add(1)
AddCount(v) ==
    /\ made[v] < MaxRequests
    /\ Goto(v, "idle", "n")
    /\ \E kind \in Kinds, lat \in Latencies :
         /\ req' = [req EXCEPT ![v] = [kind |-> kind, lat |-> lat]]
         /\ recordings' = [recordings EXCEPT ![kind][lat] = @ + 1]
         /\ hist' = [hist EXCEPT ![kind].counts[BucketOf(lat)] = @ + 1]
    /\ made' = [made EXCEPT ![v] = @ + 1]
    /\ UNCHANGED <<seen, samVars>>

\* h.n.Add(1)
AddN(v) ==
    /\ Goto(v, "n", "sum")
    /\ hist' = [hist EXCEPT ![Kind(v)].n = @ + 1]
    /\ UNCHANGED <<req, seen, made, recordings, samVars>>

\* h.sum.Add(v)
AddSum(v) ==
    /\ Goto(v, "sum", "minload")
    /\ hist' = [hist EXCEPT ![Kind(v)].sum = @ + Lat(v)]
    /\ UNCHANGED <<req, seen, made, recordings, samVars>>

\* cur := h.min.Load(), and again after a failed CompareAndSwap.
LoadMin(v) ==
    /\ \/ Lat(v) < hist[Kind(v)].min /\ Goto(v, "minload", "mincas")
       \/ Lat(v) >= hist[Kind(v)].min /\ Goto(v, "minload", "maxload")
    /\ seen' = [seen EXCEPT ![v] = hist[Kind(v)].min]
    /\ UNCHANGED <<hist, req, made, recordings, samVars>>

\* h.min.CompareAndSwap(cur, v)
SwapMinBlindly(v) ==
    /\ Goto(v, "mincas", "maxload")
    /\ hist' = [hist EXCEPT ![Kind(v)].min = Lat(v)]
    /\ UNCHANGED <<req, seen, made, recordings, samVars>>
SwapMin(v) ==
    /\ \/ /\ hist[Kind(v)].min = seen[v]
          /\ Goto(v, "mincas", "maxload")
          /\ hist' = [hist EXCEPT ![Kind(v)].min = Lat(v)]
       \/ /\ hist[Kind(v)].min # seen[v]
          /\ Goto(v, "mincas", "minload")
          /\ UNCHANGED hist
    /\ UNCHANGED <<req, seen, made, recordings, samVars>>

LoadMax(v) ==
    /\ \/ Lat(v) > hist[Kind(v)].max /\ Goto(v, "maxload", "maxcas")
       \/ Lat(v) <= hist[Kind(v)].max /\ Goto(v, "maxload", "idle")
    /\ seen' = [seen EXCEPT ![v] = hist[Kind(v)].max]
    /\ UNCHANGED <<hist, req, made, recordings, samVars>>

SwapMax(v) ==
    /\ \/ /\ hist[Kind(v)].max = seen[v]
          /\ Goto(v, "maxcas", "idle")
          /\ hist' = [hist EXCEPT ![Kind(v)].max = Lat(v)]
       \/ /\ hist[Kind(v)].max # seen[v]
          /\ Goto(v, "maxcas", "maxload")
          /\ UNCHANGED hist
    /\ UNCHANGED <<req, seen, made, recordings, samVars>>

\* The VU's goroutine returns.
Leave(v) ==
    /\ Goto(v, "idle", "gone")
    /\ UNCHANGED <<hist, req, seen, made, recordings, samVars>>

Recording(v) == AddN(v) \/ AddSum(v) \/ LoadMin(v) \/ SwapMin(v) \/ LoadMax(v) \/ SwapMax(v)

AllGone == \A v \in Sharers : vu[v] = "gone"

-----------------------------------------------------------------------------
(* The sampler goroutine *)

\* Sample's loads, in order: the buckets of ok, then of failed, then failed.n.
NumLoads == 2 * numBuckets + 1

BeginSample(state) ==
    /\ spc = "wait"
    /\ spc' = state
    /\ pos' = 1
    /\ cur' = [b \in Buckets |-> 0]
    /\ curFailed' = 0
    /\ UNCHANGED <<hist, vuVars, prev, prevFailed, points>>

\* The ticker fires; or stop is closed, once every VU has returned, and the
\* last point is taken.
TickSample == Len(points) < MaxTicks /\ BeginSample("read")
LastSample == AllGone /\ BeginSample("readlast")

\* One atomic load.
Load ==
    /\ spc \in {"read", "readlast"} /\ pos <= NumLoads
    /\ pos' = pos + 1
    /\ IF pos <= 2 * numBuckets
         THEN LET kind == IF pos <= numBuckets THEN "ok" ELSE "failed"
                  b    == (pos - 1) % numBuckets
              IN  cur' = [cur EXCEPT ![b] = @ + hist[kind].counts[b]] /\ UNCHANGED curFailed
         ELSE curFailed' = curFailed + hist["failed"].n /\ UNCHANGED cur
    /\ UNCHANGED <<hist, vuVars, spc, prev, prevFailed, points>>

\* The interval's requests: the differences of the buckets.
Delta == SumFunction([b \in Buckets |-> cur[b] - prev[b]])

\* The rest of Sample: the point, and prev for the next interval.
EmitPointCountingAgain ==
    /\ spc \in {"read", "readlast"} /\ pos > NumLoads
    /\ points' = Append(points, [requests |-> Delta, failed |-> Min({curFailed, Delta})])
    /\ spc' = IF spc = "readlast" THEN "done" ELSE "wait"
    /\ prev' = cur
    /\ UNCHANGED <<hist, vuVars, pos, cur, curFailed, prevFailed>>
EmitPoint ==
    /\ spc \in {"read", "readlast"} /\ pos > NumLoads
    /\ LET failed == Min({curFailed - prevFailed, Delta})
       IN  /\ points' = Append(points, [requests |-> Delta, failed |-> failed])
           /\ prevFailed' = prevFailed + failed
    /\ prev' = cur
    /\ spc' = IF spc = "readlast" THEN "done" ELSE "wait"
    /\ UNCHANGED <<hist, vuVars, pos, cur, curFailed>>

-----------------------------------------------------------------------------
SamplerInit ==
    /\ hist = [kind \in Kinds |-> newHistogram]
    /\ vu = [v \in Sharers |-> "idle"]
    /\ req = [v \in Sharers |-> [kind |-> "ok", lat |-> 0]]
    /\ seen = [v \in Sharers |-> 0]
    /\ made = [v \in Sharers |-> 0]
    /\ recordings = [kind \in Kinds |-> [lat \in Latencies |-> 0]]
    /\ spc = "wait" /\ pos = 1
    /\ cur = [b \in Buckets |-> 0] /\ curFailed = 0
    /\ prev = [b \in Buckets |-> 0] /\ prevFailed = 0
    /\ points = <<>>

Done == spc = "done" /\ UNCHANGED samplerVars

SamplerNext ==
    \/ \E v \in Sharers : AddCount(v) \/ Recording(v) \/ Leave(v)
    \/ TickSample \/ LastSample \/ Load \/ EmitPoint
    \/ Done

SamplerSpec == SamplerInit /\ [][SamplerNext]_samplerVars

-----------------------------------------------------------------------------
(* Properties *)

Recorded(kind)   == SumFunction(recordings[kind])
LatsOf(kind)   == {lat \in Latencies : recordings[kind][lat] > 0}
PointSum(f(_)) == SumFunction([k \in DOMAIN points |-> f(points[k])])
RequestsOf(pt)   == pt.requests
Failed(pt)     == pt.failed

\* metrics.go:6, "counts, min, max and mean are exact": when no VU is inside
\* record, the histogram is that of the requests recorded, however their
\* atomic operations interleaved.
QuiescentExact ==
    (\A v \in Sharers : vu[v] \in {"idle", "gone"}) =>
      \A kind \in Kinds :
        LET h == hist[kind] IN
        /\ h.n = Recorded(kind)
        /\ \A b \in Buckets : h.counts[b] =
             SumFunction([lat \in {l \in Latencies : BucketOf(l) = b} |-> recordings[kind][lat]])
        /\ h.sum = SumFunction([lat \in Latencies |-> lat * recordings[kind][lat]])
        /\ LatsOf(kind) # {} => h.min = Min(LatsOf(kind)) /\ h.max = Max(LatsOf(kind))

\* sampler.go:30, "totals over the run are unaffected", for the requests: the
\* points of the series add up to the summary's Sent. Of failures (the clamp,
\* sampler.go:83) the points never show more than there were and none more than
\* its requests, and no uint64 difference a point is made of wraps around.
PointsSound ==
    /\ spc = "done" => PointSum(RequestsOf) = hist["ok"].n + hist["failed"].n
    /\ PointSum(Failed) <= hist["failed"].n
    /\ \A k \in DOMAIN points : points[k].failed <= points[k].requests
    /\ spc \in {"read", "readlast"} /\ pos > NumLoads =>
         /\ \A b \in Buckets : cur[b] >= prev[b]
         /\ curFailed >= prevFailed
=============================================================================
