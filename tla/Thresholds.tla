----------------------------- MODULE Thresholds -----------------------------
(***************************************************************************)
(* Threshold expressions and their evaluation against a run's summary      *)
(* (internal/thresholds/thresholds.go). An expression is a record of the   *)
(* metric it is given for, an aggregate with the N of p(N) in tenths of a  *)
(* percent, an operator and a limit. Numbers are fractions <<n, d>>, d > 0.*)
(***************************************************************************)
EXTENDS Recorders

CONSTANT Elapsed   \* the load phase's length in seconds

NoData == <<>>

TrendAggregates   == {"avg", "min", "max", "med", "p"}
CounterAggregates == {"count", "rate"}

\* A family's aggregates follow its kind.
FamilyAggregates(kind) == CASE kind = "trend" -> TrendAggregates
                            [] kind = "rate"  -> {"rate"}
                            [] OTHER          -> CounterAggregates

\* The built-in metrics and the run's families, with their aggregates.
Known == [http_req_duration |-> TrendAggregates, http_req_failed |-> {"rate"}, checks |-> {"rate"},
          http_reqs |-> CounterAggregates, iterations |-> CounterAggregates,
          dropped_iterations |-> CounterAggregates]
Aggregates == Known @@ [f \in DOMAIN FamilyKind |-> FamilyAggregates(FamilyKind[f])]

\* Parse accepts an expression: a known metric, an aggregate it supports and
\* a percentile above 0 and at most 100.
Parse(t) == /\ t.metric \in DOMAIN Aggregates
            /\ t.agg = "p" => t.p \in 1..1000
            /\ t.agg \in Aggregates[t.metric]

-----------------------------------------------------------------------------
(* A metric's value, or NoData *)

trend(h, t) ==
    IF h.n = 0 THEN NoData
    ELSE <<CASE t.agg = "avg" -> h.sum \div h.n
             [] t.agg = "min" -> h.min
             [] t.agg = "max" -> h.max
             [] t.agg = "med" -> percentile(h, 500)
             [] t.agg = "p"   -> percentile(h, t.p), 1>>

fraction(n, d) == IF d = 0 THEN NoData ELSE <<n, d>>

counter(n, t) == IF t.agg = "count" THEN <<n, 1>> ELSE fraction(n, Elapsed)

familyMetric(f, t) ==
    CASE FamilyKind[t.metric] = "trend" -> trend(f.latency, t)
      [] FamilyKind[t.metric] = "rate"  -> fraction(f.Trues, f.Count)
      [] OTHER                          -> counter(f.Count, t)

Passes(checks) == MapThenSumSet(LAMBDA i : checks[i].passes, DOMAIN checks)
Fails(checks)  == MapThenSumSet(LAMBDA i : checks[i].fails, DOMAIN checks)

\* s is the summary, families the summaries of the families. Only the
\* arrival-rate executor (ArrivalRate) drops iterations.
Value(t, s, families) ==
    CASE t.metric = "http_req_duration"  -> trend(s.latency, t)
      [] t.metric = "http_req_failed"    -> fraction(s.Failures, s.Requests)
      [] t.metric = "checks"             -> fraction(Passes(s.Checks), Passes(s.Checks) + Fails(s.Checks))
      [] t.metric = "http_reqs"          -> counter(s.Requests, t)
      [] t.metric = "iterations"         -> counter(s.Iterations, t)
      [] t.metric = "dropped_iterations" -> counter(0, t)
      [] OTHER                           -> familyMetric(families[t.metric], t)

compare(v, op, limit) ==
    LET a == v[1] * limit[2]
        b == limit[1] * v[2]
    IN  CASE op = "<"  -> a < b
          [] op = "<=" -> a <= b
          [] op = ">"  -> a > b
          [] op = ">=" -> a >= b
          [] op = "==" -> a = b
          [] op = "!=" -> a # b

\* A threshold without data fails.
EvaluateLeniently(t, s, families) ==
    LET v == Value(t, s, families)
    IN  [noData |-> v = NoData, passed |-> v = NoData \/ compare(v, t.op, t.limit)]
Evaluate(t, s, families) ==
    LET v == Value(t, s, families)
    IN  [noData |-> v = NoData, passed |-> v # NoData /\ compare(v, t.op, t.limit)]
=============================================================================
