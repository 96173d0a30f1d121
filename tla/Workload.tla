------------------------------ MODULE Workload ------------------------------
(***************************************************************************)
(* What a run's VUs record and what the run reports of it. VUs iterate     *)
(* (script.go, Iterate), sending HTTP requests (http.go, httpclient.go)    *)
(* and GraphQL operations (graphql/module.go, protocol/record.go) and      *)
(* running checks (check.go); when all have returned the recorders are     *)
(* merged and the thresholds evaluated. The iterations' context may end at *)
(* any time. log is a history of the operations themselves, with which the *)
(* properties compare what was recorded.                                   *)
(***************************************************************************)
EXTENDS Thresholds

CONSTANTS HTTPOutcomes,     \* the results Send may have for an HTTP request
          GraphQLOutcomes,  \* and for a GraphQL operation
          CheckNames,       \* the names scripts give their checks
          Expressions,      \* the threshold expressions of the script
          MaxOps,           \* bound: operations of all VUs together
          MaxIterations     \* bound: iterations of all VUs together

VARIABLES pc,       \* where each VU stands
          ended,    \* the iterations' context has ended
          store,    \* the recorders
          report,   \* the summary and the results, once the run is over
          log,      \* history: each VU's operations [op, first, second], see EndOfTest
          order     \* history: the names of the checks, by their first runs

vars == <<pc, ended, store, report, log, order>>

\* The protocols of answers, "" without one; "other" stands for any the code does not name.
Protos == {"", "HTTP/1.0", "HTTP/1.1", "HTTP/2.0", "other"}

\* A result of Send: whether the request left, its error, its answer.
Outcome(kind) == [kind : {kind}, sent : BOOLEAN, err : BOOLEAN, status : Nat, proto : Protos,
                  duration : Nat, valid : BOOLEAN, errors : BOOLEAN]

\* graphql.Module.Metrics
GraphQLFamilies == [graphql_req_duration |-> "trend", graphql_reqs |-> "counter",
                    graphql_req_failed |-> "rate", graphql_errors |-> "counter"]

\* The module's families are declared; a status counts as one of Statuses, or 0.
ASSUME OutcomesAssumption ==
    /\ \A f \in DOMAIN GraphQLFamilies : f \in DOMAIN FamilyKind /\ FamilyKind[f] = GraphQLFamilies[f]
    /\ HTTPOutcomes \subseteq Outcome("http") /\ GraphQLOutcomes \subseteq Outcome("graphql")
    /\ \A res \in HTTPOutcomes : res.status \in Statuses \union {0}

NoReport == [over |-> FALSE, done |-> FALSE]

Init == /\ pc = [v \in VUs |-> "idle"]
        /\ ended = FALSE
        /\ store = NewRecorders
        /\ report = NoReport
        /\ log = [v \in VUs |-> <<>>]
        /\ order = <<>>

-----------------------------------------------------------------------------
(* The history: an operation's results are recorded in one or two steps,   *)
(* each after a look at the context; first and second tell whether the     *)
(* test went on until that step.                                           *)

Op(v) == log[v][Len(log[v])].op

Logged(v, op) == [log EXCEPT ![v] = Append(@, [op |-> op, first |-> ~ended, second |-> ~ended])]

Entries(kind) == UNION {{<<v, i>> : i \in {k \in DOMAIN log[v] : log[v][k].op.kind = kind}} : v \in VUs}

Iterations == Cardinality(Entries("iteration"))
              + Cardinality({v \in VUs : pc[v] \notin {"idle", "returned", "counting"}})
CountOps == Cardinality(UNION {Entries(kind) : kind \in {"http", "graphql", "check"}})

AtFirst(v)  == pc[v] \in {"http", "graphql", "returned"}
AtSecond(v) == pc[v] \in {"errors", "counting"}

\* The iterations' context ends: the deadline, or Ctrl+C.
EndOfTest ==
    /\ ~ended /\ ~report.over /\ ended' = TRUE
    /\ log' = [v \in VUs |->
                 IF log[v] = <<>> THEN <<>>
                 ELSE [log[v] EXCEPT ![Len(log[v])].first = @ /\ ~AtFirst(v),
                                     ![Len(log[v])].second = @ /\ ~AtFirst(v) /\ ~AtSecond(v)]]
    /\ UNCHANGED <<pc, store, report, order>>

-----------------------------------------------------------------------------
(* Iterations *)

\* Executors start no iteration once the context ended, nor does Iterate.
Begin(v) == /\ pc[v] = "idle" /\ ~ended /\ ~report.over /\ Iterations < MaxIterations
            /\ pc' = [pc EXCEPT ![v] = "script"]
            /\ UNCHANGED <<ended, store, report, log, order>>

\* The function returned, threw, or was interrupted; after the end of the
\* test an error of any kind and none are alike.
Return(v) ==
    /\ pc[v] = "script"
    /\ \E err \in BOOLEAN : (ended => err) /\ log' = Logged(v, [kind |-> "iteration", err |-> err])
    /\ pc' = [pc EXCEPT ![v] = "returned"]
    /\ UNCHANGED <<ended, store, report, order>>

\* The end of Iterate.
RecordError(v) ==
    /\ pc[v] = "returned"
    /\ store' = IF Op(v).err /\ ~ended THEN RecordScriptError(store, v, v) ELSE store
    /\ pc' = [pc EXCEPT ![v] = "counting"]
    /\ UNCHANGED <<ended, report, log, order>>

\* The end of scenarioRun.iterate.
CountIteration(v) ==
    /\ pc[v] = "counting"
    /\ store' = IF ended THEN store ELSE RecordIteration(store, v)
    /\ pc' = [pc EXCEPT ![v] = "idle"]
    /\ UNCHANGED <<ended, report, log, order>>

-----------------------------------------------------------------------------
(* HTTP requests *)

Idle(v) == pc[v] = "script" /\ CountOps < MaxOps

\* Result.OK
OK(res) == ~res.err /\ res.status \in 200..399

\* A result that comes after the end of the test: cancelled, or an answer,
\* which nothing below tells apart from it.
Late(kind) == [kind |-> kind, sent |-> TRUE, err |-> TRUE, status |-> 0, proto |-> "",
               duration |-> 0, valid |-> FALSE, errors |-> FALSE]

\* The results of Send, of which the ones that were sent may be late.
Results(outcomes, kind) ==
    IF ended THEN {res \in outcomes : ~res.sent} \union {Late(kind)} ELSE outcomes

\* Send returns in the middle of Do.
SendHTTP(v) ==
    /\ Idle(v)
    /\ \E res \in Results(HTTPOutcomes, "http") : log' = Logged(v, res)
    /\ pc' = [pc EXCEPT ![v] = "http"]
    /\ UNCHANGED <<ended, store, report, order>>

\* The rest of Do.
Response(st, v, res) ==
    IF res.proto = "" THEN st
    ELSE RecordStatus(RecordProtocol(st, v, res.proto), v, res.status)
Do(v) ==
    /\ pc[v] = "http"
    /\ LET res == Op(v)
       IN  store' = CASE ~res.sent -> RecordUnsent(store, v)
                      [] res.sent /\ ended -> store
                      [] OTHER -> Response(Record(store, v, res.duration, OK(res)), v, res)
    /\ pc' = [pc EXCEPT ![v] = "script"]
    /\ UNCHANGED <<ended, report, log, order>>

-----------------------------------------------------------------------------
(* GraphQL operations *)

SendGraphQL(v) ==
    /\ Idle(v)
    /\ \E res \in Results(GraphQLOutcomes, "graphql") : log' = Logged(v, res)
    /\ pc' = [pc EXCEPT ![v] = "graphql"]
    /\ UNCHANGED <<ended, store, report, order>>

\* operation: an error in the answer (valid tells a GraphQL response, errors
\* that it carries some) counts as the transport's and HTTP's do.
Code(res) ==
    CASE ~res.sent                 -> "invalid"
      [] res.sent /\ res.err       -> "transport"
      [] res.sent /\ ~res.err /\ res.status \notin 200..299 -> "server"
      [] res.sent /\ ~res.err /\ res.status \in 200..299 /\ ~res.valid -> "protocol"
      [] OTHER                     -> IF res.errors THEN "server" ELSE ""

\* protocol.Record
RecordOutcomeTimingAll(st, v, res) ==
    LET failed == Code(res) # ""
        timed  == Trend(st, v, "graphql_req_duration", res.duration, ~failed)
    IN  Rate(Add(timed, v, "graphql_reqs", 1), v, "graphql_req_failed", failed)
RecordOutcome(st, v, res) ==
    LET failed == Code(res) # ""
        timed  == IF res.sent THEN Trend(st, v, "graphql_req_duration", res.duration, ~failed) ELSE st
    IN  Rate(Add(timed, v, "graphql_reqs", 1), v, "graphql_req_failed", failed)

RecordGraphQL(v) ==
    /\ pc[v] = "graphql"
    /\ store' = IF ended THEN store ELSE RecordOutcome(store, v, Op(v))
    /\ pc' = [pc EXCEPT ![v] = IF Op(v).errors THEN "errors" ELSE "script"]
    /\ UNCHANGED <<ended, report, log, order>>

\* finish looks at the context again before it counts the errors.
CountErrors(v) ==
    /\ pc[v] = "errors"
    /\ store' = IF ended THEN store ELSE Add(store, v, "graphql_errors", 1)
    /\ pc' = [pc EXCEPT ![v] = "script"]
    /\ UNCHANGED <<ended, report, log, order>>

-----------------------------------------------------------------------------
(* Checks *)

\* One condition of a check: it returns a boolean or throws. A condition
\* that is interrupted ends the iteration, which is a Return.
Check(v) ==
    /\ Idle(v)
    /\ \E name \in CheckNames, result \in {"pass", "fail", "throw"} :
         /\ store' = RecordCheck(store, v, name, result = "pass", IF result = "throw" THEN v ELSE None)
         /\ log' = Logged(v, [kind |-> "check", name |-> name, result |-> result])
         /\ order' = IF Contains(order, name) THEN order ELSE Append(order, name)
    /\ UNCHANGED <<pc, ended, report>>

-----------------------------------------------------------------------------
(* The end of the run: RunScenariosSampled merges once the executors are   *)
(* over and the VUs' goroutines have returned; the runner adds the         *)
(* families and, after teardown, evaluates the thresholds.                 *)

Summarise ==
    /\ report = NoReport /\ \A v \in VUs : pc[v] = "idle"
    /\ report' = [over |-> TRUE, done |-> FALSE, summary |-> Merge(store), families |-> Summarize(store)]
    /\ UNCHANGED <<pc, ended, store, log, order>>

Report ==
    /\ report.over /\ ~report.done
    /\ report' = [over |-> TRUE, done |-> TRUE, summary |-> report.summary, families |-> report.families,
                  results |-> [t \in {e \in Expressions : Parse(e)} |->
                                 Evaluate(t, report.summary, report.families)]]
    /\ UNCHANGED <<pc, ended, store, log, order>>

VUStep(v) == \/ Begin(v) \/ Return(v) \/ RecordError(v) \/ CountIteration(v)
             \/ SendHTTP(v) \/ Do(v)
             \/ SendGraphQL(v) \/ RecordGraphQL(v) \/ CountErrors(v)
             \/ Check(v)

Next == EndOfTest \/ Summarise \/ Report \/ \E v \in VUs : VUStep(v)

Spec == Init /\ [][Next]_vars
-----------------------------------------------------------------------------
(* Properties: at the end of the run, the report against the history *)

Count(S) == Cardinality(S)
E(i) == log[i[1]][i[2]]   \* an entry of the history, by VU and number

\* The HTTP requests that count: those answered while the test went on, and
\* those that never left, which cannot have been cut short.
Requests == {i \in Entries("http") : E(i).first \/ ~E(i).op.sent}
Sent == {i \in Requests : E(i).op.sent}
Succeeded == {i \in Sent : OK(E(i).op)}
Answered == {i \in Sent : E(i).op.proto # ""}

Operations == {i \in Entries("graphql") : E(i).first}
Transmitted == {i \in Operations : E(i).op.sent}
Wrong == {i \in Operations : Code(E(i).op) # ""}

Durations(S) == {E(i).op.duration : i \in S}
Total(S) == MapThenSumSet(LAMBDA i : E(i).op.duration, S)
NearestRank(S, p) == Min({d \in Durations(S) : Count({i \in S : E(i).op.duration <= d}) * 1000 >= p * Count(S)})

\* A latency part says the truth of the operations S.
LatencyOf(l, S) ==
    S # {} => /\ l.Min = Min(Durations(S)) /\ l.Max = Max(Durations(S)) /\ l.Mean = Total(S) \div Count(S)
              /\ \A p \in ShownPercentiles : l.P[p] = NearestRank(S, p)

CheckRuns(name, results) == {i \in Entries("check") : E(i).op.name = name /\ E(i).op.result \in results}

\* Each check is listed once, with what came of its runs.
ChecksExact(cs) ==
    /\ [k \in DOMAIN cs |-> cs[k].name] = order
    /\ \A k \in DOMAIN cs :
         LET thrown == CheckRuns(cs[k].name, {"throw"})
         IN  /\ cs[k].passes = Count(CheckRuns(cs[k].name, {"pass"}))
             /\ cs[k].fails = Count(CheckRuns(cs[k].name, {"fail", "throw"}))
             /\ IF thrown = {} THEN cs[k].firstError = None
                ELSE cs[k].firstError \in {i[1] : i \in thrown}

\* What the summary counts of HTTP requests, iterations and script errors.
RequestsExact(s) ==
    /\ s.Requests = Count(Requests) /\ s.Sent = Count(Sent)
    /\ s.Successes = Count(Succeeded) /\ s.Failures = Count(Requests \ Succeeded)
    /\ \A c \in Statuses : s.StatusCodes[StatusClass(c)] =
           Count({i \in Answered : StatusClass(E(i).op.status) = StatusClass(c)})
    /\ s.Protocols["HTTP2"] = Count({i \in Answered : E(i).op.proto = "HTTP/2.0"})
    /\ s.Protocols["HTTP1"] = Count({i \in Answered : E(i).op.proto \in {"HTTP/1.1", "HTTP/1.0"}})
IterationsExact(s) ==
    /\ s.Iterations = Count({i \in Entries("iteration") : E(i).second})
    /\ s.ScriptErrors = Count({i \in Entries("iteration") : E(i).op.err /\ E(i).first})
    /\ (s.FirstScriptError = None) <=> (s.ScriptErrors = 0)

\* What the families count of GraphQL operations.
OperationsExact(f) ==
    /\ f["graphql_reqs"].Count = Count(Operations)
    /\ f["graphql_req_failed"].Count = Count(Operations)
    /\ f["graphql_req_failed"].Trues = Count(Wrong)
    /\ f["graphql_req_duration"].Count = Count(Transmitted)
    /\ f["graphql_req_duration"].Failed = Count(Wrong \intersect Transmitted)
    /\ f["graphql_errors"].Count = Count({i \in Entries("graphql") : E(i).op.errors /\ E(i).second})

\* metrics.go:199 (Merge) and httpclient.go:160, "Requests interrupted because
\* ctx was cancelled are not recorded": with shards shared between VUs, every
\* request is in the summary exactly once, the ones cut short are not, and
\* unsent ones fail without a latency; likewise iterations and script errors.
\* metrics.go:156, "the order they were first run", and checks.go:5: VUs that
\* meet checks in different orders still count each in its own slot, and the
\* summary lists every check once, in the order of its first run.
\* record.go:32 and graphql/module.go:33: an operation counts once in each of
\* its families whatever shard its VU records in, one that never left has no
\* duration, and its errors are counted unless the test ends in between.
CountsExact ==
    report.done => /\ RequestsExact(report.summary) /\ IterationsExact(report.summary)
                   /\ ChecksExact(report.summary.Checks)
                   /\ OperationsExact(report.families)

\* metrics.go:139, "Latency over every request that was sent, failed ones included":
\* the latencies of the summary and of the families are those of what they count.
LatenciesExact ==
    report.done =>
      LET s == report.summary
      IN  /\ LatencyOf(s.Latency, Sent)
          /\ Succeeded # {} => \A p \in ShownPercentiles : s.SuccessP[p] = NearestRank(Succeeded, p)
          /\ LatencyOf(report.families["graphql_req_duration"].Latency, Transmitted)

\* What a metric measures, in the terms of the history: a set of durations,
\* a fraction or a count.
Population(m) == IF m = "http_req_duration" THEN Sent ELSE Transmitted
Fraction(m) ==
    CASE m = "http_req_failed"    -> <<Count(Requests \ Succeeded), Count(Requests)>>
      [] m = "checks"             -> <<Count(UNION {CheckRuns(c, {"pass"}) : c \in CheckNames}), Count(Entries("check"))>>
      [] m = "graphql_req_failed" -> <<Count(Wrong), Count(Operations)>>
Events(m) ==
    CASE m = "http_reqs"    -> Requests
      [] m = "graphql_reqs" -> Operations
      [] m = "iterations"   -> {i \in Entries("iteration") : E(i).second}

MeasuredTrend(S, t) ==
    IF S = {} THEN <<0, 0>>
    ELSE <<CASE t.agg = "avg" -> Total(S) \div Count(S)
             [] t.agg = "min" -> Min(Durations(S))
             [] t.agg = "max" -> Max(Durations(S))
             [] t.agg = "med" -> NearestRank(S, 500)
             [] t.agg = "p"   -> NearestRank(S, t.p), 1>>

Measured(t) ==
    CASE t.agg \in TrendAggregates -> MeasuredTrend(Population(t.metric), t)
      [] t.agg = "count" -> <<Count(Events(t.metric)), 1>>
      [] t.agg = "rate"  -> IF t.metric \in {"http_reqs", "graphql_reqs", "iterations"}
                            THEN <<Count(Events(t.metric)), Elapsed>> ELSE Fraction(t.metric)

\* thresholds.go:279, "a threshold that could not be checked must not pass
\* silently": a threshold passes exactly if what it names was measured and
\* the measure, taken from the operations themselves, meets the limit.
ThresholdsHonest ==
    report.done =>
      \A t \in DOMAIN report.results :
        LET m == Measured(t)
        IN  /\ report.results[t].noData <=> m[2] = 0
            /\ report.results[t].passed <=> m[2] # 0 /\ compare(m, t.op, t.limit)
=============================================================================
