----------------------------- MODULE MCWorkload -----------------------------
(***************************************************************************)
(* Workload with one outcome of each kind for TLC; and, as long as no VU   *)
(* has begun, by themselves, every short recording of a histogram and the  *)
(* HTTP sessions of two VUs and the lifecycle runtime.                     *)
(***************************************************************************)
EXTENDS Workload, HTTPSession

CONSTANTS Latencies, Percentiles, MaxRecords

VARIABLES hist, recorded

H == INSTANCE HistogramWalk

histVars == <<hist, recorded>>

\* Only the sessions depend on the program's options.
Alone == SessionInit /\ options.discardBodies /\ ~options.keepCookies

InitWalks == Init /\ H!Init /\ SessionInit

Walks == /\ InitWalks
         /\ [][\/ recorded = <<>> /\ Alone /\ Next /\ UNCHANGED <<histVars, sessionVars>>
               \/ Alone /\ Init /\ H!Next /\ UNCHANGED <<vars, sessionVars>>
               \/ recorded = <<>> /\ Init /\ SessionNext /\ UNCHANGED <<vars, histVars>>
              ]_<<vars, histVars, sessionVars>>

\* The histogram's percentiles are as accurate as metrics.go:4 says, in order,
\* and between the extremes (combined.percentile).
PercentileAccurate == H!PercentileAccurate

\* A GET that is answered with a whole body of known length.
Plain == [via |-> "http", method |-> "GET", responseType |-> "", cookies |-> {},
          refused |-> FALSE, status |-> 200, sized |-> TRUE, length |-> 2, arrives |-> 2,
          sets |-> {}, clears |-> {}]

\* A whole body of known length, with a cookie; a request nobody answers; a
\* HEAD, whose answer has no body and ends the session; a GraphQL response,
\* too long for one buffer, that breaks off; and a handshake.
MCTraffic == {[Plain EXCEPT !.sets = {"sid"}],
              [Plain EXCEPT !.responseType = "none", !.cookies = {"own"}, !.refused = TRUE],
              [Plain EXCEPT !.method = "HEAD", !.responseType = "text", !.status = 302,
                            !.clears = {"sid"}],
              [Plain EXCEPT !.via = "graphql", !.method = "POST", !.length = 4, !.arrives = 1],
              [Plain EXCEPT !.via = "ws", !.status = 101, !.sized = FALSE, !.length = 0,
                            !.arrives = 0, !.sets = {"token"}]}

HTTP(sent, err, status, proto, duration) ==
    [kind |-> "http", sent |-> sent, err |-> err, status |-> status, proto |-> proto,
     duration |-> duration, valid |-> FALSE, errors |-> FALSE]

\* An invalid URL, a redirect, an error status outside the counted range and
\* a response whose body breaks off.
MCHTTPOutcomes == {HTTP(FALSE, TRUE, 0, "", 0), HTTP(TRUE, FALSE, 399, "HTTP/1.1", 1),
                   HTTP(TRUE, FALSE, 600, "HTTP/2.0", 3),
                   HTTP(TRUE, TRUE, 200, "HTTP/1.1", 2)}

GraphQL(sent, status, valid, errors, duration) ==
    [kind |-> "graphql", sent |-> sent, err |-> ~sent, status |-> status, proto |-> "",
     duration |-> duration, valid |-> valid, errors |-> errors]

\* Variables that do not encode, data, errors with an HTTP error status, a body
\* that is no GraphQL response and a transport failure.
MCGraphQLOutcomes == {GraphQL(FALSE, 0, FALSE, FALSE, 0), GraphQL(TRUE, 200, TRUE, FALSE, 1),
                      GraphQL(TRUE, 400, TRUE, TRUE, 2),
                      GraphQL(TRUE, 200, FALSE, FALSE, 0),
                      [GraphQL(TRUE, 0, FALSE, FALSE, 3) EXCEPT !.err = TRUE]}

Expr(metric, agg, p, op, limit) == [metric |-> metric, agg |-> agg, p |-> p, op |-> op, limit |-> limit]

\* Expressions that parse for each kind of metric, and three that do not.
MCExpressions == {Expr("http_req_duration", "p", 950, "<", <<3, 1>>), Expr("http_req_duration", "avg", 0, "<=", <<1, 1>>),
                  Expr("http_req_failed", "rate", 0, "<", <<1, 2>>), Expr("checks", "rate", 0, ">=", <<1, 2>>),
                  Expr("http_reqs", "rate", 0, ">", <<1, 2>>), Expr("iterations", "count", 0, "!=", <<0, 1>>),
                  Expr("graphql_req_duration", "med", 0, "<", <<2, 1>>), Expr("graphql_req_duration", "max", 0, "==", <<3, 1>>),
                  Expr("graphql_req_failed", "rate", 0, "<=", <<1, 3>>), Expr("graphql_reqs", "count", 0, ">=", <<1, 1>>),
                  Expr("http_req_failed", "avg", 0, "<", <<1, 1>>), Expr("http_req_duration", "p", 0, "<", <<1, 1>>),
                  Expr("no_such_metric", "count", 0, "<", <<1, 1>>)}
=============================================================================
