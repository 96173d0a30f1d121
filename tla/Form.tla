-------------------------------- MODULE Form --------------------------------
(***************************************************************************)
(* The other way to start a run: the form of loadtool ui                   *)
(* (internal/ui/config.go), whose validated contents the controller hands  *)
(* to the runner with a fixed script (runPlan in internal/ui/controller.go *)
(* and run.ts). Module Startup takes it from there.                        *)
(*                                                                         *)
(* A URL is its parts, a name or value is a string of which only its kind  *)
(* matters, a number with a fraction is <<numerator, denominator>>.        *)
(***************************************************************************)
EXTENDS Startup

CONSTANTS MaxFormVUs, MaxFormDuration, RequestTimeout, AllowPrivate,   \* Limits
          maxFields,                                                   \* 50 in the code
          Forms                                                        \* bound: what users submit

ASSUME FormLimitsAssumption == {MaxFormVUs, MaxFormDuration, RequestTimeout} \subseteq Nat

methods          == {"GET", "POST", "PUT", "PATCH", "DELETE"}
forbiddenHeaders == {"Host", "Content-Length", "Transfer-Encoding", "Connection", "Upgrade", "Te",
                     "Trailer", "Proxy-Authorization", "Proxy-Connection"}
LineBreak        == "\n"    \* a value that contains one
NoToken          == ""      \* a name that is no HTTP token, or no name at all

\* The hosts that netguard refuses before anything is resolved.
LocalHosts == {"10.0.0.1", "localhost", "db.internal"}

checkURL(u) == /\ u.scheme \in {"http", "https"} /\ ~u.user /\ u.host # ""
               /\ AllowPrivate \/ u.host \notin LocalHosts

applyAuth(a) == CASE a.type \in {"", "none"} -> TRUE
                  [] a.type = "bearer" -> a.token \notin {"", " ", LineBreak}
                  [] a.type = "basic"  -> a.username \notin {"", ":", LineBreak} /\ a.password # LineBreak
                  [] OTHER -> FALSE

bodyValid(r) == r.body = "" \/ (r.method # "GET" /\ r.body = "JSON")

validateRequest(r) ==
    /\ r.method \in methods
    /\ checkURL(r.url) /\ ~r.url.fragment
    /\ Len(r.query) <= maxFields /\ Len(r.headers) <= maxFields
    /\ \A k \in DOMAIN r.query : r.query[k] # NoToken
    /\ \A k \in DOMAIN r.headers : /\ r.headers[k].name \notin {NoToken} \cup forbiddenHeaders
                                   /\ r.headers[k].value # LineBreak
    /\ applyAuth(r.auth)
    /\ bodyValid(r)

\* The range of the check's status codes; 0 and 0 stand for 200 to 299.
statusRange(f) == IF f.minStatus = 0 /\ f.maxStatus = 0 THEN <<200, 299>> ELSE <<f.minStatus, f.maxStatus>>

Unparsable == -1   \* a duration

validateForm(f) ==
    /\ validateRequest(f.request)
    /\ f.authorized
    /\ f.vus \in 1..MaxFormVUs
    /\ f.duration # Unparsable /\ f.duration \in 1..MaxFormDuration
    /\ LET s == statusRange(f) IN s[1] >= 100 /\ s[2] <= 599 /\ s[1] <= s[2]
    /\ f.p95Ms[1] >= 0 /\ f.maxErrorPct[1] >= 0 /\ f.maxErrorPct[1] <= 100 * f.maxErrorPct[2]

\* fmt's %g writes an exponent for numbers of a million and above and below
\* a ten-thousandth, and the thresholds' exprPattern knows none.
PrintsPlainly(x) == x[1] \div x[2] < 1000000 /\ (x[2] - 1) \div x[1] < 10000

\* The limits of the plan's thresholds; 0 means none, an error rate is no
\* percentage there.
limits(f) == {x \in {f.p95Ms, <<f.maxErrorPct[1], 100 * f.maxErrorPct[2]>>} : x[1] > 0}

\* runPlan: the flags are set, the environment is empty, and the fixed script
\* sets thresholds and exports nothing but its default function.
runPlan(f) ==
    [cli |-> [vus |-> <<f.vus>>, duration |-> <<f.duration>>],
     env |-> [vus |-> Absent, duration |-> Absent],
     options |-> [o \in KnownOptions |->
                     IF o # "thresholds" THEN Absent
                     ELSE IF \A x \in limits(f) : PrintsPlainly(x) THEN Given(limits(f)) ELSE Wrong],
     gracefulStop |-> RequestTimeout, exports |-> {"default"}, unknown |-> FALSE]

\* What the accepted forms make of the runner's input.
FormInputs == {runPlan(f) : f \in {g \in Forms : validateForm(g)}}

-----------------------------------------------------------------------------
(* Properties *)

\* What was accepted stays accepted. A form that validate let through, and whose
\* thresholds can be printed without an exponent, is one the runner can run, within
\* the controller's limits whatever the runner makes of its settings; and what config
\* accepts the engine accepts, apart from the upper limits of ramping-vus, which
\* only the engine knows: a run whose setup ran does not then fail because of its
\* options (validate, resolveScenario and the executors' validate check the same
\* settings in different words).
AcceptedStaysAccepted ==
    /\ in \in FormInputs /\ in.options.thresholds # Wrong =>
         /\ pc = "options" => Runnable
         /\ pc = "running" =>
              /\ cfg.VUs <= MaxFormVUs /\ Len(plan) = 1
              /\ StopsAt(1) + plan[1].gracefulStop <= MaxFormDuration + RequestTimeout
    /\ pc = "validate" /\ cur <= Len(plan) =>
         validate(plan[cur].executor) \/ ExceedsLimits(plan[cur].executor)
=============================================================================
