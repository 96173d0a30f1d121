------------------------------ MODULE Options -------------------------------
(***************************************************************************)
(* How a run's settings are found (internal/config): the script's options  *)
(* are parsed from JSON, flags and environment variables are weighed       *)
(* against them, and scenarios are validated and completed.                *)
(*                                                                         *)
(* An optional value is <<>> or <<value>>, a pointer of the code. A JSON   *)
(* value is Absent, Null, Wrong (of another type, or not parsable) or      *)
(* Given. Scenarios are listed in the order of their names. Durations are  *)
(* in seconds.                                                             *)
(***************************************************************************)
EXTENDS Integers, Sequences, FiniteSetsExt

CONSTANT Identifiers   \* the strings that are JavaScript identifiers, "default" among them

Absent   == [is |-> "absent"]
Null     == [is |-> "null"]
Wrong    == [is |-> "wrong"]
Blank    == [is |-> "blank"]   \* an environment variable set to white space
Given(v) == [is |-> "given", value |-> v]

IsSet(x)       == x # <<>>
OrElse(x, def) == IF x = <<>> THEN def ELSE x[1]

SumSeq(s) == LET sum[n \in 0..Len(s)] == IF n = 0 THEN 0 ELSE sum[n-1] + s[n]
             IN  sum[Len(s)]

DefaultVUs              == 1
DefaultDuration         == 10
DefaultLifecycleTimeout == 60
DefaultGracefulStop     == 30
DefaultGracefulRampDown == 30
DefaultTimeUnit         == 1

-----------------------------------------------------------------------------
(* ParseOptions *)

KnownOptions == {"discardResponseBodies", "duration", "httpVersion", "noConnectionReuse",
                 "noCookiesReset", "scenarios", "setupTimeout", "stages", "teardownTimeout",
                 "thresholds", "vus"}

\* The options that null is no value of; the others take their type's zero.
RejectsNull == {"duration", "httpVersion", "scenarios", "setupTimeout", "teardownTimeout"}
Zero(f) == CASE f = "vus"                      -> 0
             [] f \in {"stages", "thresholds"} -> <<>>
             [] OTHER                          -> FALSE

\* A scenario that is not an object of the known types makes the whole option wrong.
ParseFails(raw) ==
    \/ \E f \in KnownOptions : \/ raw[f].is = "wrong"
                               \/ raw[f].is = "null" /\ f \in RejectsNull
    \/ /\ raw.scenarios.is = "given"
       /\ \E i \in DOMAIN raw.scenarios.value : raw.scenarios.value[i].is # "given"

ParseOptions(raw) ==
    [f \in KnownOptions |->
        IF raw[f].is = "absent" THEN <<>>
        ELSE IF raw[f].is = "null" THEN <<Zero(f)>>
        ELSE IF f = "scenarios" THEN <<[i \in DOMAIN raw[f].value |-> raw[f].value[i].value]>>
        ELSE <<raw[f].value>>]

-----------------------------------------------------------------------------
(* One scenario *)

\* The fields of each executor. Null is the same as absent for all of them.
Allowed == [e \in {"constant-vus", "ramping-vus", "constant-arrival-rate"} |->
    CASE e = "constant-vus" -> {"vus", "duration"}
      [] e = "ramping-vus"  -> {"startVUs", "stages", "gracefulRampDown"}
      [] OTHER              -> {"rate", "timeUnit", "duration", "preAllocatedVUs", "maxVUs"}]

ExecutorFields == UNION {Allowed[e] : e \in DOMAIN Allowed}

\* A scenario as the script wrote it, with no field set.
NoFields == [f \in ExecutorFields \cup {"executor", "exec", "startTime", "gracefulStop", "unknown"} |->
                CASE f = "executor" -> "" [] f = "unknown" -> FALSE [] OTHER -> <<>>]

FieldsSet(o) == {f \in ExecutorFields : IsSet(o[f])}

MaxVUsOfStages(s) ==
    CASE s.executor = "ramping-vus"           -> Max({0} \cup {s.stages[j].target : j \in DOMAIN s.stages})
      [] s.executor = "constant-arrival-rate" -> s.preAllocatedVUs
      [] OTHER                                -> s.vus
MaxVUs(s) ==
    CASE s.executor = "ramping-vus"           -> Max({s.startVUs} \cup {s.stages[j].target : j \in DOMAIN s.stages})
      [] s.executor = "constant-arrival-rate" -> s.preAllocatedVUs
      [] OTHER                                -> s.vus

Length(s) == IF s.executor = "ramping-vus" THEN SumSeq([j \in DOMAIN s.stages |-> s.stages[j].duration])
             ELSE s.duration

\* The scenario with its defaults filled in. Fields of other executors are zero.
Complete(name, o) ==
    [name |-> name, executor |-> o.executor, exec |-> OrElse(o.exec, "default"),
     startTime |-> OrElse(o.startTime, 0), gracefulStop |-> OrElse(o.gracefulStop, DefaultGracefulStop),
     vus              |-> IF o.executor = "constant-vus" THEN OrElse(o.vus, 1) ELSE 0,
     duration         |-> OrElse(o.duration, 0),
     startVUs         |-> IF o.executor = "ramping-vus" THEN OrElse(o.startVUs, 1) ELSE 0,
     stages           |-> OrElse(o.stages, <<>>),
     gracefulRampDown |-> IF o.executor = "ramping-vus" THEN OrElse(o.gracefulRampDown, DefaultGracefulRampDown) ELSE 0,
     rate             |-> OrElse(o.rate, 0),
     timeUnit         |-> IF o.executor = "constant-arrival-rate" THEN OrElse(o.timeUnit, DefaultTimeUnit) ELSE 0,
     preAllocatedVUs  |-> OrElse(o.preAllocatedVUs, 0)]

\* What each executor asks of its own fields.
RampingValidWithoutLength(s) ==
    /\ s.startVUs >= 0 /\ s.gracefulRampDown >= 0
    /\ s.stages # <<>>
    /\ \A j \in DOMAIN s.stages : s.stages[j].duration >= 0 /\ s.stages[j].target >= 0
    /\ MaxVUs(s) >= 1
RampingValid(s) ==
    /\ s.startVUs >= 0 /\ s.gracefulRampDown >= 0
    /\ s.stages # <<>>
    /\ \A j \in DOMAIN s.stages : s.stages[j].duration >= 0 /\ s.stages[j].target >= 0
    /\ Length(s) > 0
    /\ MaxVUs(s) >= 1

ExecutorValid(s, o) ==
    CASE s.executor = "constant-vus" -> s.vus >= 1 /\ s.duration > 0
      [] s.executor = "ramping-vus"  -> RampingValid(s)
      [] OTHER -> /\ s.rate >= 1 /\ s.duration > 0 /\ s.preAllocatedVUs >= 1 /\ s.timeUnit > 0
                  /\ IsSet(o.maxVUs) => o.maxVUs[1] = s.preAllocatedVUs

\* resolveScenario returns no error for o.
ScenarioValid(o) ==
    LET s == Complete(0, o)
    IN  /\ s.exec \in Identifiers
        /\ s.startTime >= 0 /\ s.gracefulStop >= 0
        /\ o.executor \in DOMAIN Allowed
        /\ FieldsSet(o) \subseteq Allowed[o.executor]
        /\ ExecutorValid(s, o)

-----------------------------------------------------------------------------
(* Resolve *)

\* A blank variable is as good as none.
hasEnv(env) == env.is \in {"wrong", "given"}

\* The first source that sets a value. A variable that does not parse is
\* rejected by name, as 0 from the same variable would be.
Choose(flag, env, option, default) ==
    IF IsSet(flag) THEN [from |-> "flag", value |-> flag[1]]
    ELSE IF hasEnv(env) THEN [from |-> "env", value |-> IF env.is = "given" THEN env.value ELSE 0]
    ELSE IF IsSet(option) THEN [from |-> "script", value |-> option[1]]
    ELSE [from |-> "default", value |-> default]

OverrideByFlag(cli, env) == IsSet(cli.vus) \/ IsSet(cli.duration)
Override(cli, env) == IsSet(cli.vus) \/ IsSet(cli.duration) \/ hasEnv(env.vus) \/ hasEnv(env.duration)

Shorthand(vus, dur, gracefulStop) ==
    Complete("default", [NoFields EXCEPT !.executor = "constant-vus", !.vus = <<vus>>,
                             !.duration = <<dur>>, !.gracefulStop = <<gracefulStop>>])

\* The scenario that options.stages stands for.
StagesScenario(script, vus, gracefulStop) ==
    [NoFields EXCEPT !.executor = "ramping-vus", !.startVUs = <<vus>>, !.stages = script.stages,
                     !.gracefulStop = <<gracefulStop>>]

Rejected            == [ok |-> FALSE]
Accepted(s)         == [ok |-> TRUE, scenarios |-> s, replaced |-> FALSE]
Replaced(s)         == [ok |-> TRUE, scenarios |-> s, replaced |-> TRUE]

resolveScenarios(script, override, vus, dur, gracefulStop) ==
    LET shorthand == <<Shorthand(vus, dur, gracefulStop)>>
        listed    == script.scenarios[1]
        ramp      == StagesScenario(script, vus, gracefulStop)
    IN  CASE IsSet(script.scenarios) /\ \E f \in {"vus", "duration", "stages"} : IsSet(script[f]) -> Rejected
          [] ~IsSet(script.scenarios) /\ IsSet(script.stages) /\ IsSet(script.duration)           -> Rejected
          [] ~IsSet(script.scenarios) /\ ~IsSet(script.stages)                      -> Accepted(shorthand)
          [] OTHER ->
                IF override THEN Replaced(shorthand)
                ELSE IF ~IsSet(script.scenarios)
                THEN IF ScenarioValid(ramp) THEN Accepted(<<Complete("default", ramp)>>) ELSE Rejected
                ELSE IF listed # <<>> /\ \A i \in DOMAIN listed : ScenarioValid(listed[i])
                THEN Accepted([i \in DOMAIN listed |-> Complete(i, listed[i])])
                ELSE Rejected

\* Config.Validate, for a configuration with a script.
Validate(c, gracefulStop) == c.VUs >= 1 /\ c.Duration > 0 /\ gracefulStop >= 0

\* Config.Resolve and the check of its result: the configuration, or Rejected.
Resolve(cli, env, script, gracefulStop) ==
    LET vus == Choose(cli.vus, env.vus, script.vus, DefaultVUs)
        dur == Choose(cli.duration, env.duration, script.duration, DefaultDuration)
        r   == resolveScenarios(script, Override(cli, env), vus.value, dur.value, gracefulStop)
        c   == [ok |-> TRUE, scenarios |-> r.scenarios, replaced |-> r.replaced,
                VUs       |-> SumSeq([i \in DOMAIN r.scenarios |-> MaxVUs(r.scenarios[i])]),
                Duration  |-> Max({r.scenarios[i].startTime + Length(r.scenarios[i]) : i \in DOMAIN r.scenarios}),
                discardResponseBodies |-> OrElse(script.discardResponseBodies, TRUE),
                noCookiesReset        |-> OrElse(script.noCookiesReset, FALSE),
                noConnectionReuse     |-> OrElse(script.noConnectionReuse, FALSE),
                httpVersion           |-> OrElse(script.httpVersion, "auto"),
                setupTimeout          |-> OrElse(script.setupTimeout, DefaultLifecycleTimeout),
                teardownTimeout       |-> OrElse(script.teardownTimeout, DefaultLifecycleTimeout)]
    IN  IF /\ vus.value >= 1 /\ dur.value > 0
           /\ r.ok
           /\ c.setupTimeout > 0 /\ c.teardownTimeout > 0
           /\ Validate(c, gracefulStop)
        THEN c ELSE Rejected
=============================================================================
