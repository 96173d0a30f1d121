------------------------------ MODULE Startup -------------------------------
(***************************************************************************)
(* A run from its settings to the start of the test clock: the runner      *)
(* resolves the options (module Options), runs setup and hands the         *)
(* scenarios to the engine, which validates each of them again, creates    *)
(* its VUs and gives every VU a recorder (internal/runner/runner.go,       *)
(* internal/engine/scenario.go). What happens to the runtimes and modules  *)
(* meanwhile is the subject of module Lifecycle.                           *)
(***************************************************************************)
EXTENDS Options

CONSTANTS Inputs,            \* records of flags, variables, options and exports
          MaxRampingVUs,     \* the engine's limits of a ramping-vus scenario
          MaxRampingLength

ASSUME RampingLimitsAssumption == {MaxRampingVUs, MaxRampingLength} \subseteq Nat

\* A pointer of the code, to a value of S.
OptionalOf(x, S) == x = <<>> \/ (x = <<x[1]>> /\ x[1] \in S)

\* What flags, variables and JSON are decoded into: numbers are whole, stages
\* and scenarios are lists.
Stages == Seq([duration : Int, target : Int])
ScenarioTyped(o) ==
    /\ OptionalOf(o.stages, Stages)
    /\ \A f \in (ExecutorFields \ {"stages"}) \cup {"startTime", "gracefulStop"} : OptionalOf(o[f], Int)
InputTyped(x) ==
    /\ x.gracefulStop \in Int
    /\ \A f \in KnownOptions : x.options[f].is \in {"absent", "null", "wrong", "given"}
    /\ \A f \in {"vus", "duration"} :
          /\ OptionalOf(x.cli[f], Int)
          /\ x.env[f].is = "given" => x.env[f].value \in Int
          /\ x.options[f].is = "given" => x.options[f].value \in Int
    /\ x.options.stages.is = "given" => x.options.stages.value \in Stages
    /\ x.options.scenarios.is = "given" =>
         LET listed == x.options.scenarios.value
         IN  /\ Len(listed) \in Nat /\ DOMAIN listed = 1..Len(listed)
             /\ \A i \in DOMAIN listed : listed[i].is = "given" => ScenarioTyped(listed[i].value)

ASSUME InputsAssumption == \A x \in Inputs : InputTyped(x)

VARIABLES in,        \* what the run was started with
          pc,
          cfg,       \* the resolved configuration
          warned,    \* what the runner warned about
          setUp,     \* setup ran
          plan,      \* the engine's scenarios
          cur,       \* the scenario whose VUs are being created
          iters,     \* for each scenario the numbers (__VU) of its VUs
          recs,      \* for each scenario its VUs' recorders
          cancelled  \* Ctrl+C

vars == <<in, pc, cfg, warned, setUp, plan, cur, iters, recs, cancelled>>

R == INSTANCE RampPlan WITH MicroTicks <- 1

Init == /\ in \in Inputs
        /\ pc = "options" /\ cfg = Rejected /\ warned = {} /\ setUp = FALSE
        /\ plan = <<>> /\ cur = 1 /\ iters = <<>> /\ recs = <<>> /\ cancelled = FALSE

\* The first Ctrl+C.
Cancel == /\ ~cancelled /\ pc \in {"options", "setup", "validate", "create"}
          /\ cancelled' = TRUE
          /\ UNCHANGED <<in, pc, cfg, warned, setUp, plan, cur, iters, recs>>

Fail == pc' = "failed"

-----------------------------------------------------------------------------
(* The runner *)

Resolved == Resolve(in.cli, in.env, ParseOptions(in.options), in.gracefulStop)

\* Every function the scenarios run is exported. (Thresholds that cannot be
\* parsed are Wrong options; module Thresholds says which those are.)
prepareExecs(scenarios) == \A i \in DOMAIN scenarios : scenarios[i].exec \in in.exports

Runnable == ~ParseFails(in.options) /\ Resolved.ok /\ prepareExecs(Resolved.scenarios)

\* The keys that nobody understands and the scenarios that flags replaced.
Unknown == \/ in.unknown
           \/ in.options.scenarios.is = "given"
                /\ \E i \in DOMAIN in.options.scenarios.value : in.options.scenarios.value[i].value.unknown
Warnings == {w \in {"unknown", "replaced"} : IF w = "unknown" THEN Unknown ELSE Resolved.ok /\ Resolved.replaced}

\* The engine's executor, with the fields it has.
executor(s) ==
    CASE s.executor = "ramping-vus" ->
            [kind |-> s.executor, startVUs |-> s.startVUs, stages |-> s.stages, gracefulRampDown |-> s.gracefulRampDown]
      [] s.executor = "constant-arrival-rate" ->
            [kind |-> s.executor, rate |-> s.rate, timeUnit |-> s.timeUnit, duration |-> s.duration,
             preAllocatedVUs |-> s.preAllocatedVUs]
      [] OTHER -> [kind |-> s.executor, vus |-> s.vus, duration |-> s.duration]

\* VUs are numbered from 1 across the scenarios; base is a scenario's first.
engineScenarios(scenarios) ==
    [i \in DOMAIN scenarios |->
        [executor |-> executor(scenarios[i]), startTime |-> scenarios[i].startTime,
         gracefulStop |-> scenarios[i].gracefulStop, exec |-> scenarios[i].exec,
         base |-> 1 + SumSeq([j \in 1..(i - 1) |-> MaxVUs(scenarios[j])])]]

AcceptOptions == /\ pc = "options" /\ Runnable
                 /\ cfg' = Resolved /\ warned' = Warnings
                 /\ plan' = engineScenarios(Resolved.scenarios)
                 /\ pc' = "setup"
                 /\ UNCHANGED <<in, setUp, cur, iters, recs, cancelled>>

\* Unknown keys are warned about once the options have been parsed.
RejectOptions == /\ pc = "options" /\ ~Runnable /\ Fail
                 /\ warned' = IF ParseFails(in.options) THEN {} ELSE Warnings \ {"replaced"}
                 /\ UNCHANGED <<in, cfg, setUp, plan, cur, iters, recs, cancelled>>

\* A script may have no setup. One that fails or is interrupted ends the run.
HasSetup == "setup" \in in.exports
Setup == /\ pc = "setup"
         /\ setUp' = HasSetup
         /\ \/ (HasSetup => ~cancelled) /\ pc' = "validate"
            \/ HasSetup /\ Fail
         /\ UNCHANGED <<in, cfg, warned, plan, cur, iters, recs, cancelled>>

-----------------------------------------------------------------------------
(* The engine *)

\* How many VUs an executor needs and how long iterations may start.
Needs(e) == CASE e.kind = "ramping-vus"           -> R!MaxVUs(e)
              [] e.kind = "constant-arrival-rate" -> e.preAllocatedVUs
              [] OTHER                            -> e.vus
Lasts(e) == IF e.kind = "ramping-vus" THEN R!PlanLength(e) ELSE e.duration

\* Executor.validate
validate(e) ==
    CASE e.kind = "ramping-vus" ->
            /\ R!ValidPlan(e) /\ e.gracefulRampDown >= 0
            /\ Needs(e) <= MaxRampingVUs /\ Lasts(e) <= MaxRampingLength
      [] e.kind = "constant-arrival-rate" ->
            e.rate >= 1 /\ e.timeUnit > 0 /\ e.duration > 0 /\ e.preAllocatedVUs >= 1
      [] OTHER -> e.vus >= 1 /\ e.duration > 0

\* The next scenario is validated before its VUs are created, after those of
\* the scenarios before it.
ValidateScenario == /\ pc = "validate" /\ cur <= Len(plan)
                    /\ IF validate(plan[cur].executor)
                       THEN pc' = "create" /\ iters' = Append(iters, <<>>)
                       ELSE Fail /\ UNCHANGED iters
                    /\ UNCHANGED <<in, cfg, warned, setUp, plan, cur, recs, cancelled>>

NewVU == /\ pc = "create" /\ Len(iters[cur]) < Needs(plan[cur].executor)
         /\ ~cancelled
         /\ iters' = [iters EXCEPT ![cur] = Append(@, plan[cur].base + Len(@))]
         /\ UNCHANGED <<in, pc, cfg, warned, setUp, plan, cur, recs, cancelled>>

\* Top-level code throws in a VU, or Ctrl+C came before the next one.
NewVUFails == /\ pc = "create" /\ Len(iters[cur]) < Needs(plan[cur].executor)
              /\ Fail
              /\ UNCHANGED <<in, cfg, warned, setUp, plan, cur, iters, recs, cancelled>>

VUsCreated == /\ pc = "create" /\ Len(iters[cur]) = Needs(plan[cur].executor)
              /\ pc' = "validate" /\ cur' = cur + 1
              /\ UNCHANGED <<in, cfg, warned, setUp, plan, iters, recs, cancelled>>

\* The recorders are cut into one slice for each scenario, and the clock starts.
StartClock == /\ pc = "validate" /\ cur > Len(plan)
              /\ recs' = [i \in DOMAIN plan |->
                             LET next == SumSeq([j \in 1..(i - 1) |-> Len(iters[j])])
                             IN  [j \in DOMAIN iters[i] |-> next + j]]
              /\ pc' = "running"
              /\ UNCHANGED <<in, cfg, warned, setUp, plan, cur, iters, cancelled>>

Done == pc \in {"failed", "running"} /\ UNCHANGED vars

Next == \/ Cancel \/ AcceptOptions \/ RejectOptions \/ Setup
        \/ ValidateScenario \/ NewVU \/ NewVUFails \/ VUsCreated \/ StartClock \/ Done

Spec == Init /\ [][Next]_vars

-----------------------------------------------------------------------------
(* Properties *)

script == ParseOptions(in.options)

\* When iterations stop starting in scenario i, from the start of the clock.
StopsAt(i) == plan[i].startTime + Lasts(plan[i].executor)

Pairs(f) == {p \in (DOMAIN f) \X (1..cfg.VUs) : p[2] \in DOMAIN f[p[1]]}

\* The plan that the report announces, and that the connection pool is sized
\* for, is the one that runs: the VUs are numbered from 1 to cfg.VUs without a
\* gap, each has a recorder of its own, and the last scenario stops starting
\* iterations at cfg.Duration (config.Resolve and engine.RunScenariosSampled
\* count VUs and time independently).
AnnouncedPlanRuns ==
    pc = "running" =>
        /\ \A f \in {iters, recs} :
              /\ SumSeq([i \in DOMAIN f |-> Len(f[i])]) = cfg.VUs
              /\ {f[p[1]][p[2]] : p \in Pairs(f)} = 1..cfg.VUs
        /\ \A i \in DOMAIN plan : Len(recs[i]) = Len(iters[i])
        /\ {StopsAt(i) : i \in DOMAIN plan} \subseteq 0..cfg.Duration
        /\ \E i \in DOMAIN plan : StopsAt(i) = cfg.Duration

\* A field that the script set is what its executor works with; maxVUs may only
\* repeat preAllocatedVUs.
FieldHonoured(e, f, v) ==
    IF f = "maxVUs" THEN e.preAllocatedVUs = v ELSE f \in DOMAIN e /\ e[f] = v

\* Each scenario of the script and each of its fields is in the engine's plan,
\* and so are the stages or vus and duration of the shorthand, unless the user
\* was told that flags or variables replaced them.
NothingSilentlyDropped ==
    "replaced" \notin warned =>
        IF IsSet(script.scenarios)
        THEN LET listed == script.scenarios[1]
             IN  /\ Len(plan) = Len(listed)
                 /\ \A i \in DOMAIN listed :
                       /\ plan[i].executor.kind = listed[i].executor
                       /\ \A f \in FieldsSet(listed[i]) : FieldHonoured(plan[i].executor, f, listed[i][f][1])
                       /\ \A f \in {"exec", "startTime", "gracefulStop"} :
                             IsSet(listed[i][f]) => plan[i][f] = listed[i][f][1]
                       /\ listed[i].unknown => "unknown" \in warned
        ELSE /\ Len(plan) = 1
             /\ LET e == plan[1].executor
                IN  IF IsSet(script.stages)
                    THEN e.stages = script.stages[1] /\ e.startVUs = OrElse(script.vus, DefaultVUs)
                    ELSE /\ IsSet(script.vus) /\ ~IsSet(in.cli.vus) /\ in.env.vus \in {Absent, Blank}
                                => e.vus = script.vus[1]
                         /\ IsSet(script.duration) /\ ~IsSet(in.cli.duration) /\ in.env.duration \in {Absent, Blank}
                                => e.duration = script.duration[1]

\* The value of a setting by the documented order of its sources, if one of
\* them sets it.
Ranked(flag, env) == IF flag # <<>> THEN flag ELSE IF env.is = "given" THEN <<env.value>> ELSE <<>>

\* A flag or a variable that is set has the last word: whatever the script says,
\* one constant-vus scenario runs with the value of the highest source for each
\* setting, and the user is told if that replaced scenarios or stages. A blank
\* variable counts as not set.
OverridesWin ==
    LET vus == Ranked(in.cli.vus, in.env.vus)
        dur == Ranked(in.cli.duration, in.env.duration)
    IN  /\ vus # <<>> \/ dur # <<>> =>
              /\ Len(plan) = 1 /\ plan[1].executor.kind = "constant-vus"
              /\ plan[1].gracefulStop = in.gracefulStop
              /\ vus # <<>> => plan[1].executor.vus = vus[1]
              /\ dur # <<>> => plan[1].executor.duration = dur[1]
        /\ "replaced" \in warned <=> /\ vus # <<>> \/ dur # <<>>
                                     /\ IsSet(script.scenarios) \/ IsSet(script.stages)

\* What was asked for is what runs, or the user is told: nothing of the script
\* is dropped in silence, and flags and variables win over it in their order
\* (Resolve, hasEnv, resolveScenarios, resolveScenario, executor).
AskedForRuns == pc = "running" => NothingSilentlyDropped /\ OverridesWin

\* The limits of ramping-vus, which only the engine knows.
ExceedsLimits(e) == e.kind = "ramping-vus" /\ (Needs(e) > MaxRampingVUs \/ Lasts(e) > MaxRampingLength)
=============================================================================
