----------------------------- MODULE Lifecycle ------------------------------
(***************************************************************************)
(* One test run from start to exit code: runner.Run (internal/runner/      *)
(* runner.go) with the lifecycle runtime it drives (internal/script/       *)
(* lifecycle.go), the protocol modules' runs and instances (internal/      *)
(* script/protocols.go), VU creation (script.go NewVUExec, engine/         *)
(* scenario.go), the verdict (report/outcome.go) and the command that      *)
(* reports it (cli/run.go, cli/exit.go, cmd/loadtool/main.go).             *)
(*                                                                         *)
(* Runtime 0 runs the script's top-level code, setup and teardown; runtime *)
(* k > 0 is VU k.  Ctrl+C, the interrupt hook (context.AfterFunc) and the  *)
(* timeouts interleave with the runner's goroutine.  The load phase is one *)
(* state here: ArrivalRate and RampingVU model what happens in it.         *)
(***************************************************************************)
EXTENDS Integers, FiniteSets

CONSTANTS NumVUs,      \* VUs of all scenarios together
          NumModules   \* protocol modules the script imports

ASSUME SizeAssumption == NumVUs \in Nat /\ NumModules \in Nat

Runtimes == 0..NumVUs
Modules  == 1..NumModules
NoCode   == -1         \* no exit code yet, no JSON summary written

VARIABLES
    pc,          \* where runner.Run, then runTest, stands
    exports,     \* which of setup and teardown the script exports
    cancelled,   \* the first Ctrl+C ended Run's ctx
    restored,    \* main's AfterFunc(ctx, stop) restored default signals
    mods,        \* module runs: none, open or closed
    inst,        \* the open module instances of each runtime
    vus,         \* how many VUs were appended to the runner's slice
    js,          \* the script call: none, running, or how it returned
    hook,        \* its AfterFunc: none, armed, fired (started), done
    intr,        \* runtimes with a pending goja interrupt
    timedOut,    \* the call's timeout passed
    detached,    \* teardown's context ignores ctx's cancellation
    setupRes,    \* none, ok or failed
    teardownRes, \* none, ok, interrupted, timeout or error
    failed,      \* Run returns an error and no result
    interrupted, \* Result.Interrupted
    thFailed,    \* some threshold failed
    jsonCode,    \* outcome.exitCode of the JSON summary
    exitCode     \* of the process

runVars    == <<exports, vus, setupRes, teardownRes, failed, interrupted, thFailed>>
moduleVars == <<mods, inst>>
callVars   == <<js, hook, intr, timedOut, detached>>
signalVars == <<cancelled, restored>>
exitVars   == <<jsonCode, exitCode>>
vars == <<pc, runVars, moduleVars, callVars, signalVars, exitVars>>

Stopped == pc \in {"exited", "killed"}

Init ==
    /\ pc = "modules"
    /\ exports \in SUBSET {"setup", "teardown"}
    /\ cancelled = FALSE /\ restored = FALSE
    /\ mods = [m \in Modules |-> "none"]
    /\ inst = [rt \in Runtimes |-> {}]
    /\ vus = 0
    /\ js = "none" /\ hook = "none" /\ intr = {} /\ timedOut = FALSE /\ detached = FALSE
    /\ setupRes = "none" /\ teardownRes = "none"
    /\ failed = FALSE /\ interrupted = FALSE /\ thFailed = FALSE
    /\ jsonCode = NoCode /\ exitCode = NoCode

-----------------------------------------------------------------------------
(* Ctrl+C *)

\* main: signal.NotifyContext cancels ctx; AfterFunc(ctx, stop) then restores
\* the default handling, so that the next Ctrl+C ends the process.
CtrlC ==
    /\ ~cancelled /\ ~Stopped
    /\ cancelled' = TRUE
    /\ UNCHANGED <<pc, runVars, moduleVars, callVars, restored, exitVars>>

RestoreSignals ==
    /\ cancelled /\ ~restored /\ ~Stopped
    /\ restored' = TRUE
    /\ UNCHANGED <<pc, runVars, moduleVars, callVars, cancelled, exitVars>>

SecondCtrlC ==
    /\ restored /\ ~Stopped
    /\ pc' = "killed"
    /\ UNCHANGED <<runVars, moduleVars, callVars, signalVars, exitVars>>

-----------------------------------------------------------------------------
(* Script calls: top-level code, setup and teardown under interruptOn *)

\* The runtime whose code the runner's goroutine is running.
CallRuntime == IF pc = "newVU" THEN vus + 1 ELSE 0
InCall      == pc \in {"init", "setup", "newVU", "teardown"}

\* The call's context has ended.
CallEnded == timedOut \/ (cancelled /\ ~detached)

\* interruptOn arms the hook, then the code starts.
StartCall ==
    /\ js' = "running" /\ hook' = "armed" /\ timedOut' = FALSE
    /\ UNCHANGED intr

\* context.WithTimeout in Lifecycle.call: setupTimeout and teardownTimeout.
CallTimeout ==
    /\ pc \in {"setup", "teardown"} /\ ~timedOut
    /\ timedOut' = TRUE
    /\ UNCHANGED <<pc, runVars, moduleVars, js, hook, intr, detached, signalVars, exitVars>>

\* The context package starts the hook on a goroutine of its own ...
HookFires ==
    /\ hook = "armed" /\ CallEnded /\ ~Stopped
    /\ hook' = "fired"
    /\ UNCHANGED <<pc, runVars, moduleVars, js, intr, timedOut, detached, signalVars, exitVars>>

\* ... which interrupts the runtime and closes fired.
HookRunsIdly ==
    /\ hook = "fired" /\ ~Stopped
    /\ hook' = "done"
    /\ UNCHANGED <<pc, runVars, moduleVars, js, intr, timedOut, detached, signalVars, exitVars>>
HookRuns ==
    /\ hook = "fired" /\ ~Stopped
    /\ hook' = "done" /\ intr' = intr \cup {CallRuntime}
    /\ UNCHANGED <<pc, runVars, moduleVars, js, timedOut, detached, signalVars, exitVars>>

\* The script's code returns or throws; a pending interrupt may come too late
\* for it.
JSReturns(how) ==
    /\ InCall /\ js = "running"
    /\ js' = how
    /\ UNCHANGED <<pc, runVars, moduleVars, hook, intr, timedOut, detached, signalVars, exitVars>>

\* goja aborts interrupted code and clears the interrupt.
JSAborts ==
    /\ InCall /\ js = "running" /\ CallRuntime \in intr
    /\ js' = "threw" /\ intr' = intr \ {CallRuntime}
    /\ UNCHANGED <<pc, runVars, moduleVars, hook, timedOut, detached, signalVars, exitVars>>

\* release: if the hook fired, wait for it and clear its interrupt.
ReleaseWithoutClearing ==
    /\ InCall /\ js \in {"ok", "threw"} /\ hook \in {"armed", "done"}
    /\ hook' = "none" /\ UNCHANGED intr
    /\ UNCHANGED <<pc, runVars, moduleVars, js, timedOut, detached, signalVars, exitVars>>
Release ==
    /\ InCall /\ js \in {"ok", "threw"} /\ hook \in {"armed", "done"}
    /\ hook' = "none"
    /\ intr' = IF hook = "done" THEN intr \ {CallRuntime} ELSE intr
    /\ UNCHANGED <<pc, runVars, moduleVars, js, timedOut, detached, signalVars, exitVars>>

\* The call's code returned and the hook was released.
CallOver(place) == pc = place /\ js \in {"ok", "threw"} /\ hook = "none"
EndCall == js' = "none" /\ UNCHANGED <<hook, intr, timedOut>>

\* instanceFor: running code uses module m for the first time in runtime rt.
UseModule(rt, m) ==
    /\ \/ InCall /\ js = "running" /\ rt = CallRuntime
       \/ pc = "driving" /\ rt \in 1..vus
    /\ mods[m] = "open" /\ m \notin inst[rt]
    /\ inst' = [inst EXCEPT ![rt] = @ \cup {m}]
    /\ UNCHANGED <<pc, runVars, mods, callVars, signalVars, exitVars>>

-----------------------------------------------------------------------------
(* Run: before the load *)

CloseOpen(ms) == [m \in Modules |-> IF ms[m] = "open" THEN "closed" ELSE ms[m]]

\* script.Load or NewFamilies fails: nothing was started.
LoadFails ==
    /\ pc = "modules" /\ \A m \in Modules : mods[m] = "none"
    /\ failed' = TRUE /\ pc' = "report"
    /\ UNCHANGED <<exports, vus, setupRes, teardownRes, interrupted, thFailed, moduleVars,
                   callVars, signalVars, exitVars>>

\* StartModules, one module at a time; a failure closes the runs started.
StartModuleLeaking ==
    /\ pc = "modules" /\ UNCHANGED <<exports, vus, setupRes, teardownRes, interrupted,
                                     thFailed, inst, callVars, signalVars, exitVars>>
    /\ \E m \in Modules :
         /\ mods[m] = "none" /\ \A k \in 1..(m - 1) : mods[k] = "open"
         /\ \/ mods' = [mods EXCEPT ![m] = "open"] /\ UNCHANGED <<failed, pc>>
            \/ failed' = TRUE /\ pc' = "report" /\ UNCHANGED mods
StartModule ==
    /\ pc = "modules" /\ UNCHANGED <<exports, vus, setupRes, teardownRes, interrupted,
                                     thFailed, inst, callVars, signalVars, exitVars>>
    /\ \E m \in Modules :
         /\ mods[m] = "none" /\ \A k \in 1..(m - 1) : mods[k] = "open"
         /\ \/ mods' = [mods EXCEPT ![m] = "open"] /\ UNCHANGED <<failed, pc>>
            \/ mods' = CloseOpen(mods) /\ failed' = TRUE /\ pc' = "report"

\* NewLifecycle: the top-level code starts in runtime 0.
NewLifecycle ==
    /\ pc = "modules" /\ \A m \in Modules : mods[m] = "open"
    /\ pc' = "init" /\ StartCall
    /\ UNCHANGED <<runVars, moduleVars, detached, signalVars, exitVars>>

InitDone ==
    /\ CallOver("init") /\ EndCall
    /\ pc' = IF js = "ok" THEN "prepare" ELSE "closeModules"
    /\ failed' = (js # "ok")
    /\ UNCHANGED <<exports, vus, setupRes, teardownRes, interrupted, thFailed, moduleVars,
                   detached, signalVars, exitVars>>

\* Options, ParseOptions, Resolve, Validate, thresholds.Parse or prepareExecs
\* fails: lc.Close is not deferred yet.
PrepareFails ==
    /\ pc = "prepare"
    /\ failed' = TRUE /\ pc' = "closeModules"
    /\ UNCHANGED <<exports, vus, setupRes, teardownRes, interrupted, thFailed, moduleVars,
                   callVars, signalVars, exitVars>>

\* Lifecycle.Setup calls setup if the script exports it.
BeginSetup ==
    /\ pc = "prepare"
    /\ IF "setup" \in exports
       THEN pc' = "setup" /\ StartCall /\ UNCHANGED setupRes
       ELSE pc' = "createVUs" /\ setupRes' = "ok" /\ UNCHANGED <<js, hook, intr, timedOut>>
    /\ UNCHANGED <<exports, vus, teardownRes, failed, interrupted, thFailed, moduleVars,
                   detached, signalVars, exitVars>>

\* The verdict of Lifecycle.call, in its order: cancellation first, then the
\* returned value (a rejected Promise is an error), the timeout, the error.
CallVerdict(res) ==
    IF cancelled /\ ~detached THEN res = "interrupted"
    ELSE IF js = "ok" THEN res \in {"ok", "error"}
    ELSE res = IF timedOut THEN "timeout" ELSE "error"

\* A failed setup ends the test: no load and no teardown.
SetupDone ==
    /\ CallOver("setup") /\ EndCall
    /\ \E res \in {"ok", "interrupted", "timeout", "error"} :
         /\ CallVerdict(res)
         /\ setupRes' = IF res = "ok" THEN "ok" ELSE "failed"
         /\ failed' = (res # "ok")
         /\ pc' = IF res = "ok" THEN "createVUs" ELSE "closeLifecycle"
    /\ UNCHANGED <<exports, vus, teardownRes, interrupted, thFailed, moduleVars, detached,
                   signalVars, exitVars>>

-----------------------------------------------------------------------------
(* Run: the load and what follows *)

\* RunScenariosSampled creates the VUs one at a time, checking ctx before each.
CreateVU ==
    /\ pc = "createVUs" /\ vus < NumVUs /\ ~cancelled
    /\ pc' = "newVU" /\ StartCall
    /\ UNCHANGED <<runVars, moduleVars, detached, signalVars, exitVars>>

CreationCancelledWithoutTeardown ==
    /\ pc = "createVUs" /\ vus < NumVUs /\ cancelled
    /\ pc' = "closeLifecycle" /\ failed' = TRUE /\ interrupted' = TRUE
    /\ UNCHANGED <<exports, vus, setupRes, teardownRes, thFailed, moduleVars, callVars,
                   signalVars, exitVars>>
CreationCancelled ==
    /\ pc = "createVUs" /\ vus < NumVUs /\ cancelled
    /\ pc' = "closeVUs" /\ failed' = TRUE /\ interrupted' = TRUE
    /\ UNCHANGED <<exports, vus, setupRes, teardownRes, thFailed, moduleVars, callVars,
                   signalVars, exitVars>>

\* The next scenario is a ramping-vus one beyond the limits, which only its
\* executor's validate knows, when setup and the VUs before it are there.
EngineRefuses ==
    /\ pc = "createVUs" /\ vus < NumVUs
    /\ pc' = "closeVUs" /\ failed' = TRUE /\ interrupted' = cancelled
    /\ UNCHANGED <<exports, vus, setupRes, teardownRes, thFailed, moduleVars, callVars,
                   signalVars, exitVars>>

\* Code that threw, or that exports no function to run, fails the VU.
NewVUDone ==
    /\ CallOver("newVU") /\ EndCall
    /\ \/ /\ js = "ok"
          /\ vus' = vus + 1 /\ pc' = "createVUs"
          /\ UNCHANGED <<failed, interrupted>>
       \/ /\ pc' = "closeVUs" /\ failed' = TRUE /\ interrupted' = cancelled
          /\ UNCHANGED vus
    /\ UNCHANGED <<exports, setupRes, teardownRes, thFailed, moduleVars, detached,
                   signalVars, exitVars>>

StartLoad ==
    /\ pc = "createVUs" /\ vus = NumVUs
    /\ pc' = "driving"
    /\ UNCHANGED <<runVars, moduleVars, callVars, signalVars, exitVars>>

\* RunScenariosSampled returns; Run reads ctx.Err() before teardown.
LoadEnds ==
    /\ pc = "driving"
    /\ pc' = "closeVUs" /\ interrupted' = cancelled
    /\ UNCHANGED <<exports, vus, setupRes, teardownRes, failed, thFailed, moduleVars, callVars,
                   signalVars, exitVars>>

CloseVUsButLast ==
    /\ pc = "closeVUs"
    /\ inst' = [rt \in Runtimes |-> IF rt \in 1..(vus - 1) THEN {} ELSE inst[rt]]
    /\ pc' = "beginTeardown"
    /\ UNCHANGED <<runVars, mods, callVars, signalVars, exitVars>>
CloseVUs ==
    /\ pc = "closeVUs"
    /\ inst' = [rt \in Runtimes |-> IF rt \in 1..vus THEN {} ELSE inst[rt]]
    /\ pc' = "beginTeardown"
    /\ UNCHANGED <<runVars, mods, callVars, signalVars, exitVars>>

\* teardownContext: a ctx that was cancelled before is ignored from here on.
BeginTeardown ==
    /\ pc = "beginTeardown"
    /\ detached' = cancelled
    /\ IF "teardown" \in exports
       THEN pc' = "teardown" /\ StartCall
       ELSE pc' = "closeLifecycle" /\ UNCHANGED <<js, hook, intr, timedOut>>
    /\ UNCHANGED <<runVars, moduleVars, signalVars, exitVars>>

TeardownDone ==
    /\ CallOver("teardown") /\ EndCall
    /\ \E res \in {"ok", "interrupted", "timeout", "error"} :
         CallVerdict(res) /\ teardownRes' = res
    /\ pc' = "closeLifecycle"
    /\ UNCHANGED <<exports, vus, setupRes, failed, interrupted, thFailed, moduleVars, detached,
                   signalVars, exitVars>>

\* The deferred calls, last in first out: lc.Close, then CloseModules.
CloseLifecycle ==
    /\ pc = "closeLifecycle"
    /\ inst' = [inst EXCEPT ![0] = {}]
    /\ pc' = "closeModules"
    /\ UNCHANGED <<runVars, mods, callVars, signalVars, exitVars>>

CloseModules ==
    /\ pc = "closeModules"
    /\ mods' = CloseOpen(mods)
    /\ pc' = "report"
    /\ UNCHANGED <<runVars, inst, callVars, signalVars, exitVars>>

-----------------------------------------------------------------------------
(* runTest: the result, its files and the exit code *)

\* report.Verdict: an interrupt or a failed teardown wins over thresholds.
VerdictThresholdsWin(thresholdFailed) ==
    IF thresholdFailed THEN 99
    ELSE IF interrupted \/ teardownRes \notin {"none", "ok"} THEN 1
    ELSE 0
Verdict(thresholdFailed) ==
    IF interrupted \/ teardownRes \notin {"none", "ok"} THEN 1
    ELSE IF thresholdFailed THEN 99 ELSE 0

ReportError ==
    /\ pc = "report" /\ failed
    /\ exitCode' = 1 /\ pc' = "exited"
    /\ UNCHANGED <<runVars, moduleVars, callVars, signalVars, jsonCode>>

\* Thresholds are evaluated, then the JSON summary and the HTML report are
\* written; a file that cannot be written makes the exit code 1.
ReportResult ==
    /\ pc = "report" /\ ~failed
    /\ \E bad \in BOOLEAN, json, html \in {"unasked", "written", "unwritten"} :
         /\ thFailed' = bad
         /\ jsonCode' = IF json = "written" THEN Verdict(bad) ELSE NoCode
         /\ exitCode' = IF "unwritten" \in {json, html} THEN 1 ELSE Verdict(bad)
    /\ pc' = "exited"
    /\ UNCHANGED <<exports, vus, setupRes, teardownRes, failed, interrupted, moduleVars,
                   callVars, signalVars>>

Done == Stopped /\ UNCHANGED vars

-----------------------------------------------------------------------------
Next ==
    \/ CtrlC \/ RestoreSignals \/ SecondCtrlC
    \/ CallTimeout \/ HookFires \/ HookRuns
    \/ \E how \in {"ok", "threw"} : JSReturns(how)
    \/ JSAborts \/ Release
    \/ \E rt \in Runtimes, m \in Modules : UseModule(rt, m)
    \/ LoadFails \/ StartModule \/ NewLifecycle \/ InitDone
    \/ PrepareFails \/ BeginSetup \/ SetupDone
    \/ CreateVU \/ CreationCancelled \/ EngineRefuses \/ NewVUDone \/ StartLoad \/ LoadEnds \/ CloseVUs
    \/ BeginTeardown \/ TeardownDone \/ CloseLifecycle \/ CloseModules
    \/ ReportError \/ ReportResult
    \/ Done

\* The runner's goroutine, timers and hooks make progress.  setup and teardown
\* may run for ever on their own; a script's top-level code ends (nothing but
\* Ctrl+C bounds it), and so does the load phase (ArrivalRate's AllReturn).
RunnerStep ==
    \/ Release \/ StartModule \/ NewLifecycle \/ InitDone
    \/ PrepareFails \/ BeginSetup \/ SetupDone
    \/ CreateVU \/ CreationCancelled \/ EngineRefuses \/ NewVUDone \/ StartLoad \/ LoadEnds \/ CloseVUs
    \/ BeginTeardown \/ TeardownDone \/ CloseLifecycle \/ CloseModules
    \/ ReportError \/ ReportResult
TopLevelReturns == pc \in {"init", "newVU"} /\ \E how \in {"ok", "threw"} : JSReturns(how)

Fairness ==
    /\ WF_vars(RunnerStep) /\ WF_vars(TopLevelReturns)
    /\ WF_vars(CallTimeout) /\ WF_vars(HookFires) /\ WF_vars(HookRuns) /\ WF_vars(JSAborts)

Safety == Init /\ [][Next]_vars
Spec == Safety /\ Fairness

-----------------------------------------------------------------------------
(* Properties *)

TypeOK ==
    /\ pc \in {"modules", "init", "prepare", "setup", "createVUs", "newVU", "driving",
               "closeVUs", "beginTeardown", "teardown", "closeLifecycle", "closeModules",
               "report", "exited", "killed"}
    /\ exports \in SUBSET {"setup", "teardown"}
    /\ cancelled \in BOOLEAN /\ restored \in BOOLEAN
    /\ mods \in [Modules -> {"none", "open", "closed"}]
    /\ inst \in [Runtimes -> SUBSET Modules]
    /\ vus \in 0..NumVUs /\ (pc = "newVU" => vus < NumVUs)
    /\ js \in {"none", "running", "ok", "threw"}
    /\ hook \in {"none", "armed", "fired", "done"}
    /\ intr \in SUBSET Runtimes
    /\ timedOut \in BOOLEAN /\ detached \in BOOLEAN
    /\ setupRes \in {"none", "ok", "failed"}
    /\ teardownRes \in {"none", "ok", "interrupted", "timeout", "error"}
    /\ failed \in BOOLEAN /\ interrupted \in BOOLEAN /\ thFailed \in BOOLEAN
    /\ jsonCode \in {NoCode, 0, 1, 99} /\ exitCode \in {NoCode, 0, 1, 99}

\* runner.go:76, "Teardown runs whenever setup completed (or the script has
\* none), even if VU start-up failed or the load phase was interrupted", and
\* never after a failed setup.
TeardownIffSetUp ==
    pc = "exited" =>
      (teardownRes # "none" <=> "teardown" \in exports /\ setupRes = "ok")

\* lifecycle.go:160, interruptOn: an interrupt is pending only while the call
\* it is meant for has not released its hook, so setup's never aborts teardown.
InterruptContained ==
    intr # {} /\ pc # "killed" => InCall /\ hook = "done" /\ intr = {CallRuntime}

\* runner.go:200, teardownContext: after a Ctrl+C in the load phase only
\* teardownTimeout stops teardown.
TeardownUndisturbed ==
    interrupted =>
      /\ teardownRes # "interrupted"
      /\ pc = "teardown" /\ hook \in {"fired", "done"} => timedOut

\* protocol.go:69, of the VUs the runner knows of and of the runtime whose
\* lc.Close it deferred: a module's run closes after these instances.
RunsOutliveKnownInstances ==
    \A m \in Modules, rt \in Runtimes :
      mods[m] = "closed" /\ (rt \in 1..vus \/ (rt = 0 /\ setupRes # "none")) => m \notin inst[rt]

\* protocols.go:182 and runner.go:103: whichever step fails, no module run is
\* left open at exit.
NoRunLeftOpen == pc = "exited" => \A m \in Modules : mods[m] # "open"

\* docs/cli.md:64: 0 only if the whole test ran, 99 only if it ran fully and
\* thresholds alone failed, and 1 for every run that was interrupted, that
\* could not start or whose teardown failed.  outcome.go:10: the JSON summary
\* shows the process's exit code, unless a file could not be written.
ExitTellsOutcome ==
    LET clean == /\ setupRes = "ok" /\ vus = NumVUs /\ ~interrupted
                 /\ teardownRes \in {"none", "ok"}
    IN  pc = "exited" =>
          /\ exitCode = 0  => clean /\ ~thFailed
          /\ exitCode = 99 => clean /\ thFailed
          /\ ~clean => exitCode = 1
          /\ jsonCode # NoCode => exitCode \in {jsonCode, 1}

\* Run returns and the process exits, whatever setup and teardown do.
Exits == <>Stopped
=============================================================================
