------------------------------ MODULE RampingVU ------------------------------
(***************************************************************************)
(* One VU of a ramping-vus scenario: the goroutine of RampingVUs.drive     *)
(* (internal/engine/executors.go), the iterations it runs in the script's  *)
(* runtime (script.VU.Iterate) and the goroutine that context.AfterFunc    *)
(* starts to interrupt the JavaScript when an iteration's context ends.    *)
(* The VUs of such a scenario share no state, so one stands for all.       *)
(*                                                                         *)
(* The clock is the offset from the scenario's start, negative before it.  *)
(***************************************************************************)
EXTENDS RampPlan

CONSTANTS
    Plans,            \* the stages of the scenario
    StartTime,        \* how long before the scenario's start the clock starts
    GracefulRampDown, \* how long a deactivated VU may finish its iteration
    GracefulStop,     \* how long iterations may go on after the stages
    MaxIterations,    \* bound: iterations begun in a behaviour
    MaxCalls          \* bound: Go calls (requests, sleeps) per iteration

ASSUME ScenarioAssumption ==
    /\ \A p \in Plans : ValidPlan(p) /\ p.stages \in Seq([duration : Nat, target : Nat])
    /\ {StartTime, GracefulRampDown, GracefulStop, MaxIterations, MaxCalls} \subseteq Nat

VARIABLES
    plan, i,    \* the scenario's stages and this VU's index
    now,        \* the clock
    ctxDone,    \* the scenario's context has ended
    pc,         \* where the VU's goroutine is
    wake,       \* the offset it sleeps until
    startedAt,  \* when its iteration began
    deadline,   \* the iteration's own deadline, or NoOffset
    iterDone,   \* the iteration's context has ended
    hook,       \* the iteration's AfterFunc is registered and has not started
    flying,     \* AfterFunc goroutines started that have not interrupted yet
    interrupt,  \* goja's interrupt flag
    calls,      \* Go calls the iteration has made
    outcome,    \* how the script's function ended
    begun,      \* iterations begun
    iterations, \* iterations recorded
    errors      \* script errors recorded

clock == <<plan, i, now, ctxDone>>
ctxVars == <<startedAt, deadline, iterDone>>
jsVars == <<hook, flying, interrupt, calls, outcome>>
recVars == <<begun, iterations, errors>>
vars == <<clock, pc, wake, ctxVars, jsVars, recVars>>

Length   == PlanLength(plan)
HardStop == Length + GracefulStop
Horizon  == HardStop    \* nothing waits for a later instant

InIteration == pc \in {"begin", "script", "blocked", "returned", "stopped", "after"}

-----------------------------------------------------------------------------
(* The clock and the contexts *)

Tick == now < Horizon /\ now' = now + 1
        /\ UNCHANGED <<plan, i, ctxDone, pc, wake, ctxVars, jsVars, recVars>>

\* The iteration's context ends; a registered AfterFunc starts its goroutine.
EndIterationContext ==
    /\ iterDone' = TRUE
    /\ hook' = FALSE
    /\ flying' = IF hook THEN flying + 1 ELSE flying
    /\ UNCHANGED <<startedAt, deadline, interrupt, calls, outcome>>

\* Ctrl+C, or the scenario's deadline; its children end with it.
Cancel ==
    /\ ~ctxDone
    /\ ctxDone' = TRUE
    /\ IF InIteration /\ ~iterDone THEN EndIterationContext ELSE UNCHANGED <<ctxVars, jsVars>>
    /\ UNCHANGED <<plan, i, now, pc, wake, recVars>>

Expire == now >= HardStop /\ Cancel

\* The timer of the iteration's own deadline fires.
RampDownDeadline ==
    /\ InIteration /\ ~iterDone
    /\ deadline # NoOffset /\ now >= deadline
    /\ EndIterationContext
    /\ UNCHANGED <<clock, pc, wake, recVars>>

-----------------------------------------------------------------------------
(* RampingVUs.drive *)

Exit == pc' = "exited" /\ UNCHANGED <<wake, ctxVars, jsVars, recVars>>

\* The deadline runIteration gives an iteration that begins now.
IterationDeadlineNone(at) == NoOffset
IterationDeadline(at) ==
    LET off == next(plan, i, at, FALSE)
    IN  IF off # NoOffset /\ off < Length /\ off + GracefulRampDown < HardStop
          THEN off + GracefulRampDown ELSE NoOffset

StartIteration ==
    /\ begun < MaxIterations
    /\ pc' = "begin"
    /\ startedAt' = now
    /\ deadline' = IterationDeadline(now)
    /\ iterDone' = FALSE
    /\ calls' = 0
    /\ outcome' = "none"
    /\ begun' = begun + 1
    /\ UNCHANGED <<wake, hook, flying, interrupt, iterations, errors>>

\* One pass of the loop: return, sleep until the VU is next active, or run.
LoopWithoutRecheck ==
    /\ pc = "loop"
    /\ LET on == next(plan, i, Max({now, 0}), TRUE)
       IN  \/ (ctxDone \/ now >= Length \/ on = NoOffset) /\ Exit
           \/ /\ ~ctxDone /\ now < Length /\ on # NoOffset
              /\ StartIteration
    /\ UNCHANGED clock
Loop ==
    /\ pc = "loop"
    /\ LET on == next(plan, i, Max({now, 0}), TRUE)
       IN  \/ /\ ctxDone \/ now >= Length \/ on = NoOffset \/ on >= Length
              /\ Exit
           \/ /\ ~ctxDone /\ now < Length /\ on # NoOffset /\ on > now
              /\ pc' = "asleep"
              /\ wake' = on
              /\ UNCHANGED <<ctxVars, jsVars, recVars>>
           \/ /\ ~ctxDone /\ now < Length /\ on # NoOffset /\ on <= now
              /\ StartIteration
    /\ UNCHANGED clock

\* waitUntil: at wake-up with a live context, look again; else return.
WakeUp ==
    /\ pc = "asleep"
    /\ \/ now >= wake /\ ~ctxDone /\ pc' = "loop" /\ UNCHANGED <<wake, ctxVars, jsVars, recVars>>
       \/ ctxDone /\ Exit
    /\ UNCHANGED clock

-----------------------------------------------------------------------------
(* script.VU.Iterate and the JavaScript it runs *)

\* Iterate returns at once if its context has ended, else it registers the
\* interrupt and calls the script's function.
BeginWithoutHook ==
    /\ pc = "begin"
    /\ pc' = IF iterDone THEN "after" ELSE "script"
    /\ UNCHANGED <<clock, wake, ctxVars, jsVars, recVars>>
Begin ==
    /\ pc = "begin"
    /\ IF iterDone
         THEN pc' = "after" /\ UNCHANGED hook
         ELSE pc' = "script" /\ hook' = TRUE
    /\ UNCHANGED <<clock, wake, ctxVars, flying, interrupt, calls, outcome, recVars>>

\* The script makes a request or sleeps: Go code the interrupt cannot reach.
Call ==
    /\ pc = "script" /\ ~interrupt
    /\ calls < MaxCalls
    /\ calls' = calls + 1
    /\ pc' = "blocked"
    /\ UNCHANGED <<clock, wake, ctxVars, hook, flying, interrupt, outcome, recVars>>

\* It returns when it is done, or early because the context has ended.
CallReturns ==
    /\ pc = "blocked"
    /\ pc' = "script"
    /\ UNCHANGED <<clock, wake, ctxVars, jsVars, recVars>>

\* The function returns, or throws.
ScriptEnds ==
    /\ pc = "script" /\ ~interrupt
    /\ outcome' \in {"ok", "threw"}
    /\ pc' = "returned"
    /\ UNCHANGED <<clock, wake, ctxVars, hook, flying, interrupt, calls, recVars>>

\* goja aborts the call at its next instruction, and so clears the flag.
Abort ==
    /\ pc = "script" /\ interrupt
    /\ interrupt' = FALSE
    /\ outcome' = "interrupted"
    /\ pc' = "returned"
    /\ UNCHANGED <<clock, wake, ctxVars, hook, flying, calls, recVars>>

\* The AfterFunc goroutine calls Runtime.Interrupt.
Interrupt ==
    /\ flying > 0
    /\ flying' = flying - 1
    /\ interrupt' = TRUE
    /\ UNCHANGED <<clock, pc, wake, ctxVars, hook, calls, outcome, recVars>>

\* endIteration and stop(), whose result is not used.
StopHook ==
    /\ pc = "returned"
    /\ hook' = FALSE
    /\ pc' = "stopped"
    /\ UNCHANGED <<clock, wake, ctxVars, flying, interrupt, calls, outcome, recVars>>

\* A script error counts if the context is still live.
Report ==
    /\ pc = "stopped"
    /\ pc' = "after"
    /\ errors' = IF outcome # "ok" /\ ~iterDone THEN errors + 1 ELSE errors
    /\ UNCHANGED <<clock, wake, ctxVars, jsVars, begun, iterations>>

\* scenarioRun.iterate counts the iteration, runIteration cancels its context.
Count ==
    /\ pc = "after"
    /\ pc' = "loop"
    /\ iterations' = IF iterDone THEN iterations ELSE iterations + 1
    /\ UNCHANGED <<clock, wake, ctxVars, jsVars, begun, errors>>

-----------------------------------------------------------------------------
Init ==
    /\ plan \in Plans
    /\ i \in 0..(MaxVUs(plan) - 1)
    /\ now = -StartTime
    /\ ctxDone = FALSE
    /\ pc = "loop" /\ wake = 0
    /\ startedAt = 0 /\ deadline = NoOffset /\ iterDone = FALSE
    /\ hook = FALSE /\ flying = 0 /\ interrupt = FALSE /\ calls = 0 /\ outcome = "none"
    /\ begun = 0 /\ iterations = 0 /\ errors = 0

Exited == pc = "exited" /\ flying = 0 /\ UNCHANGED vars

Next ==
    \/ Tick \/ Cancel \/ Expire \/ RampDownDeadline
    \/ Loop \/ WakeUp
    \/ Begin \/ Call \/ CallReturns \/ ScriptEnds \/ Abort \/ Interrupt
    \/ StopHook \/ Report \/ Count
    \/ Exited

\* Goroutines that can run do run and timers fire.  The script owes nothing:
\* it may loop forever, and a Go call is only known to return once its context
\* has ended.
Fairness ==
    /\ WF_vars(Tick) /\ WF_vars(Expire) /\ WF_vars(RampDownDeadline)
    /\ WF_vars(Loop) /\ WF_vars(WakeUp) /\ WF_vars(Begin)
    /\ WF_vars(iterDone /\ CallReturns)
    /\ WF_vars(Abort) /\ WF_vars(Interrupt)
    /\ WF_vars(StopHook) /\ WF_vars(Report) /\ WF_vars(Count)

Spec == Init /\ [][Next]_vars /\ Fairness

-----------------------------------------------------------------------------
(* Properties *)

\* RampingVUs: "VU i is active while the stage line's value at t is at least
\* i+1".  No iteration begins while the VU is inactive, before the scenario's
\* start or after its stages, however late the goroutine wakes.
BeginsOnlyActive ==
    [][begun' > begun => now >= 0 /\ Active(plan, i, now)]_vars

\* "A VU deactivated during an iteration may finish it for up to
\* GracefulRampDown, then the iteration is cancelled": an iteration that
\* outlasted the deactivation of its VU by that much has ended, or its timer
\* is due.
RampDownCuts ==
    InIteration /\ ~iterDone =>
      \A u \in startedAt..(Length - 1) :
        ~Active(plan, i, u) /\ u + GracefulRampDown < HardStop
          => now < u + GracefulRampDown \/ (deadline # NoOffset /\ deadline <= now)

\* executors.go:118, "Crossings are exact in integer microseconds, and
\* active(i, next(...)) always agrees with want, so a VU never wakes early and
\* spins": for every VU of the plan next is the first tick in the wanted state,
\* never early or late; and executors.go:168, activeAt "agrees with when VUs
\* actually join and leave": the point of the time series counts exactly the VUs
\* that next lets run.
StagesExact ==
    now \in 0..(Length - 1) =>
      LET members == 0..(MaxVUs(plan) - 1)
      IN  /\ \A j \in members, want \in BOOLEAN : next(plan, j, now, want) = FirstTick(plan, j, now, want)
          /\ activeAt(plan, now) = Cardinality({j \in members : next(plan, j, now, TRUE) = now})

\* The goroutine returns (RunScenarios waits for it), whatever its script does:
\* an endless loop is interrupted, a blocked call returns with its context.
Returns == <>(pc = "exited")

\* script.go:487, "A script error ends the iteration and is recorded": the
\* errors recorded are errors of the script, not of the run that stops it.
ErrorsAreTheScripts == [][errors' > errors => outcome = "threw"]_vars
=============================================================================
