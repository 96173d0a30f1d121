---------------------------- MODULE UIController ----------------------------
(***************************************************************************)
(* The controller behind loadtool ui (internal/ui/controller.go): HTTP     *)
(* handlers start, cancel and read runs while the run's goroutine executes *)
(* the test and the command's goroutine closes the controller on Ctrl+C    *)
(* (internal/cli/ui.go).  ctl.mu guards the current run, each run's own    *)
(* mutex its state; Cancel and Close read under one lock and act under     *)
(* another.                                                                *)
(***************************************************************************)
EXTENDS Integers, FiniteSets

CONSTANTS MaxRuns,       \* bound: runs started
          Clients,       \* handler goroutines that cancel runs
          MaxPoints,     \* bound: points of a run's time series
          WarningsKept   \* 20 in the code

ASSUME RunsAssumption == MaxRuns \in Nat

Runs  == 1..MaxRuns
NoRun == 0

VARIABLES
    cur,        \* ctl.cur, the latest run
    state,      \* each run's state ("none": not started)
    asked,      \* each run's cancelled flag
    ctxDone,    \* runs whose context was cancelled
    exec,       \* where each run's goroutine stands
    points,     \* how many points of its series each run has been given
    warnings,   \* how many warnings each run keeps
    result,     \* what runPlan returned: none or error, or a partial or full
                \* result with the number of points in it
    reports,    \* runs whose reports are stored
    client,     \* each handler: idle, or the run and step of its Cancel
    close,      \* where Close stands
    closing,    \* the run Close works on
    polled      \* what the last Status showed: the state, the points, and a
                \* final report with what it holds

controllerVars == <<cur, state, asked, ctxDone, exec, points, warnings, result, reports, client, close, closing, polled>>

Nothing == [is |-> "none", points |-> 0]

Idle == [run |-> NoRun, step |-> "idle"]

ControllerInit ==
    /\ cur = NoRun
    /\ state = [r \in Runs |-> "none"]
    /\ asked = {} /\ ctxDone = {}
    /\ exec = [r \in Runs |-> "none"]
    /\ points = [r \in Runs |-> 0] /\ warnings = [r \in Runs |-> 0]
    /\ result = [r \in Runs |-> Nothing]
    /\ reports = {}
    /\ client = [c \in Clients |-> Idle]
    /\ close = "serving" /\ closing = NoRun
    /\ polled = [state |-> "none", points |-> 0, final |-> FALSE, report |-> Nothing]

-----------------------------------------------------------------------------
(* Handlers *)

\* Start, under ctl.mu; the server accepts requests until Close returned and
\* Shutdown was called.
Start(r) ==
    /\ close # "exited" /\ state[r] = "none" /\ \A q \in 1..(r - 1) : state[q] # "none"
    /\ \A q \in Runs : q = cur => state[q] # "running"
    /\ cur' = r
    /\ state' = [state EXCEPT ![r] = "running"]
    /\ exec' = [exec EXCEPT ![r] = "runPlan"]
    /\ UNCHANGED <<points, warnings, asked, ctxDone, result, reports, client, close, closing, polled>>

\* Cancel: get the run by its ID under ctl.mu ...
CancelGet(c, r) ==
    /\ close # "exited" /\ client[c] = Idle
    /\ cur = r
    /\ client' = [client EXCEPT ![c] = [run |-> r, step |-> "mark"]]
    /\ UNCHANGED <<points, warnings, cur, state, asked, ctxDone, exec, result, reports, close, closing, polled>>

\* ... mark it under the run's mutex if it still runs ...
CancelMark(c) ==
    /\ close # "exited" /\ client[c].step = "mark"
    /\ asked' = IF state[client[c].run] = "running" THEN asked \cup {client[c].run} ELSE asked
    /\ client' = [client EXCEPT ![c].step = "cancel"]
    /\ UNCHANGED <<points, warnings, cur, state, ctxDone, exec, result, reports, close, closing, polled>>

\* ... and cancel its context.
CancelContextOfCurrent(c) ==
    /\ close # "exited" /\ client[c].step = "cancel"
    /\ ctxDone' = ctxDone \cup {cur}
    /\ client' = [client EXCEPT ![c] = Idle]
    /\ UNCHANGED <<points, warnings, cur, state, asked, exec, result, reports, close, closing, polled>>
CancelContext(c) ==
    /\ close # "exited" /\ client[c].step = "cancel"
    /\ ctxDone' = ctxDone \cup {client[c].run}
    /\ client' = [client EXCEPT ![c] = Idle]
    /\ UNCHANGED <<points, warnings, cur, state, asked, exec, result, reports, close, closing, polled>>

\* Status and Report look a run up while it is current, and read it under its
\* own mutex, when it may no longer be.
Poll(r) ==
    /\ close # "exited" /\ state[r] # "none"
    /\ polled' = [state |-> state[r], points |-> points[r],
                  final |-> r \in reports, report |-> IF r \in reports THEN result[r] ELSE Nothing]
    /\ UNCHANGED <<points, warnings, cur, state, asked, ctxDone, exec, result, reports, client, close, closing>>

-----------------------------------------------------------------------------
(* The run's goroutine *)

\* OnSample, on the engine's sampler goroutine, and Warn.
AddPoint(r) ==
    /\ close # "exited" /\ exec[r] = "runPlan" /\ points[r] < MaxPoints
    /\ points' = [points EXCEPT ![r] = @ + 1]
    /\ UNCHANGED <<warnings, cur, state, asked, ctxDone, exec, result, reports, client, close, closing, polled>>

Warn(r) ==
    /\ close # "exited" /\ exec[r] = "runPlan" /\ warnings[r] < WarningsKept
    /\ warnings' = [warnings EXCEPT ![r] = @ + 1]
    /\ UNCHANGED <<points, cur, state, asked, ctxDone, exec, result, reports, client, close, closing, polled>>

\* runPlan returns: an error before the load starts (also when cancelled), a
\* partial result when cancelled in the load phase, or the full one. The load
\* phase ends with a point, and the result holds them all (module Engine).
RunPlan(r) ==
    /\ close # "exited" /\ exec[r] = "runPlan"
    /\ \E is \in {"error", "partial", "full"} :
         /\ is = "partial" => r \in ctxDone
         /\ is = "error" <=> points[r] = 0
         /\ result' = [result EXCEPT ![r] = [is |-> is, points |-> points[r]]]
    /\ exec' = [exec EXCEPT ![r] = "store"]
    /\ UNCHANGED <<points, warnings, cur, state, asked, ctxDone, reports, client, close, closing, polled>>

\* execute stores state and reports under the run's mutex.
StoreStateFirst(r) ==
    /\ close # "exited" /\ exec[r] \in {"store", "reports"}
    /\ IF exec[r] = "store"
       THEN /\ state' = [state EXCEPT ![r] = IF result[r].is = "error" THEN "failed"
                                             ELSE IF r \in asked THEN "cancelled" ELSE "completed"]
            /\ exec' = [exec EXCEPT ![r] = "reports"] /\ UNCHANGED <<reports, ctxDone>>
       ELSE /\ reports' = IF result[r].is = "error" THEN reports ELSE reports \cup {r}
            /\ exec' = [exec EXCEPT ![r] = "done"] /\ ctxDone' = ctxDone \cup {r}
            /\ UNCHANGED state
    /\ UNCHANGED <<points, warnings, cur, asked, result, client, close, closing, polled>>
Store(r) ==
    /\ close # "exited" /\ exec[r] = "store"
    /\ state' = [state EXCEPT ![r] = IF result[r].is = "error" THEN "failed"
                                     ELSE IF r \in asked THEN "cancelled" ELSE "completed"]
    /\ reports' = IF result[r].is = "error" THEN reports ELSE reports \cup {r}
    /\ exec' = [exec EXCEPT ![r] = "done"]
    /\ ctxDone' = ctxDone \cup {r}
    /\ UNCHANGED <<points, warnings, cur, asked, result, client, close, closing, polled>>

-----------------------------------------------------------------------------
(* Ctrl+C in loadtool ui: Close, then Shutdown and exit *)

CloseGet ==
    /\ close = "serving"
    /\ closing' = cur
    /\ close' = IF cur = NoRun THEN "shutdown" ELSE "check"
    /\ UNCHANGED <<points, warnings, cur, state, asked, ctxDone, exec, result, reports, client, polled>>

\* Cancel by ID, so it does nothing once another run is current.
CloseCheck ==
    /\ close = "check"
    /\ close' = IF state[closing] = "running" THEN "get" ELSE "wait"
    /\ UNCHANGED <<points, warnings, cur, state, asked, ctxDone, exec, result, reports, client, closing, polled>>

CloseCancelGet ==
    /\ close = "get"
    /\ close' = IF cur = closing THEN "mark" ELSE "wait"
    /\ UNCHANGED <<points, warnings, cur, state, asked, ctxDone, exec, result, reports, client, closing, polled>>

CloseMark ==
    /\ close = "mark"
    /\ asked' = IF state[closing] = "running" THEN asked \cup {closing} ELSE asked
    /\ close' = "cancel"
    /\ UNCHANGED <<points, warnings, cur, state, ctxDone, exec, result, reports, client, closing, polled>>

CloseCancel ==
    /\ close = "cancel"
    /\ ctxDone' = ctxDone \cup {closing}
    /\ close' = "wait"
    /\ UNCHANGED <<points, warnings, cur, state, asked, exec, result, reports, client, closing, polled>>

\* The polling loop ends when the run has, or at its deadline.
CloseWait ==
    /\ close = "wait"
    /\ close' \in IF state[closing] = "running" THEN {"wait", "gaveUp"} ELSE {"shutdown"}
    /\ UNCHANGED <<points, warnings, cur, state, asked, ctxDone, exec, result, reports, client, closing, polled>>

\* srv.Shutdown and the process's exit, which ends every goroutine.
Exit ==
    /\ close \in {"shutdown", "gaveUp"}
    /\ close' = "exited"
    /\ UNCHANGED <<points, warnings, cur, state, asked, ctxDone, exec, result, reports, client, closing, polled>>

Closed == close = "exited" /\ UNCHANGED controllerVars

-----------------------------------------------------------------------------
ControllerNext ==
    \/ \E r \in Runs : Start(r) \/ AddPoint(r) \/ Warn(r) \/ RunPlan(r) \/ Store(r) \/ Poll(r)
    \/ \E c \in Clients : \/ \E r \in Runs : CancelGet(c, r)
                          \/ CancelMark(c) \/ CancelContext(c)
    \/ CloseGet \/ CloseCheck \/ CloseCancelGet \/ CloseMark \/ CloseCancel \/ CloseWait \/ Exit
    \/ Closed

ControllerSpec == ControllerInit /\ [][ControllerNext]_controllerVars

-----------------------------------------------------------------------------
(* Properties *)

Ended == {"completed", "failed", "cancelled"}

\* controller.go:263: a Status carries the final report exactly when it says
\* that the run completed or was cancelled, so the page never stops polling on
\* an ended run without results; the live points beside it are then all of the
\* report's, and a report that was cut short is never that of a completed run.
PolledConsistent ==
    /\ polled.final <=> polled.state \in {"completed", "cancelled"}
    /\ polled.final => polled.points = polled.report.points /\ polled.points > 0
    /\ polled.report.is = "partial" => polled.state = "cancelled"

Working(r) == exec[r] \in {"runPlan", "store"}

\* controller.go:52, "Controller runs one load test at a time", and
\* controller.go:198: only the current run's runner is at work, so that a Cancel
\* can reach every test that is running, and one that was delayed until another
\* run started never cancels that one.
CancelHitsItsRun ==
    /\ \A r \in Runs : Working(r) => r = cur
    /\ \A r \in ctxDone : r \in asked \/ state[r] \in Ended
=============================================================================
