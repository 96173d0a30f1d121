------------------------------- MODULE Engine -------------------------------
(***************************************************************************)
(* The load phase: RunScenariosSampled from the start of the test clock to *)
(* its Result (internal/engine/scenario.go), after module Startup has      *)
(* created the VUs. The goroutines of all scenarios run side by side, each *)
(* scenario with a context of its own that ends gracefulStop after it      *)
(* stops starting iterations, or with Ctrl+C; a sampler goroutine adds a   *)
(* point to the time series at every tick and a last one when all others   *)
(* have returned.                                                          *)
(*                                                                         *)
(* The VUs of constant-vus are modelled in full (executors.go), those of   *)
(* ramping-vus and constant-arrival-rate as far as the engine and the      *)
(* other scenarios see them: modules RampingVU and ArrivalRate have the    *)
(* rest. A VU is <<scenario, number in the scenario>>.                     *)
(***************************************************************************)
EXTENDS Startup

CONSTANTS Driven,          \* bound: the inputs whose load phase is followed
          SampleInterval,  \* between two points, in seconds
          MaxIterations    \* bound: iterations begun

ASSUME SampleIntervalAssumption == SampleInterval \in Nat \ {0}

VARIABLES now,       \* the test clock
          driven,    \* scenarios whose goroutines have been started
          ended,     \* scenarios whose context has ended
          vu,        \* where each VU's goroutine is
          wake,      \* when a waiting VU wakes up
          sched,     \* where each scenario's scheduler is
          starts,    \* how many starts a scheduler has dealt with
          begun,     \* iterations begun
          iterations, dropped, requests,   \* what the recorders and schedulers counted
          spc,       \* where the sampler's goroutine is
          ticker,    \* when it ticks next, and the tick in its channel or NoTick
          series,    \* the points so far
          elapsed, result

clockVars == <<now, driven, ended>>
vuVars    == <<vu, wake, begun, iterations, requests>>
schedVars == <<sched, starts, dropped>>
sampVars  == <<spc, ticker, series>>
loadVars  == <<clockVars, vuVars, schedVars, sampVars, elapsed, result>>
planVars  == <<in, cfg, warned, setUp, plan, cur, iters, recs>>

NoTick   == -1
NoResult == <<>>

InitLoad == /\ Init
            /\ now = 0 /\ driven = 0 /\ ended = {}
            /\ vu = <<>> /\ wake = <<>> /\ begun = 0 /\ iterations = 0 /\ requests = 0
            /\ sched = <<>> /\ starts = <<>> /\ dropped = 0
            /\ spc = "none" /\ ticker = [next |-> 0, at |-> NoTick] /\ series = <<>>
            /\ elapsed = 0 /\ result = NoResult

Kind(i)   == plan[i].executor.kind
Starts(i) == plan[i].startTime
Ends(i)   == StopsAt(i) + plan[i].gracefulStop
Horizon   == Max({Ends(i) : i \in DOMAIN plan})   \* nothing waits for a later instant

VUIds == {v \in (DOMAIN plan) \X (1..cfg.VUs) : v[2] \in DOMAIN iters[v[1]]}

-----------------------------------------------------------------------------
(* The clock and the contexts *)

Loading == pc \in {"driving", "waiting", "returned", "stopped"}

Tick == /\ Loading /\ now < Horizon /\ now' = now + 1
        /\ UNCHANGED <<planVars, pc, cancelled, driven, ended, vuVars, schedVars, sampVars, elapsed, result>>

\* A scenario's deadline.
ExpireOnlyCancelled ==
          /\ Loading /\ cancelled
          /\ \E i \in (1..driven) \ ended : now >= Ends(i) /\ ended' = ended \cup {i}
          /\ UNCHANGED <<planVars, pc, cancelled, now, driven, vuVars, schedVars, sampVars, elapsed, result>>
Expire == /\ Loading
          /\ \E i \in (1..driven) \ ended : now >= Ends(i) /\ ended' = ended \cup {i}
          /\ UNCHANGED <<planVars, pc, cancelled, now, driven, vuVars, schedVars, sampVars, elapsed, result>>

\* Ctrl+C ends the contexts of the scenarios that have one.
Interrupt == /\ Loading /\ ~cancelled
             /\ cancelled' = TRUE /\ ended' = 1..driven
             /\ UNCHANGED <<planVars, pc, now, driven, vuVars, schedVars, sampVars, elapsed, result>>

-----------------------------------------------------------------------------
(* RunScenariosSampled *)

\* The clock has started.
StartLoad == /\ pc = "running" /\ in \in Driven /\ pc' = "driving"
             /\ vu' = [v \in VUIds |-> "new"] /\ wake' = [v \in VUIds |-> 0]
             /\ sched' = [i \in DOMAIN plan |-> "none"] /\ starts' = [i \in DOMAIN plan |-> 0]
             /\ UNCHANGED <<planVars, cancelled, clockVars, begun, iterations, requests, dropped, sampVars, elapsed, result>>

\* Where the goroutines of an executor begin.
FirstStep(i) == CASE Kind(i) = "constant-vus" -> "waiting"
                  [] Kind(i) = "ramping-vus"  -> "loop"
                  [] OTHER                    -> "receiving"

\* The next scenario gets its context, which is done if the test's is, and its
\* goroutines.
Drive == /\ pc = "driving" /\ driven < Len(plan)
         /\ driven' = driven + 1
         /\ ended' = IF cancelled THEN ended \cup {driven'} ELSE ended
         /\ vu' = [v \in DOMAIN vu |-> IF v[1] = driven' THEN FirstStep(driven') ELSE vu[v]]
         /\ wake' = [v \in DOMAIN vu |-> IF v[1] = driven' THEN Starts(driven') ELSE wake[v]]
         /\ sched' = [sched EXCEPT ![driven'] = IF Kind(driven') = "constant-arrival-rate" THEN "waiting" ELSE "none"]
         /\ UNCHANGED <<planVars, pc, cancelled, now, begun, iterations, requests, starts, dropped, sampVars, elapsed, result>>

StartSampler == /\ pc = "driving" /\ driven = Len(plan) /\ pc' = "waiting"
                /\ spc' = "on" /\ ticker' = [next |-> now + SampleInterval, at |-> NoTick]
                /\ UNCHANGED <<planVars, cancelled, clockVars, vuVars, schedVars, series, elapsed, result>>

AllGone == /\ \A v \in DOMAIN vu : vu[v] = "gone"
           /\ \A i \in DOMAIN sched : sched[i] \in {"none", "gone"}

\* wg.Wait returns and the time is taken; then stop is closed.
JoinAnyone == /\ pc = "waiting" /\ (\E v \in DOMAIN vu : vu[v] = "gone") /\ pc' = "returned" /\ elapsed' = now
              /\ UNCHANGED <<planVars, cancelled, clockVars, vuVars, schedVars, sampVars, result>>
Join == /\ pc = "waiting" /\ AllGone /\ pc' = "returned" /\ elapsed' = now
        /\ UNCHANGED <<planVars, cancelled, clockVars, vuVars, schedVars, sampVars, result>>

CloseStop == /\ pc = "returned" /\ pc' = "stopped"
             /\ UNCHANGED <<planVars, cancelled, loadVars>>

\* The series is received from the sampler, and the recorders are merged.
Collect == /\ pc = "stopped" /\ spc = "sending"
           /\ pc' = "over" /\ spc' = "gone"
           /\ result' = [iterations |-> iterations, dropped |-> dropped, requests |-> requests,
                         elapsed |-> elapsed, series |-> series]
           /\ UNCHANGED <<planVars, cancelled, clockVars, vuVars, schedVars, ticker, series, elapsed>>

-----------------------------------------------------------------------------
(* The sampler's goroutine *)

executorActiveAt(e, t) == IF e.kind = "ramping-vus" THEN R!activeAt(e, t)
                          ELSE IF t < e.duration THEN Needs(e) ELSE 0

activeVUs(at) == SumSeq([i \in DOMAIN plan |->
                     IF at >= Starts(i) THEN executorActiveAt(plan[i].executor, at - Starts(i)) ELSE 0])

\* Sampler.Sample: what was recorded since the previous point.
Point(at) == [at |-> at, vus |-> activeVUs(at),
              requests |-> requests - SumSeq([k \in DOMAIN series |-> series[k].requests])]

\* The ticker's channel holds one tick; ticks that find it full are lost, and
\* so are those that a late one overtakes.
TickerFires == /\ spc = "on" /\ now >= ticker.next
               /\ ticker' = [next |-> ticker.next + SampleInterval * (1 + (now - ticker.next) \div SampleInterval),
                             at |-> IF ticker.at = NoTick THEN now ELSE ticker.at]
               /\ UNCHANGED <<planVars, pc, cancelled, clockVars, vuVars, schedVars, spc, series, elapsed, result>>

TakeTick == /\ spc = "on" /\ ticker.at # NoTick
            /\ series' = Append(series, Point(ticker.at)) /\ ticker' = [ticker EXCEPT !.at = NoTick]
            /\ UNCHANGED <<planVars, pc, cancelled, clockVars, vuVars, schedVars, spc, elapsed, result>>

\* stop is closed; a tick that came before it may or may not be seen first.
TakeStopBare == /\ spc = "on" /\ pc = "stopped" /\ spc' = "sending"
                /\ UNCHANGED <<planVars, pc, cancelled, clockVars, vuVars, schedVars, ticker, series, elapsed, result>>
TakeStop == /\ spc = "on" /\ pc = "stopped"
            /\ series' = Append(series, Point(now)) /\ spc' = "sending"
            /\ UNCHANGED <<planVars, pc, cancelled, clockVars, vuVars, schedVars, ticker, elapsed, result>>

-----------------------------------------------------------------------------
(* The VUs' goroutines *)

\* A step of VU v of a live or ended scenario to another place.
Goto(v, place) == vu' = [vu EXCEPT ![v] = place]
OnlyVU == UNCHANGED <<planVars, pc, cancelled, clockVars, schedVars, sampVars, elapsed, result>>
Live(v) == v[1] \notin ended

\* waitUntil
WakeUp(v) == /\ vu[v] = "waiting"
             /\ \/ now >= wake[v] /\ Live(v) /\ Goto(v, "loop")
                \/ ~Live(v) /\ Goto(v, "gone")
             /\ UNCHANGED <<wake, begun, iterations, requests>> /\ OnlyVU

BeginIteration(v) == /\ begun < MaxIterations /\ begun' = begun + 1
                     /\ Goto(v, "iterating")
                     /\ UNCHANGED <<wake, iterations, requests>>

\* The loop of ConstantVUs.drive.
ConstantLoop(v) == /\ vu[v] = "loop" /\ Kind(v[1]) = "constant-vus"
                   /\ IF Live(v) /\ now < StopsAt(v[1]) THEN BeginIteration(v)
                      ELSE Goto(v, "gone") /\ UNCHANGED <<wake, begun, iterations, requests>>
                   /\ OnlyVU

\* The offset at which a VU of a ramping-vus scenario is next active.
NextActive(v) == R!next(plan[v[1]].executor, v[2] - 1, Max({now - Starts(v[1]), 0}), TRUE)

\* The loop of RampingVUs.drive: return, sleep until active again, or iterate.
RampingLoopNoWait(v) ==
    /\ vu[v] = "loop" /\ Kind(v[1]) = "ramping-vus"
    /\ IF Live(v) /\ now < StopsAt(v[1]) /\ NextActive(v) = now - Starts(v[1]) THEN BeginIteration(v)
       ELSE Goto(v, "gone") /\ UNCHANGED <<wake, begun, iterations, requests>>
    /\ OnlyVU
RampingLoop(v) ==
    /\ vu[v] = "loop" /\ Kind(v[1]) = "ramping-vus"
    /\ LET on == NextActive(v)
       IN  IF ~Live(v) \/ now >= StopsAt(v[1]) \/ on = R!NoOffset
           THEN Goto(v, "gone") /\ UNCHANGED <<wake, begun, iterations, requests>>
           ELSE IF Starts(v[1]) + on > now
           THEN /\ Goto(v, "waiting") /\ wake' = [wake EXCEPT ![v] = Starts(v[1]) + on]
                /\ UNCHANGED <<begun, iterations, requests>>
           ELSE BeginIteration(v)
    /\ OnlyVU

\* The iteration returns; it may have recorded a request. It must return once
\* its context has ended (IterationFunc).
Return(v) == /\ vu[v] = "iterating" /\ Goto(v, "returned")
             /\ \E n \in {0, 1} : requests' = requests + n
             /\ UNCHANGED <<wake, begun, iterations>> /\ OnlyVU

\* iterate counts it if its context is live. That of a VU which is ramped down
\* may have ended before the scenario's.
Count(v) ==
    /\ vu[v] = "returned"
    /\ \/ Live(v) /\ iterations' = iterations + 1
       \/ (~Live(v) \/ Kind(v[1]) = "ramping-vus") /\ UNCHANGED iterations
    /\ Goto(v, IF Kind(v[1]) = "constant-arrival-rate" THEN "receiving" ELSE "loop")
    /\ UNCHANGED <<wake, begun, requests>> /\ OnlyVU

\* A VU of an arrival-rate scenario returns when its context is done or its
\* scheduler has closed the channel.
StopReceiving(v) == /\ vu[v] = "receiving" /\ (~Live(v) \/ sched[v[1]] = "gone")
                    /\ Goto(v, "gone")
                    /\ UNCHANGED <<wake, begun, iterations, requests>> /\ OnlyVU

-----------------------------------------------------------------------------
(* The scheduler of an arrival-rate scenario *)

Due(i)  == Starts(i) + (starts[i] * plan[i].executor.timeUnit) \div plan[i].executor.rate
Pool(i) == {v \in DOMAIN vu : v[1] = i}
OnlySched == UNCHANGED <<planVars, pc, cancelled, clockVars, sampVars, elapsed, result>>

SchedulerWakes(i) == /\ sched[i] = "waiting"
                     /\ \/ now >= Starts(i) /\ i \notin ended /\ sched' = [sched EXCEPT ![i] = "on"]
                        \/ i \in ended /\ sched' = [sched EXCEPT ![i] = "gone"]
                     /\ UNCHANGED <<vuVars, starts, dropped>> /\ OnlySched

\* No start is left before the scenario stops, or the context ended before the
\* next one, or while a start was to be handed over.
SchedulerReturns(i) == /\ sched[i] = "on"
                       /\ \/ Due(i) >= StopsAt(i)
                          \/ i \in ended /\ (now < Due(i) \/ \E v \in Pool(i) : vu[v] \in {"receiving", "gone"})
                       /\ sched' = [sched EXCEPT ![i] = "gone"]
                       /\ UNCHANGED <<vuVars, starts, dropped>> /\ OnlySched

\* A token means that a VU receives (module ArrivalRate), or that it did until
\* the context ended.
HandOver(i) == /\ sched[i] = "on" /\ Due(i) < StopsAt(i) /\ now >= Due(i)
               /\ \E v \in Pool(i) : vu[v] = "receiving" /\ BeginIteration(v)
               /\ starts' = [starts EXCEPT ![i] = @ + 1]
               /\ UNCHANGED <<sched, dropped>> /\ OnlySched

DropStart(i) == /\ sched[i] = "on" /\ Due(i) < StopsAt(i) /\ now >= Due(i)
                /\ \A v \in Pool(i) : vu[v] \in {"iterating", "returned"}
                /\ starts' = [starts EXCEPT ![i] = @ + 1] /\ dropped' = dropped + 1
                /\ UNCHANGED <<sched, vuVars>> /\ OnlySched

-----------------------------------------------------------------------------
StartsUp == AcceptOptions \/ RejectOptions \/ Setup \/ ValidateScenario \/ NewVU \/ NewVUFails
            \/ VUsCreated \/ StartClock \/ Cancel

Over == /\ pc = "failed" \/ pc = "over" \/ (pc = "running" /\ in \notin Driven)
        /\ UNCHANGED <<vars, loadVars>>

\* What goes on by itself: everything but Ctrl+C, and iterations only return
\* by themselves once their context has ended.
Progress ==
    \/ Tick \/ Expire \/ StartLoad \/ Drive \/ StartSampler \/ Join \/ CloseStop \/ Collect
    \/ TickerFires \/ TakeTick \/ TakeStop
    \/ \E v \in DOMAIN vu : \/ WakeUp(v) \/ ConstantLoop(v) \/ RampingLoop(v) \/ Count(v) \/ StopReceiving(v)
                            \/ ~Live(v) /\ Return(v)
    \/ \E i \in DOMAIN sched : SchedulerWakes(i) \/ SchedulerReturns(i) \/ HandOver(i) \/ DropStart(i)

NextLoad == \/ StartsUp /\ UNCHANGED loadVars
            \/ Interrupt \/ Progress
            \/ \E v \in DOMAIN vu : Live(v) /\ Return(v)
            \/ Over

SpecLoad == InitLoad /\ [][NextLoad]_<<vars, loadVars>> /\ WF_<<vars, loadVars>>(Progress)

-----------------------------------------------------------------------------
(* Properties *)

\* The phases of a scenario in the terms of module TestRun. An arrival-rate
\* scenario is open until its scheduler, which may be late, has returned.
PhaseOf(i) ==
    IF Kind(i) = "constant-arrival-rate" /\ sched[i] \in {"on", "gone"}
    THEN IF sched[i] = "on" THEN 1 ELSE IF i \in ended THEN 3 ELSE 2
    ELSE IF i \in ended THEN 3
    ELSE IF Kind(i) = "constant-arrival-rate" \/ now < Starts(i) THEN 0
    ELSE IF now < StopsAt(i) THEN 1 ELSE 2

\* What module TestRun calls the stage of the test, the phases of its scenarios,
\* its busy VUs and its result.
TestStage  == CASE Loading -> "on" [] pc = "over" -> "over" [] pc = "failed" -> "refused" [] OTHER -> "before"
TestPhase  == IF Loading \/ pc = "over" THEN [i \in DOMAIN plan |-> PhaseOf(i)] ELSE <<>>
TestBusy   == {v \in DOMAIN vu : vu[v] \in {"iterating", "returned"}}
TestResult == IF pc = "over" THEN <<result.iterations, result.dropped>> ELSE <<>>

T == INSTANCE TestRun WITH stage <- TestStage, phase <- TestPhase, busy <- TestBusy,
                           counted <- iterations, result <- TestResult

\* engine.go and scenario.go: however the goroutines of the scenarios, the
\* deadlines and Ctrl+C interleave, the load phase keeps module TestRun's
\* promise: iterations begin only while their scenario is open, count only if
\* its context is live when they return, and the Result comes after the last
\* of them and holds exactly those.
IsTestRun == T!Spec

\* executors.go: while its scenario's context is live, nobody leaves work
\* undone. A constant-vus VU is gone only after the duration, a ramping-vus VU
\* only if the stages never call it again, the VUs of an arrival-rate scenario
\* only when no start is left.
NobodyLeavesEarly ==
    \A v \in DOMAIN vu :
        vu[v] = "gone" /\ Live(v) =>
            CASE Kind(v[1]) = "constant-vus" -> now >= StopsAt(v[1])
              [] Kind(v[1]) = "ramping-vus"  -> now >= StopsAt(v[1]) \/ NextActive(v) = R!NoOffset
              [] OTHER                       -> sched[v[1]] = "gone" /\ Due(v[1]) >= StopsAt(v[1])

Requested(points) == SumSeq([k \in DOMAIN points |-> points[k].requests])

\* scenario.go, sample: the points of the series are in order, none shows more
\* VUs than the test has, and a result's series covers the whole test: its last
\* point was taken when everybody had gone, and its requests are the summary's.
SeriesCoversRun ==
    /\ \A k \in 2..Len(series) : series[k - 1].at < series[k].at \/ (k = Len(series) /\ spc # "on")
    /\ \A k \in DOMAIN series : series[k].vus \in 0..cfg.VUs
    /\ pc = "over" =>
         /\ Requested(result.series) = result.requests
         /\ result.series # <<>> /\ series[Len(series)].at >= result.elapsed
         /\ ~cancelled /\ (\A i \in DOMAIN plan : Kind(i) = "constant-vus") =>
               result.elapsed >= cfg.Duration /\ series[Len(series)].vus = 0

\* scenario.go:66, "It returns once every VU goroutine (and scheduler) has
\* exited": it does return, whatever the iterations do, if they only return
\* once their context has ended.
RunReturns == pc = "driving" ~> pc = "over"
=============================================================================
