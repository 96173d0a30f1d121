----------------------------- MODULE ArrivalRate -----------------------------
(***************************************************************************)
(* The constant-arrival-rate executor (internal/engine/executors.go,       *)
(* ConstantArrivalRate): one scheduler goroutine, one goroutine per VU, a  *)
(* buffered channel `idle` holding one token per idle VU and an unbuffered *)
(* channel `starts` over which a start is handed to a VU.                  *)
(*                                                                         *)
(* Time is counted in ticks from the start of the test clock.  A tick may  *)
(* pass between any two steps of a goroutine, so a goroutine may wake      *)
(* arbitrarily late.  Integers of the schedule have the width of the code: *)
(* the product k * TimeUnit wraps around at HalfWord (2^63 in the code).   *)
(***************************************************************************)
EXTENDS Integers, FiniteSets

CONSTANTS
    VUs,          \* the goroutines of the preallocated VUs
    Rate,         \* iterations per TimeUnit
    TimeUnit,
    Duration,     \* how long starts fall due
    StartTime,    \* when the scenario starts on the test clock
    GracefulStop, \* how long running iterations may go on after Duration
    HalfWord      \* the machine integers are -HalfWord .. HalfWord - 1

\* ConstantArrivalRate.validate; durations are themselves machine integers.
ASSUME ConfigAssumption ==
    /\ IsFiniteSet(VUs) /\ VUs # {}
    /\ Rate \in Nat \ {0} /\ TimeUnit \in Nat \ {0} /\ Duration \in Nat \ {0}
    /\ StartTime \in Nat /\ GracefulStop \in Nat
    /\ HalfWord \in Nat \ {0}

VARIABLES
    now,      \* the clock
    ctxDone,  \* the scenario's context has ended
    sched,    \* where the scheduler goroutine is
    k,        \* its loop variable
    idle,     \* how many tokens the channel idle holds
    vu,       \* where each VU's goroutine is
    started,  \* starts handed over to a VU
    dropped,  \* scenarioRun.dropped
    counted   \* iterations recorded by scenarioRun.iterate

vars == <<now, ctxDone, sched, k, idle, vu, started, dropped, counted>>

-----------------------------------------------------------------------------
(* The schedule *)

N == Cardinality(VUs)

\* Two's complement wrap-around of a machine integer.
Wrap(x) == IF x \in -HalfWord .. HalfWord - 1
             THEN x
             ELSE ((x + HalfWord) % (2 * HalfWord)) - HalfWord

\* Go's integer division truncates towards zero.
TruncDiv(a, b) == IF a >= 0 THEN a \div b ELSE -((-a) \div b)

\* When start i is due, relative to the scenario's start.
offset(i) == TruncDiv(Wrap(i * TimeUnit), Rate)

StopStarting == StartTime + Duration
Deadline     == StopStarting + GracefulStop
at           == StartTime + offset(k)

\* Nothing waits for an instant after the deadline, so the clock stops there.
Horizon == Deadline

-----------------------------------------------------------------------------
(* The environment: the clock, Ctrl+C and the context's deadline timer *)

Tick ==
    /\ now < Horizon
    /\ now' = now + 1
    /\ UNCHANGED <<ctxDone, sched, k, idle, vu, started, dropped, counted>>

\* The context ends: the test is cancelled (at any time), or the deadline
\* timer fires (at the deadline or later).
Cancel ==
    /\ ~ctxDone
    /\ ctxDone' = TRUE
    /\ UNCHANGED <<now, sched, k, idle, vu, started, dropped, counted>>

Expire == now >= Deadline /\ Cancel

-----------------------------------------------------------------------------
(* The scheduler goroutine; it closes starts when it returns *)

\* waitUntil(s.ctx, s.start)
AwaitStart ==
    /\ sched = "wait"
    /\ \/ now >= StartTime /\ ~ctxDone /\ sched' = "plan"
       \/ ctxDone /\ sched' = "exited"
    /\ UNCHANGED <<now, ctxDone, k, idle, vu, started, dropped, counted>>

\* The head of the loop: stop, wait for the timer, or go on at once.
Plan ==
    /\ sched = "plan"
    /\ sched' = IF at >= StopStarting THEN "exited"
                ELSE IF at > now THEN "timer" ELSE "take"
    /\ UNCHANGED <<now, ctxDone, k, idle, vu, started, dropped, counted>>

\* select on the timer and ctx.Done(): either one, when both are ready.
AwaitTimer ==
    /\ sched = "timer"
    /\ \/ now >= at /\ sched' = "take"
       \/ ctxDone /\ sched' = "exited"
    /\ UNCHANGED <<now, ctxDone, k, idle, vu, started, dropped, counted>>

\* A token is taken without blocking, or the start is dropped.
TakeOrDropWithoutCounting ==
    /\ sched = "take"
    /\ \/ idle > 0 /\ idle' = idle - 1 /\ sched' = "handover" /\ UNCHANGED k
       \/ idle = 0 /\ k' = k + 1 /\ sched' = "plan" /\ UNCHANGED idle
    /\ UNCHANGED <<now, ctxDone, vu, started, dropped, counted>>
TakeOrDrop ==
    /\ sched = "take"
    /\ \/ /\ idle > 0
          /\ idle' = idle - 1
          /\ sched' = "handover"
          /\ UNCHANGED <<k, dropped>>
       \/ /\ idle = 0
          /\ dropped' = dropped + 1
          /\ k' = k + 1
          /\ sched' = "plan"
          /\ UNCHANGED idle
    /\ UNCHANGED <<now, ctxDone, vu, started, counted>>

\* starts <- struct{}{}: the rendezvous of the scheduler and a receiving VU.
Handover(v) ==
    /\ sched = "handover"
    /\ vu[v] = "receive"
    /\ vu' = [vu EXCEPT ![v] = "running"]
    /\ started' = started + 1
    /\ k' = k + 1
    /\ sched' = "plan"
    /\ UNCHANGED <<now, ctxDone, idle, dropped, counted>>

\* The context ends while the scheduler waits for a receiver; its token is
\* gone with it.
AbandonHandoverNever ==
    /\ sched = "handover" /\ ctxDone
    /\ UNCHANGED vars
AbandonHandover ==
    /\ sched = "handover"
    /\ ctxDone
    /\ sched' = "exited"
    /\ UNCHANGED <<now, ctxDone, k, idle, vu, started, dropped, counted>>

Scheduler == AwaitStart \/ Plan \/ AwaitTimer \/ TakeOrDrop
               \/ AbandonHandover \/ \E v \in VUs : Handover(v)

-----------------------------------------------------------------------------
(* A VU's goroutine *)

\* scenarioRun.iterate: the iteration returns, and counts if the context is
\* still live.
FinishIterationReturningToken(v) ==
    /\ vu[v] = "running"
    /\ vu' = [vu EXCEPT ![v] = "returning"]
    /\ counted' = IF ctxDone THEN counted ELSE counted + 1
    /\ idle' = idle + 1
    /\ UNCHANGED <<now, ctxDone, sched, k, started, dropped>>
FinishIteration(v) ==
    /\ vu[v] = "running"
    /\ vu' = [vu EXCEPT ![v] = "returning"]
    /\ counted' = IF ctxDone THEN counted ELSE counted + 1
    /\ UNCHANGED <<now, ctxDone, sched, k, idle, started, dropped>>

\* idle <- struct{}{}: blocks while the channel is full.
ReturnTokenNever(v) ==
    /\ vu[v] = "returning"
    /\ vu' = [vu EXCEPT ![v] = "receive"]
    /\ UNCHANGED <<now, ctxDone, sched, k, idle, started, dropped, counted>>
ReturnToken(v) ==
    /\ vu[v] = "returning"
    /\ idle < N
    /\ idle' = idle + 1
    /\ vu' = [vu EXCEPT ![v] = "receive"]
    /\ UNCHANGED <<now, ctxDone, sched, k, started, dropped, counted>>

\* The VU finds starts closed, or the context done.
Leave(v) ==
    /\ vu[v] = "receive"
    /\ sched = "exited" \/ ctxDone
    /\ vu' = [vu EXCEPT ![v] = "exited"]
    /\ UNCHANGED <<now, ctxDone, sched, k, idle, started, dropped, counted>>

-----------------------------------------------------------------------------
AllExited == sched = "exited" /\ \A v \in VUs : vu[v] = "exited"

\* Every goroutine has returned, so wg.Wait returns.
Joined == AllExited /\ UNCHANGED vars

\* Nothing has moved yet and every VU's token is in the channel.
Init ==
    /\ now = 0
    /\ ctxDone = FALSE
    /\ sched = "wait"
    /\ k = 0
    /\ idle = N
    /\ vu = [v \in VUs |-> "receive"]
    /\ started = 0 /\ dropped = 0 /\ counted = 0

Next ==
    \/ Tick \/ Cancel \/ Expire
    \/ Scheduler
    \/ \E v \in VUs : FinishIteration(v) \/ ReturnToken(v) \/ Leave(v)
    \/ Joined

\* Goroutines that can run do run, the clock moves on, the deadline timer
\* fires; an iteration is only known to return once its context has ended
\* (the contract of IterationFunc).  Ctrl+C may never come.
Fairness ==
    /\ WF_vars(Tick) /\ WF_vars(Expire) /\ WF_vars(Scheduler)
    /\ \A v \in VUs : WF_vars(ctxDone /\ FinishIteration(v))
    /\ \A v \in VUs : WF_vars(ReturnToken(v)) /\ WF_vars(Leave(v))

Safety == Init /\ [][Next]_vars
Spec   == Safety /\ Fairness

-----------------------------------------------------------------------------
(* Properties *)

Busy   == {v \in VUs : vu[v] \in {"running", "returning"}}
Held   == IF sched = "handover" THEN 1 ELSE 0

\* Every variable has a value the program can give it.
TypeOK ==
    /\ now \in Nat /\ ctxDone \in BOOLEAN
    /\ sched \in {"wait", "plan", "timer", "take", "handover", "exited"}
    /\ k \in Nat
    /\ idle \in 0..N
    /\ vu \in [VUs -> {"receive", "running", "returning", "exited"}]
    /\ started \in Nat /\ dropped \in Nat /\ counted \in Nat

\* One token per VU: while the scheduler runs, the tokens in the channel, in
\* the scheduler's hand and out with the VUs in an iteration are all there.
\* Once it has returned, the one it held may be gone, and none is added.
TokenConservation ==
    /\ idle + Held + Cardinality(Busy) <= N
    /\ sched # "exited" => idle + Held + Cardinality(Busy) = N

\* executors.go:322, "never blocks: one token per VU".
ReturnNeverBlocks == \A v \in VUs : vu[v] = "returning" => idle < N

\* executors.go:304, "A VU is idle, so one is at or on its way to the
\* receive": a scheduler that waits to hand over a start waits for nothing
\* that will not come.
HandoverHasReceiver ==
    sched = "handover" => ctxDone \/ \E v \in VUs : vu[v] = "receive"

\* The number of starts due before the executor stops, by arithmetic.
Planned == (Duration * Rate + TimeUnit - 1) \div TimeUnit

\* No start is lost: when the scheduler has run its schedule to the end,
\* every planned start was handed over or dropped, and when the VUs have
\* returned too, every start handed over is counted as an iteration.
StartsAccounted ==
    /\ k = started + dropped
    /\ sched = "exited" /\ ~ctxDone => k = Planned
    /\ AllExited /\ ~ctxDone => counted + dropped = Planned

\* docs/options.md:123, "Starts follow a fixed schedule, so the rate does not
\* drift": start i never goes out before StartTime + i*TimeUnit/Rate.
FollowsSchedule ==
    k > 0 => StartTime + ((k - 1) * TimeUnit) \div Rate <= now

\* The schedule's arithmetic stays within a machine integer.
NoOverflow == (Duration * Rate) + TimeUnit < HalfWord

\* The executor keeps what it promises: a start is dropped only while every
\* VU is in an iteration, a VU runs one start at a time, and no more starts
\* go out than were planned.
Promise == INSTANCE OpenLoad WITH busy <- Busy, accepted <- started
KeepsPromise == Promise!Spec

\* RunScenarios returns: the scheduler and every VU exit (the Executor
\* contract, scenario.go:41: "They must all return once s.ctx is done").
AllReturn == <>AllExited
=============================================================================
