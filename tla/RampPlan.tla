------------------------------ MODULE RampPlan ------------------------------
(***************************************************************************)
(* The stage arithmetic of the ramping-vus executor (internal/engine/      *)
(* executors.go, RampingVUs): from a start value the number of active VUs  *)
(* moves along a line through the stages, and VU i is active while the     *)
(* line is at i+1 or above.  Durations are counted in ticks of which       *)
(* MicroTicks make a microsecond; the code converts to whole microseconds  *)
(* before it multiplies.                                                   *)
(*                                                                         *)
(* A plan is a record [startVUs, stages], a stage [duration, target].      *)
(***************************************************************************)
EXTENDS Integers, Sequences, FiniteSetsExt

CONSTANT MicroTicks  \* ticks per microsecond (1000 nanoseconds in the code)

ASSUME MicroTicksAssumption == MicroTicks \in Nat \ {0}

NoOffset == -1       \* next's ok = false
Panic    == -2       \* integer division by zero

Micros(d) == d \div MicroTicks
CeilDiv(a, b) == (a + b - 1) \div b

-----------------------------------------------------------------------------
(* Stages *)

StageIds(p) == DOMAIN p.stages

\* The offset at which the first n stages are over.
Elapsed(p) == LET sum[n \in 0..Len(p.stages)] ==
                    IF n = 0 THEN 0 ELSE sum[n-1] + p.stages[n].duration
              IN sum

\* Where stage j starts and ends, and the value its line starts from.
SegStart(p, j) == Elapsed(p)[j - 1]
SegEnd(p, j)   == SegStart(p, j) + p.stages[j].duration
FromVUs(p, j)  == IF j = 1 THEN p.startVUs ELSE p.stages[j-1].target

PlanLength(p) == SegEnd(p, Len(p.stages))
MaxVUs(p)     == Max({p.startVUs} \cup {p.stages[j].target : j \in StageIds(p)})

\* RampingVUs.validate, without its upper bounds.
ValidPlan(p) ==
    /\ p.stages # <<>>
    /\ p.startVUs \in Nat
    /\ \A j \in StageIds(p) : p.stages[j].duration \in Nat /\ p.stages[j].target \in Nat
    /\ PlanLength(p) > 0
    /\ MaxVUs(p) >= 1

-----------------------------------------------------------------------------
(* crossing, next and activeAt *)

\* The microsecond of a segment at which the line crosses level in the wanted
\* direction; -1 if this segment has no such crossing.
CrossingMicroEarly(from, to, level, d, want) ==
    CASE want /\ to >= level   -> ((level - from) * d) \div (to - from)
      [] ~want /\ to < level   -> IF from = to THEN Panic
                                  ELSE ((from - level) * d) \div (from - to)
      [] OTHER                 -> -1
CrossingMicro(from, to, level, d, want) ==
    CASE want /\ to >= level   -> CeilDiv((level - from) * d, to - from)
      [] ~want /\ to < level   -> IF from = to THEN Panic
                                  ELSE ((from - level) * d) \div (from - to) + 1
      [] OTHER                 -> -1

\* What one pass of crossing's loop finds in stage j for VU i at or after t:
\* an offset, Panic, or NoOffset to go on with the next stage.
InStage(p, j, i, t, want) ==
    LET from  == FromVUs(p, j)
        to    == p.stages[j].target
        level == i + 1
        lo    == Max({t, SegStart(p, j)})
        d     == Micros(p.stages[j].duration)
        x     == Micros(lo - SegStart(p, j))
        dx    == CrossingMicro(from, to, level, d, want)
    IN  IF p.stages[j].duration = 0 \/ SegEnd(p, j) <= t THEN NoOffset
        ELSE IF (from * d + (to - from) * x >= level * d) = want THEN lo
        ELSE IF dx = Panic THEN Panic
        ELSE IF dx \in 0..(d - 1) THEN SegStart(p, j) + dx * MicroTicks
        ELSE NoOffset

\* The first stage that finds something decides.
crossing(p, i, t, want) ==
    LET hits == {j \in StageIds(p) : InStage(p, j, i, t, want) # NoOffset}
    IN  IF hits = {} THEN NoOffset ELSE InStage(p, Min(hits), i, t, want)

\* The first offset at or after t at which VU i is active (want) or inactive
\* (~want), or NoOffset if that does not happen before the stages end.
next(p, i, t, want) ==
    LET c == crossing(p, i, t, want)
    IN  IF c >= PlanLength(p) THEN NoOffset ELSE c

\* The number of active VUs at t that the time series shows.
activeAt(p, t) ==
    LET live == {j \in StageIds(p) : p.stages[j].duration > 0 /\ t < SegEnd(p, j)}
        j    == Min(live)
        d    == Micros(p.stages[j].duration)
        x    == Micros(t - SegStart(p, j))
    IN  IF live = {} THEN 0
        ELSE IF d = 0 THEN Panic
        ELSE (FromVUs(p, j) * d + (p.stages[j].target - FromVUs(p, j)) * x) \div d

-----------------------------------------------------------------------------
(* The reference: the exact line, with no rounding to microseconds *)

\* VU i is active at tick t of plan p: the line of the segment that t lies in
\* is at i+1 or above at the start of t's microsecond.
Active(p, i, t) ==
    \E j \in StageIds(p) :
        LET x == t - SegStart(p, j)
            u == x - (x % MicroTicks)
        IN  /\ x >= 0 /\ t < SegEnd(p, j)
            /\ FromVUs(p, j) * p.stages[j].duration
                 + (p.stages[j].target - FromVUs(p, j)) * u
                   >= (i + 1) * p.stages[j].duration

\* The first tick at or after t at which VU i is in the wanted state.
FirstTick(p, i, t, want) ==
    LET ticks == {u \in t..(PlanLength(p) - 1) : Active(p, i, u) = want}
    IN  IF ticks = {} THEN NoOffset ELSE Min(ticks)
=============================================================================
