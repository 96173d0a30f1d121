-------------------------- MODULE ArrivalRateProofs --------------------------
(***************************************************************************)
(* For any number of VUs and any schedule: the token protocol of           *)
(* ConstantArrivalRate.drive conserves its tokens, never blocks on the     *)
(* channel idle and never waits for a receiver that is not there; while    *)
(* the schedule fits a machine integer, it is followed exactly and the     *)
(* executor implements OpenLoad.                                           *)
(***************************************************************************)
EXTENDS ArrivalRate, FiniteSetTheorems, TLAPS

Running == {v \in VUs : vu[v] = "running"}

-----------------------------------------------------------------------------
(* Cardinalities *)

\* The sets of VUs counted below are finite, so their cardinality is a number.
LEMMA FiniteVUSets ==
    /\ N \in Nat
    /\ \A S \in SUBSET VUs : IsFiniteSet(S) /\ Cardinality(S) \in Nat
                               /\ Cardinality(S) <= N
<1>1. IsFiniteSet(VUs)
  BY ConfigAssumption
<1>2. \A S \in SUBSET VUs : IsFiniteSet(S) /\ Cardinality(S) <= N
  BY <1>1, FS_Subset DEF N
<1>3. QED
  BY <1>1, <1>2, FS_CardinalityType DEF N

\* A VU that joins a set of VUs makes it larger by one.
LEMMA AddVU ==
    ASSUME NEW S \in SUBSET VUs, NEW v \in VUs, v \notin S
    PROVE  Cardinality(S \cup {v}) = Cardinality(S) + 1
  BY FiniteVUSets, FS_AddElement

\* A VU that leaves a set of VUs makes it smaller by one.
LEMMA RemoveVU ==
    ASSUME NEW S \in SUBSET VUs, NEW v \in S
    PROVE  Cardinality(S \ {v}) = Cardinality(S) - 1
  BY FiniteVUSets, FS_RemoveElement

\* A proper subset of the VUs has fewer than N members.
LEMMA ProperVUSubset ==
    ASSUME NEW S \in SUBSET VUs, Cardinality(S) = N
    PROVE  S = VUs
<1>1. SUFFICES ASSUME NEW v \in VUs, v \notin S
               PROVE  FALSE
  OBVIOUS
<1>2. S \cup {v} \in SUBSET VUs /\ Cardinality(S \cup {v}) = N + 1
  BY <1>1, AddVU
<1>3. QED
  BY <1>2, FiniteVUSets

-----------------------------------------------------------------------------
(* The token protocol *)

\* A VU returns only when its context has ended or starts is closed.
ExitCause == \A v \in VUs : vu[v] = "exited" => ctxDone \/ sched = "exited"

TokenInv == TypeOK /\ TokenConservation /\ ExitCause

\* Every VU's token is in the channel when the goroutines start.
LEMMA TypeInit == Init => TypeOK
<1> SUFFICES ASSUME Init PROVE TypeOK
  OBVIOUS
<1>1. N \in Nat
  BY FiniteVUSets
<1>2. vu \in [VUs -> {"receive", "running", "returning", "exited"}]
  BY DEF Init
<1>3. idle \in 0..N
  BY <1>1 DEF Init
<1>4. QED
  BY <1>2, <1>3 DEF Init, TypeOK

\* Type correctness: the channel idle never holds more than one token per VU.
THEOREM TypeCorrect == Safety => []TypeOK
<1>1. Init => TypeOK
  BY TypeInit
<1>2. TypeOK /\ [Next]_vars => TypeOK'
  <2> SUFFICES ASSUME TypeOK, [Next]_vars PROVE TypeOK'
    OBVIOUS
  <2> USE FiniteVUSets DEF TypeOK
  <2>1. CASE Tick
    BY <2>1 DEF Tick
  <2>2. CASE Cancel \/ Expire
    BY <2>2 DEF Cancel, Expire
  <2>3. CASE AwaitStart
    BY <2>3 DEF AwaitStart
  <2>4. CASE Plan
    BY <2>4 DEF Plan
  <2>5. CASE AwaitTimer
    BY <2>5 DEF AwaitTimer
  <2>6. CASE TakeOrDrop
    BY <2>6 DEF TakeOrDrop
  <2>7. CASE AbandonHandover
    BY <2>7 DEF AbandonHandover
  <2>8. ASSUME NEW v \in VUs, Handover(v) PROVE TypeOK'
    BY <2>8 DEF Handover
  <2>9. ASSUME NEW v \in VUs, FinishIteration(v) PROVE TypeOK'
    BY <2>9 DEF FinishIteration
  <2>10. ASSUME NEW v \in VUs, ReturnToken(v) PROVE TypeOK'
    BY <2>10 DEF ReturnToken
  <2>11. ASSUME NEW v \in VUs, Leave(v) PROVE TypeOK'
    BY <2>11 DEF Leave
  <2>12. CASE UNCHANGED vars
    BY <2>12 DEF vars
  <2>13. QED
    BY <2>1, <2>2, <2>3, <2>4, <2>5, <2>6, <2>7, <2>8, <2>9, <2>10, <2>11,
       <2>12 DEF Next, Scheduler, Joined
<1>3. QED
  BY <1>1, <1>2, PTL DEF Safety

\* A step that moves no VU into or out of an iteration.
LEMMA TokensElsewhere ==
    ASSUME TypeOK, TokenConservation, Busy' = Busy,
           \/ sched' = sched /\ idle' = idle
           \/ sched # "handover" /\ sched' # "handover" /\ sched # "exited"
                /\ idle' = idle
           \/ sched = "take" /\ sched' = "handover" /\ idle' = idle - 1
           \/ sched = "handover" /\ sched' = "exited" /\ idle' = idle
    PROVE  TokenConservation'
<1>1. Cardinality(Busy) \in Nat /\ N \in Nat
  BY FiniteVUSets DEF Busy
<1>2. QED
  BY <1>1 DEF TokenConservation, Held, TypeOK

\* No step loses or invents a token.
LEMMA TokenStep == TokenInv /\ TypeOK' /\ [Next]_vars => TokenInv'
<1> SUFFICES ASSUME TokenInv, TypeOK', [Next]_vars PROVE TokenInv'
  OBVIOUS
<1> USE DEF TokenInv
<1>1. ASSUME UNCHANGED vu,
             \/ UNCHANGED <<sched, idle>>
             \/ sched # "handover" /\ sched' # "handover" /\ sched # "exited"
                  /\ idle' = idle
             \/ sched = "take" /\ sched' = "handover" /\ idle' = idle - 1
             \/ sched = "handover" /\ sched' = "exited" /\ idle' = idle,
             ctxDone => ctxDone'
      PROVE  TokenInv'
  <2>1. Busy' = Busy
    BY <1>1 DEF Busy
  <2>2. TokenConservation'
    BY <1>1, <2>1, TokensElsewhere
  <2>3. ExitCause'
    BY <1>1 DEF ExitCause, TypeOK
  <2>4. QED
    BY <2>2, <2>3
<1>2. CASE Tick \/ Cancel \/ Expire \/ UNCHANGED vars
  BY <1>2, <1>1 DEF Tick, Cancel, Expire, vars
<1>3. CASE AwaitStart \/ Plan \/ AwaitTimer
  BY <1>3, <1>1 DEF AwaitStart, Plan, AwaitTimer
<1>4. CASE TakeOrDrop \/ AbandonHandover
  BY <1>4, <1>1 DEF TakeOrDrop, AbandonHandover
<1>5. ASSUME NEW v \in VUs, Handover(v) PROVE TokenInv'
  <2>1. v \notin Busy /\ Busy \in SUBSET VUs /\ Busy' = Busy \cup {v}
    BY <1>5 DEF Handover, Busy, TypeOK
  <2>2. Cardinality(Busy') = Cardinality(Busy) + 1
    BY <2>1, AddVU
  <2>3. Cardinality(Busy) \in Nat /\ N \in Nat
    BY <2>1, FiniteVUSets
  <2>4. TokenConservation'
    BY <1>5, <2>2, <2>3 DEF Handover, TokenConservation, Held, TypeOK
  <2>5. ExitCause'
    BY <1>5 DEF Handover, ExitCause, TypeOK
  <2>6. QED
    BY <2>4, <2>5
<1>6. ASSUME NEW v \in VUs, FinishIteration(v) PROVE TokenInv'
  <2>1. Busy' = Busy
    BY <1>6 DEF FinishIteration, Busy, TypeOK
  <2>2. TokenConservation'
    BY <1>6, <2>1, TokensElsewhere DEF FinishIteration
  <2>3. ExitCause'
    BY <1>6 DEF FinishIteration, ExitCause, TypeOK
  <2>4. QED
    BY <2>2, <2>3
<1>7. ASSUME NEW v \in VUs, ReturnToken(v) PROVE TokenInv'
  <2>1. v \in Busy /\ Busy \in SUBSET VUs /\ Busy' = Busy \ {v}
    BY <1>7 DEF ReturnToken, Busy, TypeOK
  <2>2. Cardinality(Busy') = Cardinality(Busy) - 1
    BY <2>1, RemoveVU
  <2>3. Cardinality(Busy) \in Nat /\ N \in Nat
    BY <2>1, FiniteVUSets
  <2>4. TokenConservation'
    BY <1>7, <2>2, <2>3 DEF ReturnToken, TokenConservation, Held, TypeOK
  <2>5. ExitCause'
    BY <1>7 DEF ReturnToken, ExitCause, TypeOK
  <2>6. QED
    BY <2>4, <2>5
<1>8. ASSUME NEW v \in VUs, Leave(v) PROVE TokenInv'
  <2>1. Busy' = Busy
    BY <1>8 DEF Leave, Busy, TypeOK
  <2>2. TokenConservation'
    BY <1>8, <2>1, TokensElsewhere DEF Leave
  <2>3. ExitCause'
    BY <1>8 DEF Leave, ExitCause, TypeOK
  <2>4. QED
    BY <2>2, <2>3
<1>9. QED
  BY <1>2, <1>3, <1>4, <1>5, <1>6, <1>7, <1>8 DEF Next, Scheduler, Joined

\* With every token in the channel and no VU busy, the invariant holds.
LEMMA TokenInit == Init => TokenInv
<1> SUFFICES ASSUME Init PROVE TokenInv
  OBVIOUS
<1>1. Busy = {} /\ Cardinality({}) = 0
  BY FS_EmptySet DEF Init, Busy
<1>2. TokenConservation
  <2>1. N \in Nat
    BY FiniteVUSets
  <2>2. QED
    BY <1>1, <2>1 DEF Init, TokenConservation, Held
<1>3. TypeOK
  BY TypeInit
<1>4. ExitCause
  BY DEF Init, ExitCause
<1>5. QED
  BY <1>2, <1>3, <1>4 DEF TokenInv

\* The inductive invariant of the token protocol.
THEOREM TokenInvariance == Safety => []TokenInv
<1>1. Init => TokenInv
  BY TokenInit
<1>2. TokenInv /\ TypeOK' /\ [Next]_vars => TokenInv'
  BY TokenStep
<1>3. QED
  BY <1>1, <1>2, TypeCorrect, PTL DEF Safety

\* No token is lost or invented while the scheduler runs, for any pool.
THEOREM TokensConserved == Safety => []TokenConservation
  BY TokenInvariance, PTL DEF TokenInv

\* executors.go:322: `idle <- struct{}{}` never blocks, for any pool of VUs.
THEOREM NeverBlocks == Safety => []ReturnNeverBlocks
<1>1. TokenInv => ReturnNeverBlocks
  <2> SUFFICES ASSUME TokenInv, NEW v \in VUs, vu[v] = "returning"
               PROVE  idle < N
    BY DEF ReturnNeverBlocks
  <2>1. v \in Busy /\ Busy \in SUBSET VUs
    BY DEF Busy
  <2>2. Busy \ {v} \in SUBSET VUs /\ Cardinality(Busy \ {v}) = Cardinality(Busy) - 1
    BY <2>1, RemoveVU
  <2>3. Cardinality(Busy \ {v}) \in Nat /\ Cardinality(Busy) \in Nat /\ N \in Nat
    BY <2>1, <2>2, FiniteVUSets
  <2>4. QED
    BY <2>2, <2>3 DEF TokenInv, TokenConservation, Held, TypeOK
<1>2. QED
  BY <1>1, TokenInvariance, PTL

\* executors.go:304: while the scheduler waits to hand over a start and the
\* context is live, some VU is at its receive.
THEOREM ReceiverThere == Safety => []HandoverHasReceiver
<1>1. TokenInv => HandoverHasReceiver
  <2> SUFFICES ASSUME TokenInv, sched = "handover", ~ctxDone,
                      \A v \in VUs : vu[v] # "receive"
               PROVE  FALSE
    BY DEF HandoverHasReceiver
  <2>1. Busy = VUs
    BY DEF TokenInv, TypeOK, ExitCause, Busy
  <2>2. QED
    BY <2>1, FiniteVUSets DEF TokenInv, TokenConservation, Held, TypeOK, N
<1>2. QED
  BY <1>1, TokenInvariance, PTL
-----------------------------------------------------------------------------
(* The schedule *)

\* Multiplication is monotone (stated once: the solver's weak spot).
LEMMA TimesMonotone ==
    ASSUME NEW a \in Int, NEW b \in Int, NEW c \in Nat, a <= b
    PROVE  a * c <= b * c
<1>1. (b - a) * c >= 0
  OBVIOUS
<1>2. (b - a) * c = b * c - a * c
  OBVIOUS
<1>3. QED
  BY <1>1, <1>2

\* What integer division returns.
LEMMA Quotient ==
    ASSUME NEW a \in Nat, NEW b \in Nat, b > 0
    PROVE  /\ a \div b \in Nat
           /\ b * (a \div b) <= a
           /\ a < b * ((a \div b) + 1)
  OBVIOUS

\* A start whose offset lies before the end of the schedule, computed without
\* overflow, is one of the planned ones, and conversely.
LEMMA OffsetExact ==
    ASSUME NoOverflow, NEW i \in Nat, i * TimeUnit < Duration * Rate + TimeUnit
    PROVE  /\ offset(i) = (i * TimeUnit) \div Rate
           /\ offset(i) \in Nat
           /\ offset(i) < Duration <=> i * TimeUnit < Duration * Rate
<1> DEFINE x == i * TimeUnit
<1>1. x \in Nat /\ Duration * Rate \in Nat /\ Rate \in Nat /\ Rate > 0
         /\ TimeUnit \in Nat /\ Duration \in Nat
  BY ConfigAssumption
<1>2. x \in -HalfWord .. HalfWord - 1
  BY <1>1, ConfigAssumption DEF NoOverflow
<1>3. offset(i) = x \div Rate
  BY <1>1, <1>2 DEF offset, Wrap, TruncDiv
<1> DEFINE q == x \div Rate
<1>4. q \in Nat /\ Rate * q <= x /\ x < Rate * (q + 1)
  BY <1>1
<1> HIDE DEF q, x
<1>5. ASSUME q < Duration PROVE x < Duration * Rate
  <2>1. (q + 1) * Rate <= Duration * Rate
    BY <1>1, <1>4, <1>5, TimesMonotone
  <2>2. QED
    BY <1>1, <1>4, <2>1
<1>6. ASSUME x < Duration * Rate, ~(q < Duration) PROVE FALSE
  <2>1. Duration * Rate <= q * Rate
    BY <1>1, <1>4, <1>6, TimesMonotone
  <2>2. QED
    BY <1>1, <1>4, <1>6, <2>1
<1>7. QED
  BY <1>3, <1>4, <1>5, <1>6 DEF q, x

\* Where the scheduler is in its schedule, from what it has checked so far.
Progress ==
    /\ k = started + dropped
    /\ k * TimeUnit < Duration * Rate + TimeUnit
    /\ sched \in {"timer", "take", "handover"} => k * TimeUnit < Duration * Rate
    /\ sched \in {"take", "handover"} => StartTime + (k * TimeUnit) \div Rate <= now
    /\ sched = "exited" /\ ~ctxDone => k * TimeUnit >= Duration * Rate

\* Without an end of the context, an iteration is running or counted.
Counting == ~ctxDone => counted + Cardinality(Running) = started

ScheduleInv == Progress /\ FollowsSchedule /\ Counting

\* A step of the scheduler past a start that is due and planned.
LEMMA NextStart ==
    ASSUME TypeOK, TypeOK', Progress, sched \in {"take", "handover"},
           k' = k + 1, sched' = "plan", UNCHANGED now,
           started' + dropped' = started + dropped + 1
    PROVE  Progress' /\ FollowsSchedule'
<1>1. k \in Nat /\ TimeUnit \in Nat /\ k * TimeUnit \in Nat /\ Duration * Rate \in Nat
  BY ConfigAssumption DEF TypeOK
<1>2. k' * TimeUnit = k * TimeUnit + TimeUnit
  BY <1>1
<1>3. Progress'
  <2>1. k' = started' + dropped'
    BY DEF Progress
  <2>2. k' * TimeUnit < Duration * Rate + TimeUnit
    BY <1>1, <1>2 DEF Progress
  <2>3. QED
    BY <2>1, <2>2 DEF Progress
<1>4. k' - 1 = k
  BY <1>1
<1>5. FollowsSchedule'
  <2>1. StartTime + (k * TimeUnit) \div Rate <= now
    BY DEF Progress
  <2>2. StartTime + ((k' - 1) * TimeUnit) \div Rate <= now'
    BY <1>4, <2>1
  <2>3. QED
    BY <2>2 DEF FollowsSchedule
<1>6. QED
  BY <1>3, <1>5

\* The schedule is followed step by step.
LEMMA ScheduleStep ==
    ASSUME NoOverflow, TypeOK, TypeOK', ScheduleInv, [Next]_vars
    PROVE  ScheduleInv'
<1> USE DEF ScheduleInv
<1>0. /\ Cardinality(Running) \in Nat
      /\ k \in Nat /\ now \in Nat /\ counted \in Nat /\ started \in Nat
      /\ (k * TimeUnit) \div Rate \in Nat /\ ((k - 1) * TimeUnit) \div Rate \in Int
      /\ StartTime \in Nat /\ Duration \in Nat
  <2>1. Running \in SUBSET VUs
    BY DEF Running
  <2>2. k \in Nat /\ TimeUnit \in Nat /\ Rate \in Nat \ {0}
    BY ConfigAssumption DEF TypeOK
  <2>3. k * TimeUnit \in Nat /\ (k - 1) * TimeUnit \in Int
    BY <2>2
  <2>4. QED
    BY <2>1, <2>2, <2>3, FiniteVUSets, ConfigAssumption DEF TypeOK
<1>1. ASSUME UNCHANGED <<k, started, dropped, counted, vu>>,
             now' = now \/ now' = now + 1, ctxDone => ctxDone',
             \/ sched' = sched
             \/ sched = "plan" /\ UNCHANGED now /\ Plan
             \/ sched = "timer" /\ sched' = "take" /\ UNCHANGED now /\ now >= at
             \/ sched = "take" /\ sched' = "handover" /\ UNCHANGED now
             \/ sched' = "exited" /\ ctxDone
             \/ sched = "wait" /\ sched' = "plan"
      PROVE  ScheduleInv'
  <2>1. FollowsSchedule'
    BY <1>0, <1>1 DEF FollowsSchedule
  <2>2. Counting'
    BY <1>1 DEF Counting, Running
  <2>3. /\ offset(k) = (k * TimeUnit) \div Rate
        /\ offset(k) \in Nat
        /\ offset(k) < Duration <=> k * TimeUnit < Duration * Rate
    BY <1>0, OffsetExact DEF Progress
  <2>4. k * TimeUnit \in Nat /\ Duration * Rate \in Nat
    BY <1>0, ConfigAssumption
  <2>5. Progress'
    <3>1. CASE Plan
      BY <1>0, <1>1, <2>3, <2>4, <3>1 DEF Progress, Plan, at, StopStarting, TypeOK
    <3>2. CASE sched' = sched
      BY <1>0, <1>1, <2>4, <3>2 DEF Progress, TypeOK
    <3>3. CASE sched = "timer" /\ sched' = "take" /\ UNCHANGED now /\ now >= at
      BY <1>0, <1>1, <2>3, <2>4, <3>3 DEF Progress, at, TypeOK
    <3>4. CASE sched = "take" /\ sched' = "handover" /\ UNCHANGED now
      BY <1>0, <1>1, <2>4, <3>4 DEF Progress, TypeOK
    <3>5. CASE sched' = "exited" /\ ctxDone
      BY <1>0, <1>1, <2>4, <3>5 DEF Progress, TypeOK
    <3>6. CASE sched = "wait" /\ sched' = "plan"
      BY <1>0, <1>1, <2>4, <3>6 DEF Progress, TypeOK
    <3>7. QED
      BY <1>1, <3>1, <3>2, <3>3, <3>4, <3>5, <3>6
  <2>6. QED
    BY <2>1, <2>2, <2>5
<1>2. CASE Tick \/ Cancel \/ Expire
  BY <1>1, <1>2 DEF Tick, Cancel, Expire
<1>3. CASE UNCHANGED vars
  BY <1>1, <1>3 DEF vars
<1>4. CASE AwaitStart \/ AwaitTimer \/ AbandonHandover
  BY <1>1, <1>4 DEF AwaitStart, AwaitTimer, AbandonHandover
<1>5. CASE Plan
  BY <1>1, <1>5 DEF Plan
<1>6. CASE TakeOrDrop
  <2>1. CASE idle > 0
    BY <1>1, <1>6, <2>1 DEF TakeOrDrop, TypeOK
  <2>2. CASE idle = 0
    <3>1. started' + dropped' = started + dropped + 1
      BY <1>6, <2>2 DEF TakeOrDrop, TypeOK
    <3>2. Progress' /\ FollowsSchedule'
      BY <1>6, <2>2, <3>1, NextStart DEF TakeOrDrop, TypeOK
    <3>3. Counting'
      BY <1>6, <2>2 DEF TakeOrDrop, Counting, Running, TypeOK
    <3>4. QED
      BY <3>2, <3>3
  <2>3. QED
    BY <1>6, <2>1, <2>2 DEF TakeOrDrop
<1>7. ASSUME NEW v \in VUs, Handover(v) PROVE ScheduleInv'
  <2>1. started' + dropped' = started + dropped + 1
    BY <1>7 DEF Handover, TypeOK
  <2>2. Progress' /\ FollowsSchedule'
    BY <1>7, <2>1, NextStart DEF Handover
  <2>3. Running \in SUBSET VUs /\ v \notin Running /\ Running' = Running \cup {v}
    BY <1>7 DEF Handover, Running, TypeOK
  <2>4. Cardinality(Running') = Cardinality(Running) + 1
    BY <2>3, AddVU
  <2>5. Counting'
    BY <1>0, <1>7, <2>4 DEF Handover, Counting
  <2>6. QED
    BY <2>2, <2>5
<1>8. ASSUME NEW v \in VUs, FinishIteration(v) PROVE ScheduleInv'
  <2>1. Progress' /\ FollowsSchedule'
    BY <1>8 DEF FinishIteration, Progress, FollowsSchedule
  <2>2. Running \in SUBSET VUs /\ v \in Running /\ Running' = Running \ {v}
    BY <1>8 DEF FinishIteration, Running, TypeOK
  <2>3. Cardinality(Running') = Cardinality(Running) - 1
    BY <2>2, RemoveVU
  <2>4. Counting'
    BY <1>0, <1>8, <2>3 DEF FinishIteration, Counting
  <2>5. QED
    BY <2>1, <2>4
<1>9. ASSUME NEW v \in VUs, ReturnToken(v) \/ Leave(v) PROVE ScheduleInv'
  <2>1. Running' = Running
    BY <1>9 DEF ReturnToken, Leave, Running, TypeOK
  <2>2. QED
    BY <1>9, <2>1 DEF ReturnToken, Leave, Progress, FollowsSchedule, Counting
<1>10. QED
  BY <1>2, <1>3, <1>4, <1>5, <1>6, <1>7, <1>8, <1>9 DEF Next, Scheduler, Joined

\* Before the first start nothing is owed.
LEMMA ScheduleInit == NoOverflow /\ Init => ScheduleInv
<1> SUFFICES ASSUME Init PROVE ScheduleInv
  OBVIOUS
<1>1. Running = {} /\ Cardinality({}) = 0
  BY FS_EmptySet DEF Init, Running
<1>2. Duration * Rate \in Nat /\ TimeUnit \in Nat \ {0}
  BY ConfigAssumption
<1>3. 0 * TimeUnit = 0
  BY <1>2
<1>4. QED
  BY <1>1, <1>2, <1>3 DEF Init, ScheduleInv, Progress, FollowsSchedule, Counting

\* The inductive invariant of the schedule.
LEMMA ScheduleInvariance == NoOverflow => (Safety => []ScheduleInv)
<1> SUFFICES ASSUME NoOverflow PROVE Safety => []ScheduleInv
  OBVIOUS
<1>1. Init => ScheduleInv
  BY ScheduleInit
<1>2. TypeOK /\ TypeOK' /\ ScheduleInv /\ [Next]_vars => ScheduleInv'
  BY ScheduleStep
<1>3. QED
  BY <1>1, <1>2, TypeCorrect, PTL DEF Safety

\* While the schedule fits a machine integer, start i never goes out before
\* StartTime + i*TimeUnit/Rate.
THEOREM ScheduleFollowed == NoOverflow => (Safety => []FollowsSchedule)
  BY ScheduleInvariance, PTL DEF ScheduleInv

\* The number of starts the executor stops at is the planned one.
LEMMA PlannedUnique ==
    ASSUME NEW i \in Nat, i * TimeUnit >= Duration * Rate,
           i * TimeUnit < Duration * Rate + TimeUnit
    PROVE  i = Planned
<1> DEFINE d == Duration * Rate
           q == (d + TimeUnit - 1) \div TimeUnit
<1>1. d \in Nat /\ TimeUnit \in Nat /\ TimeUnit > 0
  BY ConfigAssumption
<1>2. q \in Nat /\ TimeUnit * q <= d + TimeUnit - 1 /\ d + TimeUnit - 1 < TimeUnit * (q + 1)
  <2>1. d + TimeUnit - 1 \in Nat
    BY <1>1
  <2>2. QED
    BY <1>1, <2>1, Quotient
<1>3. q = Planned
  BY DEF Planned
<1> HIDE DEF d, q
<1>4. i * TimeUnit >= d /\ i * TimeUnit < d + TimeUnit
  BY DEF d
<1>5. ASSUME i <= q - 1 PROVE FALSE
  <2>1. i * TimeUnit <= (q - 1) * TimeUnit
    BY <1>1, <1>2, <1>5, TimesMonotone
  <2>2. QED
    BY <1>1, <1>2, <1>4, <2>1
<1>6. ASSUME q + 1 <= i PROVE FALSE
  <2>1. (q + 1) * TimeUnit <= i * TimeUnit
    BY <1>1, <1>2, <1>6, TimesMonotone
  <2>2. QED
    BY <1>1, <1>2, <1>4, <2>1
<1>7. QED
  BY <1>2, <1>3, <1>5, <1>6

\* No planned start is lost, for any pool and any schedule that fits a
\* machine integer: it was handed over or dropped, and counted if handed over.
THEOREM NoStartLost == NoOverflow => (Safety => []StartsAccounted)
<1>1. TypeOK /\ ScheduleInv => StartsAccounted
  <2> SUFFICES ASSUME TypeOK, ScheduleInv PROVE StartsAccounted
    OBVIOUS
  <2>1. k = started + dropped
    BY DEF ScheduleInv, Progress
  <2>2. sched = "exited" /\ ~ctxDone => k = Planned
    BY PlannedUnique DEF ScheduleInv, Progress, TypeOK
  <2>3. ASSUME AllExited, ~ctxDone PROVE counted + dropped = Planned
    <3>1. Running = {} /\ Cardinality({}) = 0
      BY <2>3, FS_EmptySet DEF AllExited, Running
    <3>2. counted = started
      BY <2>3, <3>1 DEF ScheduleInv, Counting, TypeOK
    <3>3. QED
      BY <2>1, <2>2, <2>3, <3>2 DEF AllExited
  <2>4. QED
    BY <2>1, <2>2, <2>3 DEF StartsAccounted
<1>2. QED
  BY <1>1, ScheduleInvariance, TypeCorrect, PTL

-----------------------------------------------------------------------------
(* The executor implements OpenLoad *)

\* A start the scheduler is about to hand over or drop is a planned one.
LEMMA PlannedAhead ==
    ASSUME TypeOK, ScheduleInv, sched \in {"take", "handover"}
    PROVE  started + dropped < Planned
<1> DEFINE d == Duration * Rate
           q == (d + TimeUnit - 1) \div TimeUnit
<1>1. d \in Nat /\ TimeUnit \in Nat /\ TimeUnit > 0 /\ k \in Nat
  BY ConfigAssumption DEF TypeOK
<1>2. q \in Nat /\ d + TimeUnit - 1 < TimeUnit * (q + 1)
  BY <1>1
<1>3. k * TimeUnit < d /\ k = started + dropped /\ q = Planned
  BY DEF ScheduleInv, Progress, Planned
<1> HIDE DEF d, q
<1>4. ASSUME q <= k PROVE FALSE
  <2>1. q * TimeUnit <= k * TimeUnit
    BY <1>1, <1>2, <1>4, TimesMonotone
  <2>2. QED
    BY <1>1, <1>2, <1>3, <2>1
<1>5. QED
  BY <1>1, <1>2, <1>3, <1>4

\* Every step of the executor is one of OpenLoad's, or changes nothing there.
LEMMA StepImplements ==
    ASSUME TypeOK, TokenInv, ScheduleInv, [Next]_vars
    PROVE  [Promise!Next]_(Promise!vars)
<1>1. ASSUME UNCHANGED <<vu, started, dropped>> PROVE UNCHANGED Promise!vars
  BY <1>1 DEF Promise!vars, Busy
<1>2. CASE Tick \/ Cancel \/ Expire \/ AwaitStart \/ Plan \/ AwaitTimer
              \/ AbandonHandover \/ UNCHANGED vars
  BY <1>1, <1>2
  DEF Tick, Cancel, Expire, AwaitStart, Plan, AwaitTimer, AbandonHandover, vars
<1>3. CASE TakeOrDrop
  <2>1. CASE idle > 0
    BY <1>1, <1>3, <2>1 DEF TakeOrDrop, TypeOK
  <2>2. CASE idle = 0
    <3>1. Cardinality(Busy) \in Nat /\ Busy \in SUBSET VUs /\ N \in Nat
      BY FiniteVUSets DEF Busy
    <3>2. sched = "take" /\ Cardinality(Busy) = N
      BY <1>3, <2>2, <3>1 DEF TakeOrDrop, TokenInv, TokenConservation, Held
    <3>3. Busy = VUs
      BY <3>1, <3>2, ProperVUSubset
    <3>4. started + dropped < Planned
      BY <3>2, PlannedAhead
    <3>5. Busy' = Busy
      BY <1>3 DEF TakeOrDrop, Busy
    <3>6. Promise!Drop
      BY <1>3, <2>2, <3>3, <3>4, <3>5 DEF TakeOrDrop, Promise!Drop
    <3>7. QED
      BY <3>6 DEF Promise!Next
  <2>3. QED
    BY <1>3, <2>1, <2>2 DEF TakeOrDrop
<1>4. ASSUME NEW v \in VUs, Handover(v) PROVE Promise!Accept(v)
  <2>1. started + dropped < Planned
    BY <1>4, PlannedAhead DEF Handover
  <2>2. v \in VUs \ Busy /\ Busy' = Busy \cup {v}
    BY <1>4 DEF Handover, Busy, TypeOK
  <2>3. QED
    BY <1>4, <2>1, <2>2 DEF Handover, Promise!Accept
<1>5. ASSUME NEW v \in VUs, FinishIteration(v) \/ Leave(v)
      PROVE  UNCHANGED Promise!vars
  BY <1>5 DEF FinishIteration, Leave, Promise!vars, Busy, TypeOK
<1>6. ASSUME NEW v \in VUs, ReturnToken(v) PROVE Promise!Finish(v)
  BY <1>6 DEF ReturnToken, Promise!Finish, Busy, TypeOK
<1>7. QED
  BY <1>2, <1>3, <1>4, <1>5, <1>6 DEF Next, Scheduler, Joined, Promise!Next

\* The tokens and channels implement the promise of OpenLoad: a start is
\* dropped only while every VU is in an iteration.
THEOREM ImplementsOpenLoad == NoOverflow => (Safety => KeepsPromise)
<1> SUFFICES ASSUME NoOverflow PROVE Safety => KeepsPromise
  OBVIOUS
<1>1. Init => Promise!Init
  BY DEF Init, Promise!Init, Busy
<1>2. TypeOK /\ TokenInv /\ ScheduleInv /\ [Next]_vars => [Promise!Next]_(Promise!vars)
  BY StepImplements
<1>3. QED
  BY <1>1, <1>2, TypeCorrect, TokenInvariance, ScheduleInvariance, PTL
  DEF Safety, KeepsPromise, Promise!Spec
=============================================================================
