----------------------------- MODULE MCRampingVU -----------------------------
(***************************************************************************)
(* Scenarios of RampingVU for TLC: a hump, a valley and a jump, in whole   *)
(* microseconds; and a larger family of plans for their arithmetic alone.  *)
(***************************************************************************)
EXTENDS RampingVU

Stage(d, n) == [duration |-> d * MicroTicks, target |-> n]

Hump   == [startVUs |-> 0, stages |-> <<Stage(2, 2), Stage(2, 0)>>]
Valley == [startVUs |-> 1, stages |-> <<Stage(1, 0), Stage(2, 2)>>]
Jump   == [startVUs |-> 2, stages |-> <<Stage(1, 2), Stage(0, 0), Stage(1, 0), Stage(0, 1), Stage(2, 1)>>]

AllPlans == {Hump, Valley, Jump}
JumpOnly == {Jump}

\* Up to three stages: jumps, ramps of odd slopes and plateaus.
Stages(durations, targets) == {Stage(d, n) : d \in durations, n \in targets}
Family ==
    LET st == Stages({0, 1, 3, 5}, 0..3)
    IN  {p \in [startVUs : 0..2, stages : {<<a, b>> : a, b \in st}
                                            \cup {<<a, b, c>> : a \in Stages({0, 3}, {0, 3}),
                                                     b \in Stages({0, 1}, {0, 2}), c \in st}] : ValidPlan(p)}

\* Ctrl+C ended the VU before it began: only the clock goes on.
Ended == /\ plan \in Family /\ i = 0
         /\ now = -StartTime /\ ctxDone = TRUE /\ pc = "exited" /\ wake = 0
         /\ startedAt = 0 /\ deadline = NoOffset /\ iterDone = FALSE
         /\ hook = FALSE /\ flying = 0 /\ interrupt = FALSE /\ calls = 0 /\ outcome = "none"
         /\ begun = 0 /\ iterations = 0 /\ errors = 0
=============================================================================
