------------------------------ MODULE TestRun -------------------------------
(***************************************************************************)
(* What a test promises of its iterations, without executors, clocks,      *)
(* channels and goroutines (docs/options.md and the comments of            *)
(* internal/engine/engine.go): each scenario opens, stops starting and     *)
(* ends, in that order; iterations begin only while it is open, one at a   *)
(* time on a VU, and count only if they return before it ends; the result  *)
(* comes when nobody iterates any more and holds exactly what counted.     *)
(***************************************************************************)
EXTENDS Integers, Sequences

VARIABLES stage,     \* of the test: "before", "on", "over" or "refused"
          phase,     \* of each scenario, see Phases
          busy,      \* the VUs <<scenario, number>> that are in an iteration
          counted,   \* iterations that returned in time
          dropped,   \* starts that no VU was free for
          result     \* what the caller gets

vars == <<stage, phase, busy, counted, dropped, result>>

\* Pending, open, stopping (iterations may finish) and ended.
Phases == 0..3
Open   == 1
Ended  == 3

NoResult == <<>>

Init == /\ stage = "before" /\ phase = <<>> /\ busy = {} /\ counted = 0 /\ dropped = 0
        /\ result = NoResult

\* The clock starts when every VU is ready; no load is generated otherwise.
Start == /\ stage = "before" /\ stage' = "on"
         /\ \A i \in DOMAIN phase' : phase'[i] \in Phases
         /\ UNCHANGED <<busy, counted, dropped, result>>

Refuse == /\ stage = "before" /\ stage' = "refused"
          /\ UNCHANGED <<phase, busy, counted, dropped, result>>

\* Time passes, or the test is cancelled.
Advance == /\ stage = "on" /\ DOMAIN phase' = DOMAIN phase
           /\ \A i \in DOMAIN phase : phase'[i] \in Phases /\ phase'[i] >= phase[i]
           /\ UNCHANGED <<stage, busy, counted, dropped, result>>

Begin == /\ stage = "on"
         /\ \E v \in busy' \ busy : phase[v[1]] = Open /\ busy' = busy \cup {v}
         /\ UNCHANGED <<stage, phase, counted, dropped, result>>

End == /\ stage = "on"
       /\ \E v \in busy : /\ busy' = busy \ {v}
                          /\ \/ counted' = counted
                             \/ phase[v[1]] # Ended /\ counted' = counted + 1
       /\ UNCHANGED <<stage, phase, dropped, result>>

Drop == /\ stage = "on" /\ dropped' = dropped + 1
        /\ UNCHANGED <<stage, phase, busy, counted, result>>

Finish == /\ stage = "on" /\ busy = {}
          /\ stage' = "over" /\ result' = <<counted, dropped>>
          /\ UNCHANGED <<phase, busy, counted, dropped>>

Next == Start \/ Refuse \/ Advance \/ Begin \/ End \/ Drop \/ Finish

Spec == Init /\ [][Next]_vars
=============================================================================
