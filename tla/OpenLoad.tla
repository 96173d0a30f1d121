------------------------------ MODULE OpenLoad ------------------------------
(***************************************************************************)
(* What the constant-arrival-rate executor promises, without its tokens,   *)
(* channels and goroutines (docs/options.md, "Arrival rate"): a fixed      *)
(* number of iteration starts fall due; each one is accepted by a free VU, *)
(* or dropped, and it is dropped only while every VU is in an iteration.   *)
(***************************************************************************)
EXTENDS Naturals, FiniteSets

CONSTANTS VUs,      \* the preallocated VUs
          Planned   \* how many starts fall due before the executor stops

VARIABLES busy,     \* the VUs that have accepted a start and not finished it
          accepted, \* starts accepted by a VU
          dropped   \* starts no VU was free for

vars == <<busy, accepted, dropped>>

Init == busy = {} /\ accepted = 0 /\ dropped = 0

Accept(v) ==
    /\ accepted + dropped < Planned
    /\ v \in VUs \ busy
    /\ busy' = busy \cup {v}
    /\ accepted' = accepted + 1
    /\ UNCHANGED dropped

Drop ==
    /\ accepted + dropped < Planned
    /\ busy = VUs
    /\ dropped' = dropped + 1
    /\ UNCHANGED <<busy, accepted>>

Finish(v) ==
    /\ v \in busy
    /\ busy' = busy \ {v}
    /\ UNCHANGED <<accepted, dropped>>

Next == Drop \/ \E v \in VUs : Accept(v) \/ Finish(v)

Spec == Init /\ [][Next]_vars
=============================================================================
