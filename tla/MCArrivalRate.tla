---------------------------- MODULE MCArrivalRate ----------------------------
(* Instances of ArrivalRate for TLC. *)
EXTENDS ArrivalRate, TLC

CONSTANTS v1, v2
TwoVUs == {v1, v2}
=============================================================================
