-------------------------------- MODULE MCVUs --------------------------------
(***************************************************************************)
(* MCRampingVU; and, by themselves, VUs that record while the sampler      *)
(* reads: they move in one of the states in which the VU of ramping-vus    *)
(* has returned and the clock has stopped.                                 *)
(***************************************************************************)
EXTENDS MCRampingVU, Sampler

Over == plan = [startVUs |-> 0, stages |-> <<Stage(0, 1), Stage(1, 1)>>] /\ now = Horizon

VUsSpec == /\ (Init \/ Ended) /\ SamplerInit
           /\ [][\/ SamplerInit /\ Next /\ UNCHANGED samplerVars
                 \/ Over /\ SamplerNext /\ UNCHANGED vars
                ]_<<vars, samplerVars>>
           /\ Fairness
=============================================================================
