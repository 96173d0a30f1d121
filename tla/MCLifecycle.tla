----------------------------- MODULE MCLifecycle -----------------------------
(***************************************************************************)
(* Lifecycle for TLC; and, by itself, the controller of loadtool ui: it    *)
(* moves once a run was killed by a second Ctrl+C before it did anything,  *)
(* when nothing else can happen in that run.                               *)
(***************************************************************************)
EXTENDS Lifecycle, UIController

Killed == pc = "killed" /\ exports = {} /\ mods = [m \in Modules |-> "none"] /\ ~failed

MCInit == Init /\ ControllerInit

MCSpec == /\ MCInit
          /\ [][\/ ControllerInit /\ Next /\ UNCHANGED controllerVars
                \/ Killed /\ ControllerNext /\ UNCHANGED vars
               ]_<<vars, controllerVars>>
          /\ Fairness
=============================================================================
