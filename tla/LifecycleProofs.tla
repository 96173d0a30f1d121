--------------------------- MODULE LifecycleProofs ---------------------------
(***************************************************************************)
(* For any number of VUs and of protocol modules, and wherever Ctrl+C and  *)
(* the timeouts strike: interruptOn contains its interrupt, teardown runs  *)
(* exactly when setup completed, modules close after the instances the     *)
(* runner knows of, and the exit code tells the outcome.  Then the         *)
(* controller that starts and cancels such runs behind loadtool ui, for    *)
(* any number of runs and of clients that cancel them; and the HTTP        *)
(* sessions that the script's runtimes keep, for any number of VUs and any *)
(* traffic.                                                                *)
(***************************************************************************)
EXTENDS Lifecycle, UIController, HTTPSession, TLAPS

-----------------------------------------------------------------------------
(* The inductive invariant, by concern *)

\* A script call and its hook exist exactly while Run is in one, and only a
\* hook that ran can have left an interrupt, in that call's own runtime.
CallInv ==
    pc # "killed" =>
      /\ js # "none" <=> InCall
      /\ hook # "none" => InCall
      /\ js = "running" => hook # "none"
      /\ intr # {} => InCall /\ hook = "done" /\ intr = {CallRuntime}

\* What setup and teardown have come to at each place of Run.
BeforeSetup   == {"modules", "init", "prepare", "setup"}
AfterSetup    == {"createVUs", "newVU", "driving", "closeVUs", "beginTeardown", "teardown"}
AfterTeardown == {"closeLifecycle", "closeModules", "report", "exited"}
PhaseInv ==
    /\ pc \in BeforeSetup => setupRes = "none" /\ teardownRes = "none" /\ vus = 0
    /\ pc \in AfterSetup => setupRes = "ok" /\ teardownRes = "none"
    /\ pc = "teardown" => "teardown" \in exports
    /\ pc \in AfterTeardown =>
         (teardownRes # "none" <=> "teardown" \in exports /\ setupRes = "ok")
    /\ pc \in AfterTeardown /\ setupRes # "ok" => vus = 0

\* interrupted was read from ctx before teardown, whose context ignores it.
InterruptedInv ==
    /\ interrupted => cancelled
    /\ pc \in BeforeSetup \cup {"createVUs", "newVU", "driving"} => ~interrupted
    /\ pc = "teardown" /\ interrupted => detached
    /\ pc = "teardown" /\ interrupted /\ hook \in {"fired", "done"} => timedOut
    /\ interrupted => teardownRes # "interrupted"

\* Which module runs and known instances are open at each place of Run.
Known(rt) == rt \in 1..vus \/ (rt = 0 /\ setupRes # "none")
ModuleInv ==
    /\ pc = "modules" => \A m \in Modules : mods[m] # "closed"
    /\ pc \in {"init", "prepare", "setup", "closeLifecycle", "closeModules"} \cup AfterSetup =>
         \A m \in Modules : mods[m] = "open"
    /\ pc \in {"report", "exited"} => \A m \in Modules : mods[m] # "open"
    /\ pc = "killed" => \/ \A m \in Modules : mods[m] # "closed"
                        \/ \A rt \in Runtimes : Known(rt) => inst[rt] = {}
    /\ pc \in {"beginTeardown", "teardown"} \cup AfterTeardown =>
         \A rt \in 1..vus : inst[rt] = {}
    /\ pc \in {"closeModules", "report", "exited"} /\ setupRes # "none" => inst[0] = {}

\* A result without an error is one of a full load phase.
ResultInv ==
    /\ pc = "driving" => vus = NumVUs
    /\ pc \in {"closeVUs", "beginTeardown", "teardown", "closeLifecycle", "closeModules",
               "report"} /\ ~failed => setupRes = "ok" /\ vus = NumVUs
    /\ pc \notin {"exited", "killed"} => jsonCode = NoCode /\ exitCode = NoCode
    /\ ExitTellsOutcome

RunInv == TypeOK /\ CallInv /\ PhaseInv /\ InterruptedInv /\ ModuleInv /\ ResultInv

-----------------------------------------------------------------------------
(* Types *)

\* interruptOn arms a hook for the call it starts.
LEMMA StartCallTypes ==
    ASSUME TypeOK, StartCall
    PROVE  /\ js' = "running" /\ hook' = "armed"
           /\ intr' \in SUBSET Runtimes /\ timedOut' \in BOOLEAN
  BY DEF TypeOK, StartCall

\* Every step of a run keeps the types.
LEMMA TypeStep ==
    ASSUME TypeOK
    PROVE  [Next]_vars => TypeOK'
<1>1. ASSUME CtrlC PROVE TypeOK'
  BY <1>1 DEF CtrlC, TypeOK, runVars, moduleVars, callVars, exitVars
<1>2. ASSUME RestoreSignals PROVE TypeOK'
  BY <1>2 DEF RestoreSignals, TypeOK, runVars, moduleVars, callVars, exitVars
<1>3. ASSUME SecondCtrlC PROVE TypeOK'
  BY <1>3 DEF SecondCtrlC, TypeOK, runVars, moduleVars, callVars, signalVars,
         exitVars
<1>4. ASSUME CallTimeout PROVE TypeOK'
  BY <1>4 DEF CallTimeout, TypeOK, runVars, moduleVars, signalVars, exitVars
<1>5. ASSUME HookFires PROVE TypeOK'
  BY <1>5 DEF HookFires, CallEnded, TypeOK, runVars, moduleVars, signalVars,
         exitVars
<1>6. ASSUME HookRuns PROVE TypeOK'
  BY <1>6, SizeAssumption DEF HookRuns, CallRuntime, Runtimes, TypeOK,
         runVars, moduleVars, signalVars, exitVars
<1>7. ASSUME NEW how \in {"ok", "threw"}, JSReturns(how)
      PROVE  TypeOK'
  BY <1>7 DEF JSReturns, TypeOK, runVars, moduleVars, signalVars, exitVars
<1>8. ASSUME JSAborts PROVE TypeOK'
  BY <1>8 DEF JSAborts, TypeOK, runVars, moduleVars, signalVars, exitVars
<1>9. ASSUME Release PROVE TypeOK'
  BY <1>9 DEF Release, TypeOK, runVars, moduleVars, signalVars, exitVars
<1>10. ASSUME NEW rt \in Runtimes, NEW m \in Modules, UseModule(rt, m)
      PROVE  TypeOK'
  BY <1>10 DEF UseModule, TypeOK, runVars, callVars, signalVars, exitVars
<1>11. ASSUME LoadFails PROVE TypeOK'
  BY <1>11 DEF LoadFails, TypeOK, moduleVars, callVars, signalVars, exitVars
<1>12. ASSUME StartModule PROVE TypeOK'
  <2>1. mods' \in [Modules -> {"none", "open", "closed"}]
    BY <1>12 DEF StartModule, CloseOpen, TypeOK
  <2>2. failed' \in BOOLEAN
    BY <1>12, Zenon DEF StartModule, TypeOK
  <2>3. pc' \in {"modules", "report"}
    BY <1>12 DEF StartModule
  <2>4. QED
    BY <1>12, <2>1, <2>2, <2>3 DEF StartModule, TypeOK, callVars, signalVars, exitVars
<1>13. ASSUME NewLifecycle PROVE TypeOK'
  BY <1>13, StartCallTypes DEF NewLifecycle, TypeOK, runVars, moduleVars, signalVars, exitVars
<1>14. ASSUME InitDone PROVE TypeOK'
  BY <1>14 DEF InitDone, CallOver, EndCall, TypeOK, moduleVars, signalVars,
         exitVars
<1>15. ASSUME PrepareFails PROVE TypeOK'
  BY <1>15 DEF PrepareFails, TypeOK, moduleVars, callVars, signalVars,
         exitVars
<1>16. ASSUME BeginSetup PROVE TypeOK'
  BY <1>16, StartCallTypes DEF BeginSetup, TypeOK, runVars, moduleVars, signalVars, exitVars
<1>17. ASSUME SetupDone PROVE TypeOK'
  BY <1>17 DEF SetupDone, CallOver, EndCall, CallVerdict, TypeOK, moduleVars,
         signalVars, exitVars
<1>18. ASSUME CreateVU PROVE TypeOK'
  BY <1>18, StartCallTypes DEF CreateVU, TypeOK, runVars, moduleVars, signalVars, exitVars
<1>19. ASSUME CreationCancelled \/ EngineRefuses PROVE TypeOK'
  <2>1. failed' \in BOOLEAN /\ interrupted' \in BOOLEAN
    BY <1>19, Zenon DEF CreationCancelled, EngineRefuses, TypeOK
  <2>2. /\ pc' = "closeVUs"
        /\ UNCHANGED <<exports, vus, setupRes, teardownRes, thFailed, moduleVars, callVars,
                       signalVars, exitVars>>
    BY <1>19, Zenon DEF CreationCancelled, EngineRefuses
  <2>3. QED
    BY <2>1, <2>2 DEF TypeOK, moduleVars, callVars, signalVars, exitVars
<1>20. ASSUME NewVUDone PROVE TypeOK'
  <2>1. vus' \in 0..NumVUs
    BY <1>20, SizeAssumption DEF NewVUDone, CallOver, TypeOK
  <2>2. failed' \in BOOLEAN /\ interrupted' \in BOOLEAN
    BY <1>20, Zenon DEF NewVUDone, TypeOK
  <2>3. QED
    BY <1>20, <2>1, <2>2 DEF NewVUDone, EndCall, TypeOK, moduleVars, signalVars, exitVars
<1>21. ASSUME StartLoad PROVE TypeOK'
  BY <1>21 DEF StartLoad, TypeOK, runVars, moduleVars, callVars, signalVars,
         exitVars
<1>22. ASSUME LoadEnds PROVE TypeOK'
  BY <1>22 DEF LoadEnds, TypeOK, moduleVars, callVars, signalVars, exitVars
<1>23. ASSUME CloseVUs PROVE TypeOK'
  BY <1>23, SizeAssumption DEF CloseVUs, Runtimes, TypeOK, runVars, callVars,
         signalVars, exitVars
<1>24. ASSUME CloseLifecycle PROVE TypeOK'
  BY <1>24, SizeAssumption DEF CloseLifecycle, Runtimes, TypeOK, runVars,
         callVars, signalVars, exitVars
<1>25. ASSUME BeginTeardown PROVE TypeOK'
  BY <1>25, StartCallTypes DEF BeginTeardown, TypeOK, runVars, moduleVars, signalVars, exitVars
<1>26. ASSUME TeardownDone PROVE TypeOK'
  BY <1>26 DEF TeardownDone, CallOver, EndCall, CallVerdict, TypeOK,
         moduleVars, signalVars, exitVars
<1>27. ASSUME CloseModules PROVE TypeOK'
  BY <1>27 DEF CloseModules, CloseOpen, TypeOK, runVars, callVars, signalVars,
         exitVars
<1>28. ASSUME ReportError PROVE TypeOK'
  BY <1>28 DEF ReportError, TypeOK, runVars, moduleVars, callVars, signalVars
<1>29. ASSUME ReportResult PROVE TypeOK'
  <2>1. thFailed' \in BOOLEAN
    BY <1>29 DEF ReportResult
  <2>2. jsonCode' \in {NoCode, 0, 1, 99} /\ exitCode' \in {NoCode, 0, 1, 99}
    BY <1>29 DEF ReportResult, Verdict
  <2>3. /\ pc' = "exited"
        /\ UNCHANGED <<exports, vus, setupRes, teardownRes, failed, interrupted,
                       moduleVars, callVars, signalVars>>
    BY <1>29 DEF ReportResult
  <2>4. QED
    BY <2>1, <2>2, <2>3 DEF TypeOK, moduleVars, callVars, signalVars
<1>30. ASSUME Done \/ UNCHANGED vars PROVE TypeOK'
  <2>1. UNCHANGED vars
    BY <1>30 DEF Done
  <2>2. QED
    BY <2>1 DEF TypeOK, vars, runVars, moduleVars, callVars, signalVars, exitVars
<1>31. QED
  BY <1>1, <1>2, <1>3, <1>4, <1>5, <1>6, <1>7, <1>8, <1>9, <1>10, <1>11,
         <1>12, <1>13, <1>14, <1>15, <1>16, <1>17, <1>18, <1>19, <1>20, <1>21,
         <1>22, <1>23, <1>24, <1>25, <1>26, <1>27, <1>28, <1>29, <1>30 DEF
         Next

-----------------------------------------------------------------------------
(* The interrupt protocol *)

\* interruptOn: the interrupt a hook sets is cleared by release, or by goja as it
\* aborts the call, before the call is over.
LEMMA CallStep ==
    ASSUME TypeOK, CallInv
    PROVE  [Next]_vars => CallInv'
<1>0. USE DEF InCall, CallRuntime, Stopped
<1>1. ASSUME CtrlC \/ RestoreSignals \/ SecondCtrlC \/ CallTimeout
      PROVE  CallInv'
  BY <1>1 DEF CtrlC, RestoreSignals, SecondCtrlC, CallTimeout, CallInv,
         runVars, moduleVars, callVars, signalVars, exitVars
<1>2. ASSUME HookFires PROVE CallInv'
  BY <1>2 DEF HookFires, CallEnded, CallInv, runVars, moduleVars, signalVars,
         exitVars
<1>3. ASSUME HookRuns PROVE CallInv'
  BY <1>3 DEF HookRuns, CallInv, runVars, moduleVars, signalVars, exitVars
<1>4. ASSUME NEW how \in {"ok", "threw"}, JSReturns(how)
      PROVE  CallInv'
  BY <1>4 DEF JSReturns, CallInv, runVars, moduleVars, signalVars, exitVars
<1>5. ASSUME JSAborts PROVE CallInv'
  BY <1>5 DEF JSAborts, CallInv, runVars, moduleVars, signalVars, exitVars
<1>6. ASSUME Release PROVE CallInv'
  BY <1>6 DEF Release, CallInv, runVars, moduleVars, signalVars, exitVars
<1>7. ASSUME NEW rt \in Runtimes, NEW m \in Modules, UseModule(rt, m)
      PROVE  CallInv'
  BY <1>7 DEF UseModule, CallInv, runVars, callVars, signalVars, exitVars
<1>8. ASSUME LoadFails \/ StartModule \/ PrepareFails \/ CreationCancelled \/ EngineRefuses
           \/ StartLoad \/ LoadEnds \/ CloseVUs \/ CloseLifecycle \/ CloseModules
           \/ ReportError \/ ReportResult
      PROVE  CallInv'
  BY <1>8 DEF LoadFails, StartModule, PrepareFails, CreationCancelled, EngineRefuses,
         StartLoad, LoadEnds, CloseVUs, CloseLifecycle, CloseModules,
         ReportError, ReportResult, CloseOpen, Verdict, CallInv, runVars,
         moduleVars, callVars, signalVars, exitVars
<1>9. ASSUME NewLifecycle PROVE CallInv'
  BY <1>9 DEF NewLifecycle, StartCall, CallInv, runVars, moduleVars,
         signalVars, exitVars
<1>10. ASSUME BeginSetup PROVE CallInv'
  BY <1>10 DEF BeginSetup, StartCall, CallInv, moduleVars, signalVars,
         exitVars
<1>11. ASSUME CreateVU PROVE CallInv'
  BY <1>11 DEF CreateVU, StartCall, CallInv, runVars, moduleVars, signalVars,
         exitVars
<1>12. ASSUME BeginTeardown PROVE CallInv'
  BY <1>12 DEF BeginTeardown, StartCall, CallInv, runVars, moduleVars,
         signalVars, exitVars
<1>13. ASSUME InitDone \/ SetupDone \/ NewVUDone \/ TeardownDone
      PROVE  CallInv'
  BY <1>13 DEF InitDone, SetupDone, NewVUDone, TeardownDone, CallOver,
         EndCall, CallVerdict, CallInv, moduleVars, signalVars, exitVars
<1>14. ASSUME Done \/ UNCHANGED vars PROVE CallInv'
  BY <1>14 DEF Done, CallInv, vars, runVars, moduleVars, callVars, signalVars,
         exitVars
<1>15. QED
  BY <1>1, <1>2, <1>3, <1>4, <1>5, <1>6, <1>7, <1>8, <1>9, <1>10, <1>11,
         <1>12, <1>13, <1>14 DEF Next

-----------------------------------------------------------------------------
(* The course of a run *)

\* Teardown is reached exactly past a completed setup.
LEMMA PhaseStep ==
    ASSUME TypeOK, PhaseInv
    PROVE  [Next]_vars => PhaseInv'
<1>0. USE DEF BeforeSetup, AfterSetup, AfterTeardown, Stopped
<1>1. ASSUME CtrlC \/ RestoreSignals \/ SecondCtrlC \/ CallTimeout \/ HookFires
           \/ HookRuns
      PROVE  PhaseInv'
  BY <1>1 DEF CtrlC, RestoreSignals, SecondCtrlC, CallTimeout, HookFires,
         HookRuns, CallEnded, PhaseInv, runVars, moduleVars, callVars,
         signalVars, exitVars
<1>2. ASSUME NEW how \in {"ok", "threw"}, JSReturns(how)
      PROVE  PhaseInv'
  BY <1>2 DEF JSReturns, PhaseInv, runVars, moduleVars, signalVars, exitVars
<1>3. ASSUME JSAborts \/ Release
      PROVE  PhaseInv'
  BY <1>3 DEF JSAborts, Release, PhaseInv, runVars, moduleVars, signalVars,
         exitVars
<1>4. ASSUME NEW rt \in Runtimes, NEW m \in Modules, UseModule(rt, m)
      PROVE  PhaseInv'
  BY <1>4 DEF UseModule, PhaseInv, runVars, callVars, signalVars, exitVars
<1>5. ASSUME LoadFails \/ StartModule \/ PrepareFails
      PROVE  PhaseInv'
  BY <1>5 DEF LoadFails, StartModule, PrepareFails, CloseOpen, PhaseInv,
         moduleVars, callVars, signalVars, exitVars
<1>6. ASSUME NewLifecycle \/ InitDone
      PROVE  PhaseInv'
  BY <1>6 DEF NewLifecycle, InitDone, StartCall, CallOver, EndCall, PhaseInv,
         runVars, moduleVars, signalVars, exitVars
<1>7. ASSUME BeginSetup PROVE PhaseInv'
  BY <1>7 DEF BeginSetup, StartCall, PhaseInv, moduleVars, signalVars,
         exitVars
<1>8. ASSUME SetupDone PROVE PhaseInv'
  BY <1>8 DEF SetupDone, CallOver, EndCall, CallVerdict, PhaseInv, moduleVars,
         signalVars, exitVars
<1>9. ASSUME CreateVU \/ CreationCancelled \/ EngineRefuses
      PROVE  PhaseInv'
  BY <1>9 DEF CreateVU, CreationCancelled, EngineRefuses, StartCall, PhaseInv, runVars,
         moduleVars, callVars, signalVars, exitVars
<1>10. ASSUME NewVUDone PROVE PhaseInv'
  BY <1>10 DEF NewVUDone, CallOver, EndCall, PhaseInv, moduleVars, signalVars,
         exitVars
<1>11. ASSUME StartLoad \/ LoadEnds \/ CloseVUs
      PROVE  PhaseInv'
  BY <1>11 DEF StartLoad, LoadEnds, CloseVUs, PhaseInv, runVars, moduleVars,
         callVars, signalVars, exitVars
<1>12. ASSUME BeginTeardown PROVE PhaseInv'
  BY <1>12 DEF BeginTeardown, StartCall, PhaseInv, runVars, moduleVars,
         signalVars, exitVars
<1>13. ASSUME TeardownDone PROVE PhaseInv'
  BY <1>13 DEF TeardownDone, CallOver, EndCall, CallVerdict, PhaseInv,
         moduleVars, signalVars, exitVars
<1>14. ASSUME CloseLifecycle \/ CloseModules \/ ReportError \/ ReportResult
      PROVE  PhaseInv'
  BY <1>14 DEF CloseLifecycle, CloseModules, ReportError, ReportResult,
         CloseOpen, Verdict, PhaseInv, runVars, moduleVars, callVars,
         signalVars, exitVars
<1>15. ASSUME Done \/ UNCHANGED vars PROVE PhaseInv'
  BY <1>15 DEF Done, PhaseInv, vars, runVars, moduleVars, callVars,
         signalVars, exitVars
<1>16. QED
  BY <1>1, <1>2, <1>3, <1>4, <1>5, <1>6, <1>7, <1>8, <1>9, <1>10, <1>11,
         <1>12, <1>13, <1>14, <1>15 DEF Next

\* teardownContext: a Ctrl+C that was seen before teardown does not reach it.
LEMMA InterruptedStep ==
    ASSUME TypeOK, CallInv, PhaseInv, InterruptedInv
    PROVE  [Next]_vars => InterruptedInv'
<1>0. USE DEF BeforeSetup, AfterSetup, AfterTeardown, Stopped
<1>1. ASSUME CtrlC \/ RestoreSignals \/ SecondCtrlC \/ CallTimeout
      PROVE  InterruptedInv'
  BY <1>1 DEF CtrlC, RestoreSignals, SecondCtrlC, CallTimeout, InterruptedInv,
         runVars, moduleVars, callVars, signalVars, exitVars
<1>2. ASSUME HookFires PROVE InterruptedInv'
  BY <1>2 DEF HookFires, CallEnded, InterruptedInv, runVars, moduleVars,
         signalVars, exitVars
<1>3. ASSUME HookRuns PROVE InterruptedInv'
  BY <1>3 DEF HookRuns, InterruptedInv, runVars, moduleVars, signalVars,
         exitVars
<1>4. ASSUME NEW how \in {"ok", "threw"}, JSReturns(how)
      PROVE  InterruptedInv'
  BY <1>4 DEF JSReturns, InterruptedInv, runVars, moduleVars, signalVars,
         exitVars
<1>5. ASSUME JSAborts \/ Release
      PROVE  InterruptedInv'
  BY <1>5 DEF JSAborts, Release, InterruptedInv, runVars, moduleVars,
         signalVars, exitVars
<1>6. ASSUME NEW rt \in Runtimes, NEW m \in Modules, UseModule(rt, m)
      PROVE  InterruptedInv'
  BY <1>6 DEF UseModule, InterruptedInv, runVars, callVars, signalVars,
         exitVars
<1>7. ASSUME LoadFails \/ StartModule \/ PrepareFails \/ CloseVUs \/ CloseLifecycle
           \/ CloseModules \/ ReportError \/ ReportResult
      PROVE  InterruptedInv'
  BY <1>7 DEF LoadFails, StartModule, PrepareFails, CloseVUs, CloseLifecycle,
         CloseModules, ReportError, ReportResult, CloseOpen, Verdict,
         InterruptedInv, runVars, moduleVars, callVars, signalVars, exitVars
<1>8. ASSUME NewLifecycle \/ BeginSetup \/ CreateVU \/ StartLoad
      PROVE  InterruptedInv'
  BY <1>8 DEF NewLifecycle, BeginSetup, CreateVU, StartLoad, StartCall,
         InterruptedInv, runVars, moduleVars, callVars, signalVars, exitVars
<1>9. ASSUME InitDone \/ SetupDone
      PROVE  InterruptedInv'
  BY <1>9 DEF InitDone, SetupDone, CallOver, EndCall, CallVerdict,
         InterruptedInv, moduleVars, signalVars, exitVars
<1>10. ASSUME NewVUDone PROVE InterruptedInv'
  BY <1>10 DEF NewVUDone, CallOver, EndCall, PhaseInv, InterruptedInv,
         moduleVars, signalVars, exitVars
<1>11. ASSUME CreationCancelled \/ EngineRefuses \/ LoadEnds
      PROVE  InterruptedInv'
  BY <1>11 DEF CreationCancelled, EngineRefuses, LoadEnds, PhaseInv, InterruptedInv,
         moduleVars, callVars, signalVars, exitVars
<1>12. ASSUME BeginTeardown PROVE InterruptedInv'
  BY <1>12 DEF BeginTeardown, StartCall, InterruptedInv, runVars, moduleVars,
         signalVars, exitVars
<1>13. ASSUME TeardownDone PROVE InterruptedInv'
  BY <1>13 DEF TeardownDone, CallOver, EndCall, CallVerdict, InterruptedInv,
         moduleVars, signalVars, exitVars
<1>14. ASSUME Done \/ UNCHANGED vars PROVE InterruptedInv'
  BY <1>14 DEF Done, InterruptedInv, vars, runVars, moduleVars, callVars,
         signalVars, exitVars
<1>15. QED
  BY <1>1, <1>2, <1>3, <1>4, <1>5, <1>6, <1>7, <1>8, <1>9, <1>10, <1>11,
         <1>12, <1>13, <1>14 DEF Next

\* Module runs close last, after lc.Close and every known VU.
LEMMA ModuleStep ==
    ASSUME TypeOK, PhaseInv, ModuleInv
    PROVE  [Next]_vars => ModuleInv'
<1>0. USE SizeAssumption DEF BeforeSetup, AfterSetup, AfterTeardown, Stopped, Runtimes,
           Modules, Known, InCall, CallRuntime
<1>1. ASSUME CtrlC \/ RestoreSignals \/ CallTimeout \/ HookFires \/ HookRuns
      PROVE  ModuleInv'
  BY <1>1 DEF CtrlC, RestoreSignals, CallTimeout, HookFires, HookRuns,
         CallEnded, ModuleInv, TypeOK, runVars, moduleVars, callVars,
         signalVars, exitVars
<1>2. ASSUME SecondCtrlC PROVE ModuleInv'
  BY <1>2 DEF SecondCtrlC, ModuleInv, TypeOK, runVars, moduleVars, callVars,
         signalVars, exitVars
<1>3. ASSUME NEW how \in {"ok", "threw"}, JSReturns(how)
      PROVE  ModuleInv'
  BY <1>3 DEF JSReturns, ModuleInv, TypeOK, runVars, moduleVars, signalVars,
         exitVars
<1>4. ASSUME JSAborts \/ Release
      PROVE  ModuleInv'
  BY <1>4 DEF JSAborts, Release, ModuleInv, TypeOK, runVars, moduleVars,
         signalVars, exitVars
<1>5. ASSUME NEW rt \in Runtimes, NEW m \in Modules, UseModule(rt, m)
      PROVE  ModuleInv'
  BY <1>5 DEF UseModule, ModuleInv, TypeOK, runVars, callVars, signalVars,
         exitVars
<1>6. ASSUME LoadFails PROVE ModuleInv'
  BY <1>6 DEF LoadFails, PhaseInv, ModuleInv, TypeOK, moduleVars, callVars,
         signalVars, exitVars
<1>7. ASSUME StartModule PROVE ModuleInv'
  BY <1>7 DEF StartModule, CloseOpen, PhaseInv, ModuleInv, TypeOK, callVars,
         signalVars, exitVars
<1>8. ASSUME NewLifecycle \/ InitDone \/ PrepareFails \/ BeginSetup
      PROVE  ModuleInv'
  BY <1>8 DEF NewLifecycle, InitDone, PrepareFails, BeginSetup, StartCall,
         CallOver, EndCall, PhaseInv, ModuleInv, TypeOK, runVars, moduleVars,
         callVars, signalVars, exitVars
<1>9. ASSUME SetupDone PROVE ModuleInv'
  BY <1>9 DEF SetupDone, CallOver, EndCall, CallVerdict, PhaseInv, ModuleInv,
         TypeOK, moduleVars, signalVars, exitVars
<1>10. ASSUME CreateVU \/ CreationCancelled \/ EngineRefuses \/ StartLoad \/ LoadEnds
      PROVE  ModuleInv'
  BY <1>10 DEF CreateVU, CreationCancelled, EngineRefuses, StartLoad, LoadEnds, StartCall,
         ModuleInv, TypeOK, runVars, moduleVars, callVars, signalVars,
         exitVars
<1>11. ASSUME NewVUDone PROVE ModuleInv'
  BY <1>11 DEF NewVUDone, CallOver, EndCall, ModuleInv, TypeOK, moduleVars,
         signalVars, exitVars
<1>12. ASSUME CloseVUs PROVE ModuleInv'
  BY <1>12 DEF CloseVUs, ModuleInv, TypeOK, runVars, callVars, signalVars,
         exitVars
<1>13. ASSUME BeginTeardown \/ TeardownDone
      PROVE  ModuleInv'
  BY <1>13 DEF BeginTeardown, TeardownDone, StartCall, CallOver, EndCall,
         CallVerdict, ModuleInv, TypeOK, runVars, moduleVars, signalVars,
         exitVars
<1>14. ASSUME CloseLifecycle PROVE ModuleInv'
  BY <1>14 DEF CloseLifecycle, ModuleInv, TypeOK, runVars, callVars,
         signalVars, exitVars
<1>15. ASSUME CloseModules PROVE ModuleInv'
  BY <1>15 DEF CloseModules, CloseOpen, ModuleInv, TypeOK, runVars, callVars,
         signalVars, exitVars
<1>16. ASSUME ReportError \/ ReportResult
      PROVE  ModuleInv'
  BY <1>16 DEF ReportError, ReportResult, Verdict, ModuleInv, TypeOK, runVars,
         moduleVars, callVars, signalVars
<1>17. ASSUME Done \/ UNCHANGED vars PROVE ModuleInv'
  BY <1>17 DEF Done, ModuleInv, TypeOK, vars, runVars, moduleVars, callVars,
         signalVars, exitVars
<1>18. QED
  BY <1>1, <1>2, <1>3, <1>4, <1>5, <1>6, <1>7, <1>8, <1>9, <1>10, <1>11,
         <1>12, <1>13, <1>14, <1>15, <1>16, <1>17 DEF Next

\* The exit code is chosen once, from the run as it ended.
LEMMA ResultStep ==
    ASSUME TypeOK, PhaseInv, ResultInv
    PROVE  [Next]_vars => ResultInv'
<1>0. USE DEF BeforeSetup, AfterSetup, AfterTeardown, Stopped
<1>1. ASSUME CtrlC \/ RestoreSignals \/ SecondCtrlC \/ CallTimeout \/ HookFires
           \/ HookRuns
      PROVE  ResultInv'
  BY <1>1 DEF CtrlC, RestoreSignals, SecondCtrlC, CallTimeout, HookFires,
         HookRuns, CallEnded, ResultInv, ExitTellsOutcome, runVars,
         moduleVars, callVars, signalVars, exitVars
<1>2. ASSUME NEW how \in {"ok", "threw"}, JSReturns(how)
      PROVE  ResultInv'
  BY <1>2 DEF JSReturns, ResultInv, ExitTellsOutcome, runVars, moduleVars,
         signalVars, exitVars
<1>3. ASSUME JSAborts \/ Release
      PROVE  ResultInv'
  BY <1>3 DEF JSAborts, Release, ResultInv, ExitTellsOutcome, runVars,
         moduleVars, signalVars, exitVars
<1>4. ASSUME NEW rt \in Runtimes, NEW m \in Modules, UseModule(rt, m)
      PROVE  ResultInv'
  BY <1>4 DEF UseModule, ResultInv, ExitTellsOutcome, runVars, callVars,
         signalVars, exitVars
<1>5. ASSUME LoadFails \/ StartModule \/ NewLifecycle
      PROVE  ResultInv'
  BY <1>5 DEF LoadFails, StartModule, NewLifecycle, CloseOpen, StartCall,
         ResultInv, ExitTellsOutcome, runVars, moduleVars, callVars,
         signalVars, exitVars
<1>6. ASSUME InitDone \/ PrepareFails \/ BeginSetup
      PROVE  ResultInv'
  BY <1>6 DEF InitDone, PrepareFails, BeginSetup, CallOver, EndCall,
         StartCall, ResultInv, ExitTellsOutcome, moduleVars, callVars,
         signalVars, exitVars
<1>7. ASSUME SetupDone PROVE ResultInv'
  BY <1>7 DEF SetupDone, CallOver, EndCall, CallVerdict, ResultInv,
         ExitTellsOutcome, moduleVars, signalVars, exitVars
<1>8. ASSUME CreateVU \/ CreationCancelled \/ EngineRefuses
      PROVE  ResultInv'
  BY <1>8 DEF CreateVU, CreationCancelled, EngineRefuses, StartCall, ResultInv,
         ExitTellsOutcome, runVars, moduleVars, callVars, signalVars, exitVars
<1>9. ASSUME NewVUDone PROVE ResultInv'
  BY <1>9 DEF NewVUDone, CallOver, EndCall, ResultInv, ExitTellsOutcome,
         moduleVars, signalVars, exitVars
<1>10. ASSUME StartLoad \/ LoadEnds \/ CloseVUs
      PROVE  ResultInv'
  BY <1>10 DEF StartLoad, LoadEnds, CloseVUs, PhaseInv, ResultInv,
         ExitTellsOutcome, runVars, moduleVars, callVars, signalVars, exitVars
<1>11. ASSUME BeginTeardown PROVE ResultInv'
  BY <1>11 DEF BeginTeardown, StartCall, ResultInv, ExitTellsOutcome, runVars,
         moduleVars, signalVars, exitVars
<1>12. ASSUME TeardownDone PROVE ResultInv'
  BY <1>12 DEF TeardownDone, CallOver, EndCall, CallVerdict, ResultInv,
         ExitTellsOutcome, moduleVars, signalVars, exitVars
<1>13. ASSUME CloseLifecycle \/ CloseModules
      PROVE  ResultInv'
  BY <1>13 DEF CloseLifecycle, CloseModules, CloseOpen, ResultInv,
         ExitTellsOutcome, runVars, callVars, signalVars, exitVars
<1>14. ASSUME ReportError PROVE ResultInv'
  BY <1>14 DEF ReportError, ResultInv, ExitTellsOutcome, runVars, moduleVars,
         callVars, signalVars
<1>15. ASSUME ReportResult PROVE ResultInv'
  <2>1. PICK bad \in BOOLEAN, json, html \in {"unasked", "written", "unwritten"} :
          /\ thFailed' = bad
          /\ jsonCode' = IF json = "written" THEN Verdict(bad) ELSE NoCode
          /\ exitCode' = IF "unwritten" \in {json, html} THEN 1 ELSE Verdict(bad)
    BY <1>15 DEF ReportResult
  <2>2. /\ pc' = "exited" /\ setupRes' = "ok" /\ vus' = NumVUs
        /\ UNCHANGED <<interrupted, teardownRes>>
    BY <1>15 DEF ReportResult, ResultInv
  <2>3. PICK code : /\ code = Verdict(bad)
                    /\ exitCode' \in {1, code} /\ jsonCode' \in {NoCode, code}
    BY <2>1, Zenon
  <2>4. jsonCode' # NoCode => exitCode' \in {jsonCode', 1}
    BY <2>3, Zenon
  <2>5. exitCode' \in {1, code}
    BY <2>3
  <2>6. CASE interrupted \/ teardownRes \notin {"none", "ok"}
    <3>1. code = 1
      BY <2>3, <2>6, Zenon DEF Verdict
    <3>2. exitCode' = 1 /\ exitCode' # 0 /\ exitCode' # 99
      BY <2>5, <3>1
    <3>3. ExitTellsOutcome'
      BY <2>4, <3>2, Zenon DEF ExitTellsOutcome
    <3>4. QED
      BY <2>2, <3>3 DEF ResultInv
  <2>7. CASE ~interrupted /\ teardownRes \in {"none", "ok"}
    <3>1. (bad => code = 99) /\ (~bad => code = 0)
      BY <2>3, <2>7, Zenon DEF Verdict
    <3>2. (bad => exitCode' # 0) /\ (~bad => exitCode' # 99)
      BY <2>5, <3>1
    <3>3. ExitTellsOutcome'
      BY <2>1, <2>2, <2>4, <2>7, <3>2 DEF ExitTellsOutcome
    <3>4. QED
      BY <2>2, <3>3 DEF ResultInv
  <2>8. QED
    BY <2>6, <2>7
<1>16. ASSUME Done \/ UNCHANGED vars PROVE ResultInv'
  BY <1>16 DEF Done, ResultInv, ExitTellsOutcome, vars, runVars, moduleVars,
         callVars, signalVars, exitVars
<1>17. QED
  BY <1>1, <1>2, <1>3, <1>4, <1>5, <1>6, <1>7, <1>8, <1>9, <1>10, <1>11,
         <1>12, <1>13, <1>14, <1>15, <1>16 DEF Next

-----------------------------------------------------------------------------
(* Theorems *)

\* Nothing is started, called or closed when Run begins.
LEMMA RunInit == Init => RunInv
<1> SUFFICES ASSUME Init PROVE RunInv
  OBVIOUS
<1>1. TypeOK
  <2>1. mods \in [Modules -> {"none", "open", "closed"}] /\ inst \in [Runtimes -> SUBSET Modules]
    BY DEF Init
  <2>2. vus \in 0..NumVUs /\ intr \in SUBSET Runtimes
    BY SizeAssumption DEF Init
  <2>3. QED
    BY <2>1, <2>2 DEF Init, TypeOK
<1>2. CallInv /\ PhaseInv /\ InterruptedInv
  BY DEF Init, CallInv, PhaseInv, InterruptedInv, InCall, BeforeSetup, AfterSetup,
         AfterTeardown
<1>3. ModuleInv /\ ResultInv
  BY DEF Init, ModuleInv, ResultInv, ExitTellsOutcome, AfterSetup, AfterTeardown
<1>4. QED
  BY <1>1, <1>2, <1>3 DEF RunInv

\* Every step of a run keeps the invariant, part by part.
LEMMA RunStep == RunInv /\ [Next]_vars => RunInv'
  BY TypeStep, CallStep, PhaseStep, InterruptedStep, ModuleStep, ResultStep DEF RunInv

\* A run keeps to the invariant, whatever Ctrl+C and the timeouts do.
THEOREM RunInvariance == Safety => []RunInv
<1>1. RunInv /\ [Next]_vars => RunInv'
  BY RunStep
<1>2. QED
  BY RunInit, <1>1, PTL DEF Safety

\* The types of a run, among them that no more VUs are created than configured.
THEOREM TypeCorrect == Safety => []TypeOK
<1>1. RunInv => TypeOK
  BY DEF RunInv
<1>2. QED
  BY RunInvariance, <1>1, PTL

\* interruptOn (lifecycle.go): a pending interrupt belongs to the call that is
\* running and is gone before the next one, so setup's timeout never aborts
\* the top-level code of a VU or teardown.
THEOREM InterruptsContained == Safety => []InterruptContained
<1>1. RunInv => InterruptContained
  BY DEF RunInv, CallInv, InterruptContained
<1>2. QED
  BY RunInvariance, <1>1, PTL

\* runner.Run: teardown runs if and only if setup completed or is not exported,
\* on every one of its early returns.
THEOREM TeardownRunsIffSetUp == Safety => []TeardownIffSetUp
<1>1. RunInv => TeardownIffSetUp
  BY DEF RunInv, PhaseInv, AfterTeardown, TeardownIffSetUp
<1>2. QED
  BY RunInvariance, <1>1, PTL

\* teardownContext (runner.go): once the load was interrupted, teardown stops
\* only by itself or by its own timeout.
THEOREM TeardownIsUndisturbed == Safety => []TeardownUndisturbed
<1>1. RunInv => TeardownUndisturbed
  BY DEF RunInv, InterruptedInv, TeardownUndisturbed
<1>2. QED
  BY RunInvariance, <1>1, PTL

\* VU.Close, lc.Close and CloseModules: a module's run closes only after the
\* instances of every runtime that Run has taken charge of.
THEOREM RunsClosedLast == Safety => []RunsOutliveKnownInstances
<1>1. RunInv => RunsOutliveKnownInstances
  <2> SUFFICES ASSUME RunInv, NEW m \in Modules, NEW rt \in Runtimes, mods[m] = "closed",
                      Known(rt)
               PROVE  inst[rt] = {}
    BY DEF RunsOutliveKnownInstances, Known
  <2>1. pc \in {"report", "exited", "killed"}
    BY DEF RunInv, ModuleInv, TypeOK, AfterSetup
  <2>2. CASE pc = "killed"
    BY <2>2 DEF RunInv, ModuleInv
  <2>3. CASE pc \in {"report", "exited"}
    BY <2>3 DEF RunInv, ModuleInv, Known, AfterTeardown
  <2>4. QED
    BY <2>1, <2>2, <2>3
<1>2. QED
  BY RunInvariance, <1>1, PTL

\* StartModules and CloseModules: whichever step of Run fails, no module's run
\* is left open when the process exits.
THEOREM NoRunLeaks == Safety => []NoRunLeftOpen
<1>1. RunInv => NoRunLeftOpen
  BY DEF RunInv, ModuleInv, NoRunLeftOpen
<1>2. QED
  BY RunInvariance, <1>1, PTL

\* runTest and report.Verdict: the exit code tells a clean run, failed
\* thresholds and everything else apart, and the JSON summary agrees.
THEOREM ExitCodeTellsOutcome == Safety => []ExitTellsOutcome
<1>1. RunInv => ExitTellsOutcome
  BY DEF RunInv, ResultInv
<1>2. QED
  BY RunInvariance, <1>1, PTL

-----------------------------------------------------------------------------
(* The controller behind loadtool ui: its inductive invariant *)

\* Every variable of the controller keeps its type.
ControllerTypeOK ==
    /\ cur \in Runs \cup {NoRun}
    /\ state \in [Runs -> {"none", "running"} \cup Ended]
    /\ asked \in SUBSET Runs /\ ctxDone \in SUBSET Runs
    /\ exec \in [Runs -> {"none", "runPlan", "store", "done"}]
    /\ points \in [Runs -> Nat]
    /\ result \in [Runs -> [is : {"none", "error", "partial", "full"}, points : Nat]]
    /\ reports \in SUBSET Runs
    /\ client \in [Clients -> {Idle} \cup [run : Runs, step : {"mark", "cancel"}]]
    /\ close \in {"serving", "check", "get", "mark", "cancel", "wait", "gaveUp", "shutdown", "exited"}
    /\ closing \in Runs \cup {NoRun}
    /\ close \in {"check", "get", "mark", "cancel", "wait"} => closing \in Runs

\* A run's state follows its goroutine, which stores it under the run's mutex,
\* and a run that is not over is the controller's current one.
CurrentRunInv ==
    \A r \in Runs :
      /\ state[r] = "none" <=> exec[r] = "none"
      /\ state[r] = "running" <=> Working(r)
      /\ Working(r) => r = cur
      /\ r = cur => exec[r] # "none"

\* What runPlan returned holds the points so far; a result that was cut short is
\* one of a run somebody has asked to cancel.
ReportInv ==
    \A r \in Runs :
      /\ exec[r] \in {"store", "done"} =>
            /\ result[r].points = points[r]
            /\ result[r].is = "error" <=> points[r] = 0
            /\ result[r].is = "partial" => r \in asked
      /\ exec[r] = "done" =>
            /\ r \in reports <=> state[r] \in {"completed", "cancelled"}
            /\ r \in reports => result[r].is # "error"
            /\ result[r].is = "partial" => state[r] = "cancelled"
      /\ r \in reports => exec[r] = "done"

\* Whoever is about to cancel a run's context has marked the run as cancelled,
\* unless it was over by then.
CancelInv ==
    /\ \A r \in ctxDone : r \in asked \/ state[r] \in Ended
    /\ \A c \in Clients :
         /\ client[c] # Idle => exec[client[c].run] # "none"
         /\ client[c].step = "cancel" => client[c].run \in asked \/ state[client[c].run] \in Ended
    /\ close \in {"check", "get", "mark", "cancel", "wait"} => exec[closing] # "none"
    /\ close = "cancel" => closing \in asked \/ state[closing] \in Ended

ControllerInv == ControllerTypeOK /\ CurrentRunInv /\ ReportInv /\ CancelInv /\ PolledConsistent

-----------------------------------------------------------------------------
\* Every step keeps the types.
LEMMA ControllerTypeStep ==
    ASSUME ControllerTypeOK
    PROVE  [ControllerNext]_controllerVars => ControllerTypeOK'
<1>1. ASSUME NEW r \in Runs, Start(r) PROVE ControllerTypeOK'
  BY <1>1 DEF Start, ControllerTypeOK, Ended, Idle, NoRun
<1>2. ASSUME NEW r \in Runs, AddPoint(r) PROVE ControllerTypeOK'
  <2>1. points' \in [Runs -> Nat]
    BY <1>2 DEF AddPoint, ControllerTypeOK
  <2>2. QED
    BY <1>2, <2>1 DEF AddPoint, ControllerTypeOK
<1>3. ASSUME NEW r \in Runs, Warn(r) PROVE ControllerTypeOK'
  BY <1>3 DEF Warn, ControllerTypeOK, Ended, Idle, NoRun
<1>4. ASSUME NEW r \in Runs, RunPlan(r) PROVE ControllerTypeOK'
  <2>1. PICK is \in {"error", "partial", "full"} :
             result' = [result EXCEPT ![r] = [is |-> is, points |-> points[r]]]
    BY <1>4 DEF RunPlan
  <2>2. result' \in [Runs -> [is : {"none", "error", "partial", "full"}, points : Nat]]
    BY <2>1 DEF ControllerTypeOK
  <2>3. QED
    BY <1>4, <2>2 DEF RunPlan, ControllerTypeOK
<1>5. ASSUME NEW r \in Runs, Store(r) PROVE ControllerTypeOK'
  BY <1>5 DEF Store, ControllerTypeOK, Ended, Idle, NoRun
<1>6. ASSUME NEW r \in Runs, Poll(r) PROVE ControllerTypeOK'
  BY <1>6 DEF Poll, ControllerTypeOK, Ended, Idle, NoRun
<1>7. ASSUME NEW c \in Clients, NEW r \in Runs, CancelGet(c, r) PROVE ControllerTypeOK'
  BY <1>7 DEF CancelGet, ControllerTypeOK, Ended, Idle, NoRun
<1>8. ASSUME NEW c \in Clients, CancelMark(c) PROVE ControllerTypeOK'
  BY <1>8 DEF CancelMark, ControllerTypeOK, Ended, Idle, NoRun
<1>9. ASSUME NEW c \in Clients, CancelContext(c) PROVE ControllerTypeOK'
  BY <1>9 DEF CancelContext, ControllerTypeOK, Ended, Idle, NoRun
<1>10. ASSUME CloseGet PROVE ControllerTypeOK'
  BY <1>10 DEF CloseGet, ControllerTypeOK, Ended, Idle, NoRun
<1>11. ASSUME CloseCheck PROVE ControllerTypeOK'
  BY <1>11 DEF CloseCheck, ControllerTypeOK, Ended, Idle, NoRun
<1>12. ASSUME CloseCancelGet PROVE ControllerTypeOK'
  BY <1>12 DEF CloseCancelGet, ControllerTypeOK, Ended, Idle, NoRun
<1>13. ASSUME CloseMark PROVE ControllerTypeOK'
  BY <1>13 DEF CloseMark, ControllerTypeOK, Ended, Idle, NoRun
<1>14. ASSUME CloseCancel PROVE ControllerTypeOK'
  BY <1>14 DEF CloseCancel, ControllerTypeOK, Ended, Idle, NoRun
<1>15. ASSUME CloseWait PROVE ControllerTypeOK'
  BY <1>15 DEF CloseWait, ControllerTypeOK, Ended, Idle, NoRun
<1>16. ASSUME Exit PROVE ControllerTypeOK'
  BY <1>16 DEF Exit, ControllerTypeOK, Ended, Idle, NoRun
<1>17. ASSUME UNCHANGED controllerVars PROVE ControllerTypeOK'
  BY <1>17 DEF controllerVars, ControllerTypeOK, Ended, Idle, NoRun
<1>18. QED
  BY <1>1, <1>2, <1>3, <1>4, <1>5, <1>6, <1>7, <1>8, <1>9, <1>10, <1>11, <1>12, <1>13, <1>14, <1>15, <1>16, <1>17 DEF ControllerNext, Closed

\* Start finds the current run over, and nothing else starts a goroutine.
LEMMA CurrentRunStep ==
    ASSUME ControllerTypeOK, CurrentRunInv
    PROVE  [ControllerNext]_controllerVars => CurrentRunInv'
<1>1. ASSUME NEW r \in Runs, Start(r) PROVE CurrentRunInv'
  BY <1>1 DEF Start, ControllerTypeOK, CurrentRunInv, Working, Ended, NoRun, Runs
<1>2. ASSUME NEW r \in Runs, AddPoint(r) PROVE CurrentRunInv'
  BY <1>2 DEF AddPoint, ControllerTypeOK, CurrentRunInv, Working, Ended, NoRun, Runs
<1>3. ASSUME NEW r \in Runs, Warn(r) PROVE CurrentRunInv'
  BY <1>3 DEF Warn, ControllerTypeOK, CurrentRunInv, Working, Ended, NoRun, Runs
<1>4. ASSUME NEW r \in Runs, RunPlan(r) PROVE CurrentRunInv'
  BY <1>4 DEF RunPlan, ControllerTypeOK, CurrentRunInv, Working, Ended, NoRun, Runs
<1>5. ASSUME NEW r \in Runs, Store(r) PROVE CurrentRunInv'
  BY <1>5 DEF Store, ControllerTypeOK, CurrentRunInv, Working, Ended, NoRun, Runs
<1>6. ASSUME NEW r \in Runs, Poll(r) PROVE CurrentRunInv'
  BY <1>6 DEF Poll, ControllerTypeOK, CurrentRunInv, Working, Ended, NoRun, Runs
<1>7. ASSUME NEW c \in Clients, NEW r \in Runs, CancelGet(c, r) PROVE CurrentRunInv'
  BY <1>7 DEF CancelGet, ControllerTypeOK, CurrentRunInv, Working, Ended, NoRun, Runs
<1>8. ASSUME NEW c \in Clients, CancelMark(c) PROVE CurrentRunInv'
  BY <1>8 DEF CancelMark, ControllerTypeOK, CurrentRunInv, Working, Ended, NoRun, Runs
<1>9. ASSUME NEW c \in Clients, CancelContext(c) PROVE CurrentRunInv'
  BY <1>9 DEF CancelContext, ControllerTypeOK, CurrentRunInv, Working, Ended, NoRun, Runs
<1>10. ASSUME CloseGet PROVE CurrentRunInv'
  BY <1>10 DEF CloseGet, ControllerTypeOK, CurrentRunInv, Working, Ended, NoRun, Runs
<1>11. ASSUME CloseCheck PROVE CurrentRunInv'
  BY <1>11 DEF CloseCheck, ControllerTypeOK, CurrentRunInv, Working, Ended, NoRun, Runs
<1>12. ASSUME CloseCancelGet PROVE CurrentRunInv'
  BY <1>12 DEF CloseCancelGet, ControllerTypeOK, CurrentRunInv, Working, Ended, NoRun, Runs
<1>13. ASSUME CloseMark PROVE CurrentRunInv'
  BY <1>13 DEF CloseMark, ControllerTypeOK, CurrentRunInv, Working, Ended, NoRun, Runs
<1>14. ASSUME CloseCancel PROVE CurrentRunInv'
  BY <1>14 DEF CloseCancel, ControllerTypeOK, CurrentRunInv, Working, Ended, NoRun, Runs
<1>15. ASSUME CloseWait PROVE CurrentRunInv'
  BY <1>15 DEF CloseWait, ControllerTypeOK, CurrentRunInv, Working, Ended, NoRun, Runs
<1>16. ASSUME Exit PROVE CurrentRunInv'
  BY <1>16 DEF Exit, ControllerTypeOK, CurrentRunInv, Working, Ended, NoRun, Runs
<1>17. ASSUME UNCHANGED controllerVars PROVE CurrentRunInv'
  BY <1>17 DEF controllerVars, ControllerTypeOK, CurrentRunInv, Working, Ended, NoRun, Runs
<1>18. QED
  BY <1>1, <1>2, <1>3, <1>4, <1>5, <1>6, <1>7, <1>8, <1>9, <1>10, <1>11, <1>12, <1>13, <1>14, <1>15, <1>16, <1>17 DEF ControllerNext, Closed

\* A run keeps its points from the moment runPlan returns, and its state, result
\* and reports from the moment they are stored.
LEMMA ReportStep ==
    ASSUME ControllerTypeOK, CurrentRunInv, ReportInv, CancelInv
    PROVE  [ControllerNext]_controllerVars => ReportInv'
<1>1. ASSUME NEW r \in Runs, Start(r) PROVE ReportInv'
  BY <1>1 DEF Start, ControllerTypeOK, CurrentRunInv, ReportInv, CancelInv, Working, Ended, Nothing
<1>2. ASSUME NEW r \in Runs, AddPoint(r) PROVE ReportInv'
  BY <1>2 DEF AddPoint, ControllerTypeOK, CurrentRunInv, ReportInv, CancelInv, Working, Ended, Nothing
<1>3. ASSUME NEW r \in Runs, Warn(r) PROVE ReportInv'
  BY <1>3 DEF Warn, ControllerTypeOK, CurrentRunInv, ReportInv, CancelInv, Working, Ended, Nothing
<1>4. ASSUME NEW r \in Runs, RunPlan(r) PROVE ReportInv'
  <2>1. PICK is \in {"error", "partial", "full"} :
             /\ is = "partial" => r \in ctxDone
             /\ is = "error" <=> points[r] = 0
             /\ result' = [result EXCEPT ![r] = [is |-> is, points |-> points[r]]]
    BY <1>4 DEF RunPlan
  <2>2. result'[r].is = is /\ result'[r].points = points[r]
    BY <2>1 DEF ControllerTypeOK
  <2>3. \A q \in Runs \ {r} : result'[q] = result[q]
    BY <2>1 DEF ControllerTypeOK
  <2>4. is = "partial" => r \in asked
    BY <1>4, <2>1 DEF RunPlan, ControllerTypeOK, CurrentRunInv, CancelInv, Working, Ended
  <2>5. QED
    BY <1>4, <2>1, <2>2, <2>3, <2>4 DEF RunPlan, ControllerTypeOK, CurrentRunInv, ReportInv, Working, Ended
<1>5. ASSUME NEW r \in Runs, Store(r) PROVE ReportInv'
  BY <1>5 DEF Store, ControllerTypeOK, CurrentRunInv, ReportInv, CancelInv, Working, Ended, Nothing
<1>6. ASSUME NEW r \in Runs, Poll(r) PROVE ReportInv'
  BY <1>6 DEF Poll, ControllerTypeOK, CurrentRunInv, ReportInv, CancelInv, Working, Ended, Nothing
<1>7. ASSUME NEW c \in Clients, NEW r \in Runs, CancelGet(c, r) PROVE ReportInv'
  BY <1>7 DEF CancelGet, ControllerTypeOK, CurrentRunInv, ReportInv, CancelInv, Working, Ended, Nothing
<1>8. ASSUME NEW c \in Clients, CancelMark(c) PROVE ReportInv'
  BY <1>8 DEF CancelMark, ControllerTypeOK, CurrentRunInv, ReportInv, CancelInv, Working, Ended, Nothing
<1>9. ASSUME NEW c \in Clients, CancelContext(c) PROVE ReportInv'
  BY <1>9 DEF CancelContext, ControllerTypeOK, CurrentRunInv, ReportInv, CancelInv, Working, Ended, Nothing
<1>10. ASSUME CloseGet PROVE ReportInv'
  BY <1>10 DEF CloseGet, ControllerTypeOK, CurrentRunInv, ReportInv, CancelInv, Working, Ended, Nothing
<1>11. ASSUME CloseCheck PROVE ReportInv'
  BY <1>11 DEF CloseCheck, ControllerTypeOK, CurrentRunInv, ReportInv, CancelInv, Working, Ended, Nothing
<1>12. ASSUME CloseCancelGet PROVE ReportInv'
  BY <1>12 DEF CloseCancelGet, ControllerTypeOK, CurrentRunInv, ReportInv, CancelInv, Working, Ended, Nothing
<1>13. ASSUME CloseMark PROVE ReportInv'
  BY <1>13 DEF CloseMark, ControllerTypeOK, CurrentRunInv, ReportInv, CancelInv, Working, Ended, Nothing
<1>14. ASSUME CloseCancel PROVE ReportInv'
  BY <1>14 DEF CloseCancel, ControllerTypeOK, CurrentRunInv, ReportInv, CancelInv, Working, Ended, Nothing
<1>15. ASSUME CloseWait PROVE ReportInv'
  BY <1>15 DEF CloseWait, ControllerTypeOK, CurrentRunInv, ReportInv, CancelInv, Working, Ended, Nothing
<1>16. ASSUME Exit PROVE ReportInv'
  BY <1>16 DEF Exit, ControllerTypeOK, CurrentRunInv, ReportInv, CancelInv, Working, Ended, Nothing
<1>17. ASSUME UNCHANGED controllerVars PROVE ReportInv'
  BY <1>17 DEF controllerVars, ControllerTypeOK, CurrentRunInv, ReportInv, CancelInv, Working, Ended, Nothing
<1>18. QED
  BY <1>1, <1>2, <1>3, <1>4, <1>5, <1>6, <1>7, <1>8, <1>9, <1>10, <1>11, <1>12, <1>13, <1>14, <1>15, <1>16, <1>17 DEF ControllerNext, Closed

\* Between its two locks a Cancel loses the race against the end of the run, but
\* never against the start of another.
LEMMA CancelStep ==
    ASSUME ControllerTypeOK, CurrentRunInv, CancelInv
    PROVE  [ControllerNext]_controllerVars => CancelInv'
<1>1. ASSUME NEW r \in Runs, Start(r) PROVE CancelInv'
  BY <1>1 DEF Start, ControllerTypeOK, CurrentRunInv, CancelInv, Working, Ended, Idle, NoRun
<1>2. ASSUME NEW r \in Runs, AddPoint(r) PROVE CancelInv'
  BY <1>2 DEF AddPoint, ControllerTypeOK, CurrentRunInv, CancelInv, Working, Ended, Idle, NoRun
<1>3. ASSUME NEW r \in Runs, Warn(r) PROVE CancelInv'
  BY <1>3 DEF Warn, ControllerTypeOK, CurrentRunInv, CancelInv, Working, Ended, Idle, NoRun
<1>4. ASSUME NEW r \in Runs, RunPlan(r) PROVE CancelInv'
  BY <1>4 DEF RunPlan, ControllerTypeOK, CurrentRunInv, CancelInv, Working, Ended, Idle, NoRun
<1>5. ASSUME NEW r \in Runs, Store(r) PROVE CancelInv'
  BY <1>5 DEF Store, ControllerTypeOK, CurrentRunInv, CancelInv, Working, Ended, Idle, NoRun
<1>6. ASSUME NEW r \in Runs, Poll(r) PROVE CancelInv'
  BY <1>6 DEF Poll, ControllerTypeOK, CurrentRunInv, CancelInv, Working, Ended, Idle, NoRun
<1>7. ASSUME NEW c \in Clients, NEW r \in Runs, CancelGet(c, r) PROVE CancelInv'
  BY <1>7 DEF CancelGet, ControllerTypeOK, CurrentRunInv, CancelInv, Working, Ended, Idle, NoRun
<1>8. ASSUME NEW c \in Clients, CancelMark(c) PROVE CancelInv'
  BY <1>8 DEF CancelMark, ControllerTypeOK, CurrentRunInv, CancelInv, Working, Ended, Idle, NoRun
<1>9. ASSUME NEW c \in Clients, CancelContext(c) PROVE CancelInv'
  BY <1>9 DEF CancelContext, ControllerTypeOK, CurrentRunInv, CancelInv, Working, Ended, Idle, NoRun
<1>10. ASSUME CloseGet PROVE CancelInv'
  BY <1>10 DEF CloseGet, ControllerTypeOK, CurrentRunInv, CancelInv, Working, Ended, Idle, NoRun
<1>11. ASSUME CloseCheck PROVE CancelInv'
  BY <1>11 DEF CloseCheck, ControllerTypeOK, CurrentRunInv, CancelInv, Working, Ended, Idle, NoRun
<1>12. ASSUME CloseCancelGet PROVE CancelInv'
  BY <1>12 DEF CloseCancelGet, ControllerTypeOK, CurrentRunInv, CancelInv, Working, Ended, Idle, NoRun
<1>13. ASSUME CloseMark PROVE CancelInv'
  BY <1>13 DEF CloseMark, ControllerTypeOK, CurrentRunInv, CancelInv, Working, Ended, Idle, NoRun
<1>14. ASSUME CloseCancel PROVE CancelInv'
  BY <1>14 DEF CloseCancel, ControllerTypeOK, CurrentRunInv, CancelInv, Working, Ended, Idle, NoRun
<1>15. ASSUME CloseWait PROVE CancelInv'
  BY <1>15 DEF CloseWait, ControllerTypeOK, CurrentRunInv, CancelInv, Working, Ended, Idle, NoRun
<1>16. ASSUME Exit PROVE CancelInv'
  BY <1>16 DEF Exit, ControllerTypeOK, CurrentRunInv, CancelInv, Working, Ended, Idle, NoRun
<1>17. ASSUME UNCHANGED controllerVars PROVE CancelInv'
  BY <1>17 DEF controllerVars, ControllerTypeOK, CurrentRunInv, CancelInv, Working, Ended, Idle, NoRun
<1>18. QED
  BY <1>1, <1>2, <1>3, <1>4, <1>5, <1>6, <1>7, <1>8, <1>9, <1>10, <1>11, <1>12, <1>13, <1>14, <1>15, <1>16, <1>17 DEF ControllerNext, Closed

\* A Status is read under the mutex that Store holds.
LEMMA PolledStep ==
    ASSUME ControllerTypeOK, CurrentRunInv, ReportInv, PolledConsistent
    PROVE  [ControllerNext]_controllerVars => PolledConsistent'
<1>1. ASSUME NEW r \in Runs, Start(r) PROVE PolledConsistent'
  BY <1>1 DEF Start, ControllerTypeOK, CurrentRunInv, ReportInv, PolledConsistent, Working, Ended, Nothing
<1>2. ASSUME NEW r \in Runs, AddPoint(r) PROVE PolledConsistent'
  BY <1>2 DEF AddPoint, ControllerTypeOK, CurrentRunInv, ReportInv, PolledConsistent, Working, Ended, Nothing
<1>3. ASSUME NEW r \in Runs, Warn(r) PROVE PolledConsistent'
  BY <1>3 DEF Warn, ControllerTypeOK, CurrentRunInv, ReportInv, PolledConsistent, Working, Ended, Nothing
<1>4. ASSUME NEW r \in Runs, RunPlan(r) PROVE PolledConsistent'
  BY <1>4 DEF RunPlan, ControllerTypeOK, CurrentRunInv, ReportInv, PolledConsistent, Working, Ended, Nothing
<1>5. ASSUME NEW r \in Runs, Store(r) PROVE PolledConsistent'
  BY <1>5 DEF Store, ControllerTypeOK, CurrentRunInv, ReportInv, PolledConsistent, Working, Ended, Nothing
<1>6. ASSUME NEW r \in Runs, Poll(r) PROVE PolledConsistent'
  <2>1. /\ polled'.state = state[r] /\ polled'.points = points[r]
        /\ polled'.final <=> r \in reports
        /\ polled'.report = IF r \in reports THEN result[r] ELSE Nothing
    BY <1>6 DEF Poll
  <2>2. CASE r \in reports
    BY <1>6, <2>1, <2>2 DEF Poll, ControllerTypeOK, CurrentRunInv, ReportInv, PolledConsistent
  <2>3. CASE r \notin reports
    BY <1>6, <2>1, <2>3 DEF Poll, ControllerTypeOK, CurrentRunInv, ReportInv, PolledConsistent, Working, Ended, Nothing
  <2>4. QED
    BY <2>2, <2>3
<1>7. ASSUME NEW c \in Clients, NEW r \in Runs, CancelGet(c, r) PROVE PolledConsistent'
  BY <1>7 DEF CancelGet, ControllerTypeOK, CurrentRunInv, ReportInv, PolledConsistent, Working, Ended, Nothing
<1>8. ASSUME NEW c \in Clients, CancelMark(c) PROVE PolledConsistent'
  BY <1>8 DEF CancelMark, ControllerTypeOK, CurrentRunInv, ReportInv, PolledConsistent, Working, Ended, Nothing
<1>9. ASSUME NEW c \in Clients, CancelContext(c) PROVE PolledConsistent'
  BY <1>9 DEF CancelContext, ControllerTypeOK, CurrentRunInv, ReportInv, PolledConsistent, Working, Ended, Nothing
<1>10. ASSUME CloseGet PROVE PolledConsistent'
  BY <1>10 DEF CloseGet, ControllerTypeOK, CurrentRunInv, ReportInv, PolledConsistent, Working, Ended, Nothing
<1>11. ASSUME CloseCheck PROVE PolledConsistent'
  BY <1>11 DEF CloseCheck, ControllerTypeOK, CurrentRunInv, ReportInv, PolledConsistent, Working, Ended, Nothing
<1>12. ASSUME CloseCancelGet PROVE PolledConsistent'
  BY <1>12 DEF CloseCancelGet, ControllerTypeOK, CurrentRunInv, ReportInv, PolledConsistent, Working, Ended, Nothing
<1>13. ASSUME CloseMark PROVE PolledConsistent'
  BY <1>13 DEF CloseMark, ControllerTypeOK, CurrentRunInv, ReportInv, PolledConsistent, Working, Ended, Nothing
<1>14. ASSUME CloseCancel PROVE PolledConsistent'
  BY <1>14 DEF CloseCancel, ControllerTypeOK, CurrentRunInv, ReportInv, PolledConsistent, Working, Ended, Nothing
<1>15. ASSUME CloseWait PROVE PolledConsistent'
  BY <1>15 DEF CloseWait, ControllerTypeOK, CurrentRunInv, ReportInv, PolledConsistent, Working, Ended, Nothing
<1>16. ASSUME Exit PROVE PolledConsistent'
  BY <1>16 DEF Exit, ControllerTypeOK, CurrentRunInv, ReportInv, PolledConsistent, Working, Ended, Nothing
<1>17. ASSUME UNCHANGED controllerVars PROVE PolledConsistent'
  BY <1>17 DEF controllerVars, ControllerTypeOK, CurrentRunInv, ReportInv, PolledConsistent, Working, Ended, Nothing
<1>18. QED
  BY <1>1, <1>2, <1>3, <1>4, <1>5, <1>6, <1>7, <1>8, <1>9, <1>10, <1>11, <1>12, <1>13, <1>14, <1>15, <1>16, <1>17 DEF ControllerNext, Closed

LEMMA ControllerInitially == ControllerInit => ControllerInv
  BY RunsAssumption DEF ControllerInit, ControllerInv, ControllerTypeOK, CurrentRunInv, ReportInv, CancelInv, PolledConsistent,
     Working, Ended, Idle, Nothing, NoRun, Runs

\* The invariant of the controller: what its two levels of locks protect.
THEOREM ControllerInvariance == ControllerSpec => []ControllerInv
<1>1. ControllerInv /\ [ControllerNext]_controllerVars => ControllerInv'
  BY ControllerTypeStep, CurrentRunStep, ReportStep, CancelStep, PolledStep DEF ControllerInv
<1>2. QED
  BY <1>1, ControllerInitially, PTL DEF ControllerSpec

\* Every variable of the controller keeps its type.
THEOREM ControllerTyped == ControllerSpec => []ControllerTypeOK
<1>1. ControllerInv => ControllerTypeOK
  BY DEF ControllerInv
<1>2. QED
  BY <1>1, ControllerInvariance, PTL

\* controller.go:263, Status: whenever the page polls, and however many runs end
\* between its polls, it is shown a final report exactly when it is told that the
\* run completed or was cancelled; the report has all the points of the series.
THEOREM StatusConsistent == ControllerSpec => []PolledConsistent
<1>1. ControllerInv => PolledConsistent
  BY DEF ControllerInv
<1>2. QED
  BY <1>1, ControllerInvariance, PTL

\* controller.go:52 and 198, Start and Cancel: for any number of runs and of
\* clients, only the current run is at work, and a context is only cancelled of a
\* run that somebody asked to cancel or that is over.
THEOREM CancelReachesItsRun == ControllerSpec => []CancelHitsItsRun
<1>1. ControllerInv => CancelHitsItsRun
  BY DEF ControllerInv, CurrentRunInv, CancelInv, CancelHitsItsRun
<1>2. QED
  BY <1>1, ControllerInvariance, PTL

-----------------------------------------------------------------------------
(* The HTTP sessions of a test: their inductive invariant *)

ResultType == [status : Nat, err : BOOLEAN, body : Nat \cup {Null}, discarded : BOOLEAN]
ExchangeType == [runtime : Sessions, round : Nat, traffic : Traffic, sent : SUBSET STRING, res : ResultType]

\* Every variable of the sessions keeps its type.
SessionTypeOK ==
    /\ options \in [discardBodies : BOOLEAN, keepCookies : BOOLEAN]
    /\ inside \subseteq Sessions
    /\ round \in [Sessions -> Nat]
    /\ jar \in [Sessions -> SUBSET STRING]
    /\ exchanges \in Seq(ExchangeType)

\* An exchange belongs to a function that its runtime has begun, and the script
\* was given what Send makes of it.
ExchangeInv ==
    \A i \in 1..Len(exchanges) :
      /\ exchanges[i].round <= round[exchanges[i].runtime]
      /\ exchanges[i].res = Send(exchanges[i].runtime, exchanges[i].traffic)

\* The exchanges of the session that runtime r is in.
SessionOf(r) ==
    {j \in 1..Len(exchanges) :
        /\ exchanges[j].runtime = r
        /\ exchanges[j].round = round[r] \/ r = 0 \/ options.keepCookies}

\* A jar holds exactly the cookies its runtime's session has left set.
JarInv == \A r \in Sessions : jar[r] = SetIn(SessionOf(r))

CookieInv == \A i \in 1..Len(exchanges) : CookiesOfItsSession(i)

SessionInv == SessionTypeOK /\ ExchangeInv /\ JarInv /\ CookieInv

-----------------------------------------------------------------------------
(* One request *)

\* The parts of what a request may be.
LEMMA TrafficTyped ==
    ASSUME NEW x \in Traffic
    PROVE  /\ x.responseType \in STRING /\ x.cookies \subseteq STRING /\ x.refused \in BOOLEAN
           /\ x.status \in Nat /\ x.sized \in BOOLEAN /\ x.length \in Nat /\ x.arrives \in Nat
           /\ x.sets \subseteq STRING /\ x.clears \subseteq STRING
  BY SessionAssumption

\* Whether a body is kept is a Boolean.
LEMMA KeepBodyTyped ==
    ASSUME NEW r \in Sessions, NEW x \in Traffic
    PROVE  KeepBody(r, x) \in BOOLEAN
<1>1. CASE x.responseType = "text"
  <2>1. responseType(x) = <<TRUE>>
    BY <1>1 DEF responseType
  <2>2. QED
    BY <2>1 DEF KeepBody
<1>2. CASE x.responseType = "none"
  <2>1. responseType(x) = <<FALSE>>
    BY <1>2 DEF responseType
  <2>2. QED
    BY <2>1 DEF KeepBody
<1>3. CASE x.responseType \notin {"text", "none"}
  <2>1. responseType(x) = <<>>
    BY <1>3 DEF responseType
  <2>2. QED
    BY <2>1 DEF KeepBody
<1>4. QED
  BY <1>1, <1>2, <1>3

\* readBody gives a whole body, or one that broke off with an error, or none
\* with an error.
LEMMA ReadBody ==
    ASSUME NEW x \in Traffic
    PROVE  /\ readBody(x).body \in Nat \cup {Null} /\ readBody(x).err \in BOOLEAN
           /\ readBody(x).body # Null => readBody(x).err \/ ~BreaksOff(x)
           /\ readBody(x).body = Null => readBody(x).err
<1>1. x.length \in Nat /\ x.arrives \in Nat /\ Arriving(x) \in Nat /\ BreaksOff(x) \in BOOLEAN
  BY TrafficTyped DEF Arriving, BreaksOff
<1>2. CASE x.sized /\ x.length <= MaxPresize
  <2>1. /\ readBody(x).body = IF Arriving(x) < x.length THEN Null ELSE x.length
        /\ readBody(x).err = (Arriving(x) < x.length)
    BY <1>2 DEF readBody
  <2>2. BreaksOff(x) => Arriving(x) < x.length
    BY DEF BreaksOff, Arriving
  <2> readBody(x).err \in BOOLEAN
    BY <2>1
  <2>3. CASE Arriving(x) < x.length
    <3>1. readBody(x).body = Null /\ readBody(x).err
      BY <2>1, <2>3
    <3>2. QED
      BY <3>1, <2>1, <2>3 DEF Null
  <2>4. CASE ~(Arriving(x) < x.length)
    <3>1. readBody(x).body = x.length
      BY <2>1, <2>4
    <3>2. ~BreaksOff(x)
      BY <2>2, <2>4
    <3>3. readBody(x).body \in Nat /\ readBody(x).body # Null
      BY <1>1, <3>1 DEF Null
    <3>4. QED
      BY <3>2, <3>3
  <2>5. QED
    BY <2>3, <2>4
<1>3. CASE ~(x.sized /\ x.length <= MaxPresize)
  <2>1. readBody(x).body = Arriving(x) /\ readBody(x).err = BreaksOff(x)
    BY <1>3 DEF readBody
  <2>2. QED
    BY <1>1, <2>1 DEF Null
<1>4. QED
  BY <1>2, <1>3

\* httpclient.Send and response.parseJSON: the script is told why it has no body.
LEMMA SendTold ==
    ASSUME NEW r \in Sessions, NEW x \in Traffic
    PROVE  /\ Send(r, x) \in ResultType
           /\ Send(r, x).body # Null => Send(r, x).err \/ ~BreaksOff(x)
           /\ (parseJSON(Send(r, x)) = "discarded") <=> ~KeepBody(r, x)
           /\ parseJSON(Send(r, x)) = "no response" => Send(r, x).err
<1> DEFINE res == Send(r, x)
<1>1. KeepBody(r, x) \in BOOLEAN /\ x.refused \in BOOLEAN /\ x.status \in Nat /\ BreaksOff(x) \in BOOLEAN
  BY KeepBodyTyped, TrafficTyped DEF BreaksOff
<1>2. CASE KeepBody(r, x)
  <2>1. res = [status |-> IF x.refused THEN 0 ELSE x.status, err |-> x.refused \/ readBody(x).err,
               body |-> IF x.refused THEN Null ELSE readBody(x).body, discarded |-> FALSE]
    BY <1>1, <1>2 DEF Send
  <2> HIDE DEF res
  <2>2. /\ res.status \in Nat /\ res.err \in BOOLEAN /\ res.body \in Nat \cup {Null} /\ ~res.discarded
        /\ res \in ResultType
    BY <1>1, <2>1, ReadBody DEF ResultType
  <2>3. res.body # Null => res.err \/ ~BreaksOff(x)
    BY <2>1, ReadBody
  <2>4. res.body = Null => res.err
    BY <2>1, ReadBody
  <2>5. parseJSON(res) # "discarded" /\ (parseJSON(res) = "no response" => res.err)
    BY <2>2, <2>4 DEF parseJSON
  <2>6. QED
    BY <1>2, <2>2, <2>3, <2>5 DEF res
<1>3. CASE ~KeepBody(r, x)
  <2>1. res = [status |-> IF x.refused THEN 0 ELSE x.status, err |-> x.refused \/ BreaksOff(x),
               body |-> Null, discarded |-> TRUE]
    BY <1>1, <1>3 DEF Send
  <2> HIDE DEF res
  <2>2. res \in ResultType /\ res.body = Null /\ res.discarded
    BY <1>1, <2>1 DEF ResultType
  <2>3. parseJSON(res) = "discarded"
    BY <2>2 DEF parseJSON
  <2>4. QED
    BY <1>3, <2>2, <2>3 DEF res
<1>4. QED
  BY <1>1, <1>2, <1>3

-----------------------------------------------------------------------------
(* Cookies *)

\* SetIn of a history ex of exchanges, and what puts cookie c in it.
SetInOf(ex, session) ==
    {c \in UNION {ex[j].traffic.sets : j \in session} :
        \E j \in session :
            /\ c \in ex[j].traffic.sets
            /\ ~ex[j].traffic.refused
            /\ \A k \in session : k > j /\ ~ex[k].traffic.refused => c \notin ex[k].traffic.clears}
Leaves(ex, session, c) ==
    \E j \in session :
        /\ c \in ex[j].traffic.sets
        /\ ~ex[j].traffic.refused
        /\ \A k \in session : k > j /\ ~ex[k].traffic.refused => c \notin ex[k].traffic.clears

LEMMA InSetIn ==
    ASSUME NEW ex, NEW session, NEW c
    PROVE  c \in SetInOf(ex, session) <=> Leaves(ex, session, c)
  BY Zenon DEF SetInOf, Leaves

\* A session's cookies depend on its own exchanges only.
LEMMA SetInSame ==
    ASSUME NEW ex1, NEW ex2, NEW session, \A j \in session : ex1[j] = ex2[j]
    PROVE  SetInOf(ex1, session) = SetInOf(ex2, session)
<1>1. ASSUME NEW c PROVE Leaves(ex1, session, c) <=> Leaves(ex2, session, c)
  BY Zenon DEF Leaves
<1>2. QED
  BY <1>1, InSetIn, Zenon

\* What one more exchange, number n + 1, makes of them.
LEMMA SetInMore ==
    ASSUME NEW n \in Nat, NEW session \in SUBSET (1..n), NEW ex1, NEW ex2,
           \A j \in session : ex1[j] = ex2[j]
    PROVE  SetInOf(ex2, session \cup {n + 1}) =
              IF ex2[n + 1].traffic.refused THEN SetInOf(ex1, session)
              ELSE (SetInOf(ex1, session) \ ex2[n + 1].traffic.clears) \cup ex2[n + 1].traffic.sets
<1> DEFINE x == ex2[n + 1].traffic
           longer == session \cup {n + 1}
<1>1. \A j \in session : n + 1 > j /\ ~(j > n + 1) /\ j # n + 1
  OBVIOUS
<1>2. ~(n + 1 > n + 1)
  OBVIOUS
<1>3. \A c : c \in SetInOf(ex1, session) <=> Leaves(ex1, session, c)
  BY InSetIn
<1>4. \A c : c \in SetInOf(ex2, longer) <=> Leaves(ex2, longer, c)
  BY InSetIn
<1>5. ASSUME x.refused, NEW c
      PROVE  Leaves(ex2, longer, c) <=> Leaves(ex1, session, c)
  BY <1>1, <1>2, <1>5 DEF Leaves
<1>6. ASSUME ~x.refused, NEW c
      PROVE  Leaves(ex2, longer, c) <=> (Leaves(ex1, session, c) /\ c \notin x.clears) \/ c \in x.sets
  <2>1. ASSUME c \in x.sets PROVE Leaves(ex2, longer, c)
    BY <1>1, <1>2, <1>6, <2>1 DEF Leaves
  <2>2. ASSUME Leaves(ex1, session, c), c \notin x.clears PROVE Leaves(ex2, longer, c)
    BY <1>1, <1>2, <1>6, <2>2 DEF Leaves
  <2>3. ASSUME Leaves(ex2, longer, c), c \notin x.sets PROVE Leaves(ex1, session, c) /\ c \notin x.clears
    BY <1>1, <1>2, <1>6, <2>3 DEF Leaves
  <2>4. QED
    BY <2>1, <2>2, <2>3
<1>7. CASE x.refused
  <2>1. SetInOf(ex2, longer) = SetInOf(ex1, session)
    BY <1>3, <1>4, <1>5, <1>7, Zenon
  <2>2. QED
    BY <1>7, <2>1
<1>8. CASE ~x.refused
  <2>1. SetInOf(ex2, longer) = (SetInOf(ex1, session) \ x.clears) \cup x.sets
    BY <1>3, <1>4, <1>6, <1>8, Zenon
  <2>2. QED
    BY <1>8, <2>1
<1>9. QED
  BY <1>7, <1>8, Zenon

-----------------------------------------------------------------------------
(* The steps *)

\* What an exchange appends to the history.
LEMMA Appended ==
    ASSUME SessionTypeOK, NEW r \in Sessions, NEW x \in Traffic, Exchange(r, x)
    PROVE  /\ Len(exchanges) \in Nat /\ Len(exchanges') = Len(exchanges) + 1
           /\ \A i \in 1..Len(exchanges) : exchanges'[i] = exchanges[i] /\ exchanges[i] \in ExchangeType
           /\ exchanges'[Len(exchanges) + 1] =
                 [runtime |-> r, round |-> round[r], traffic |-> x, sent |-> CookiesSent(r, x), res |-> Send(r, x)]
           /\ exchanges' \in Seq(ExchangeType)
<1> DEFINE e == [runtime |-> r, round |-> round[r], traffic |-> x, sent |-> CookiesSent(r, x), res |-> Send(r, x)]
<1>1. exchanges \in Seq(ExchangeType) /\ exchanges' = Append(exchanges, e)
  BY DEF Exchange, SessionTypeOK
<1>2. e \in ExchangeType
  <2>1. Send(r, x) \in ResultType
    BY SendTold
  <2>2. CookiesSent(r, x) \in SUBSET STRING
    BY TrafficTyped DEF CookiesSent, SessionTypeOK
  <2>3. round[r] \in Nat
    BY DEF SessionTypeOK
  <2>4. QED
    BY <2>1, <2>2, <2>3 DEF ExchangeType
<1> HIDE DEF e
<1>3. /\ Len(exchanges) \in Nat /\ Len(exchanges') = Len(exchanges) + 1
      /\ \A i \in 1..Len(exchanges) : exchanges'[i] = exchanges[i] /\ exchanges[i] \in ExchangeType
      /\ exchanges'[Len(exchanges) + 1] = e /\ exchanges' \in Seq(ExchangeType)
  BY <1>1, <1>2
<1>4. QED
  BY <1>3 DEF e

\* Every step keeps the types, and the program's options as they are.
LEMMA SessionTypeStep ==
    ASSUME SessionTypeOK, [SessionNext]_sessionVars
    PROVE  SessionTypeOK' /\ options' = options
<1>1. 0 \in Sessions /\ \A v \in Sessions \ {0} : v \in Sessions
  BY SessionAssumption DEF Sessions
<1>2. ASSUME CallLifecycle PROVE SessionTypeOK' /\ options' = options
  BY <1>1, <1>2 DEF CallLifecycle, SessionTypeOK
<1>3. ASSUME NEW v \in Sessions \ {0}, Iterate(v) PROVE SessionTypeOK' /\ options' = options
  <2>1. jar' \in [Sessions -> SUBSET STRING]
    BY <1>3 DEF Iterate, SessionTypeOK
  <2>2. round' \in [Sessions -> Nat]
    BY <1>3 DEF Iterate, SessionTypeOK
  <2>3. QED
    BY <1>3, <2>1, <2>2 DEF Iterate, SessionTypeOK
<1>4. ASSUME NEW r \in Sessions, NEW x \in Traffic, Exchange(r, x) PROVE SessionTypeOK' /\ options' = options
  <2>1. jar' \in [Sessions -> SUBSET STRING]
    <3>1. (jar[r] \ x.clears) \cup x.sets \in SUBSET STRING
      BY TrafficTyped DEF SessionTypeOK
    <3>2. QED
      BY <1>4, <3>1 DEF Exchange, SessionTypeOK
  <2>2. exchanges' \in Seq(ExchangeType)
    BY <1>4, Appended
  <2>3. QED
    BY <1>4, <2>1, <2>2 DEF Exchange, SessionTypeOK
<1>5. ASSUME NEW r \in Sessions, ReturnOrThrow(r) PROVE SessionTypeOK' /\ options' = options
  BY <1>5 DEF ReturnOrThrow, SessionTypeOK
<1>6. ASSUME UNCHANGED sessionVars PROVE SessionTypeOK' /\ options' = options
  BY <1>6 DEF sessionVars, SessionTypeOK
<1>7. QED
  BY <1>2, <1>3, <1>4, <1>5, <1>6 DEF SessionNext

\* Exchanges stay in functions that their runtime began.
LEMMA ExchangeStep ==
    ASSUME SessionTypeOK, ExchangeInv, [SessionNext]_sessionVars
    PROVE  ExchangeInv'
<1>1. options' = options /\ SessionTypeOK'
  BY SessionTypeStep
<1>2. \A r, x : Send(r, x)' = Send(r, x)
  <2>1. \A r, x : KeepBody(r, x)' = KeepBody(r, x)
    BY <1>1, Zenon DEF KeepBody
  <2>2. ASSUME NEW r, NEW x PROVE Send(r, x)' = Send(r, x)
    <3>1. KeepBody(r, x)' = KeepBody(r, x)
      BY <2>1, Zenon
    <3>2. CASE KeepBody(r, x)
      BY <3>1, <3>2, SMT DEF Send
    <3>3. CASE ~KeepBody(r, x)
      BY <3>1, <3>3, SMT DEF Send
    <3>4. QED
      BY <3>2, <3>3
  <2>3. QED
    BY <2>2
<1>3. \A i \in 1..Len(exchanges) : exchanges[i] \in ExchangeType
  BY DEF SessionTypeOK
<1>4. ASSUME NEW n \in 1..Len(exchanges), exchanges'[n] = exchanges[n], \A r \in Sessions : round[r] <= round'[r]
      PROVE  /\ exchanges'[n].round <= round'[exchanges'[n].runtime]
             /\ exchanges'[n].res = Send(exchanges'[n].runtime, exchanges'[n].traffic)
  <2>1. exchanges[n].runtime \in Sessions /\ exchanges[n].round \in Nat
    BY <1>3 DEF ExchangeType
  <2>2. round[exchanges[n].runtime] \in Nat /\ round'[exchanges[n].runtime] \in Nat
    BY <1>1, <2>1 DEF SessionTypeOK
  <2>3. exchanges[n].round <= round'[exchanges[n].runtime]
    BY <1>4, <2>1, <2>2 DEF ExchangeInv
  <2>4. exchanges[n].res = Send(exchanges[n].runtime, exchanges[n].traffic)
    BY DEF ExchangeInv
  <2>5. QED
    BY <1>4, <2>3, <2>4
<1>5. ASSUME exchanges' = exchanges, \A r \in Sessions : round[r] <= round'[r] PROVE ExchangeInv'
  BY <1>2, <1>4, <1>5 DEF ExchangeInv
<1>6. ASSUME CallLifecycle PROVE ExchangeInv'
  BY <1>5, <1>6 DEF CallLifecycle, SessionTypeOK
<1>7. ASSUME NEW v \in Sessions \ {0}, Iterate(v) PROVE ExchangeInv'
  BY <1>5, <1>7 DEF Iterate, SessionTypeOK
<1>8. ASSUME NEW r \in Sessions, NEW x \in Traffic, Exchange(r, x) PROVE ExchangeInv'
  <2>1. round' = round /\ round[r] \in Nat /\ \A q \in Sessions : round[q] <= round'[q]
    BY <1>8 DEF Exchange, SessionTypeOK
  <2>2. SUFFICES ASSUME NEW i \in 1..Len(exchanges')
                 PROVE  /\ exchanges'[i].round <= round'[exchanges'[i].runtime]
                        /\ exchanges'[i].res = Send(exchanges'[i].runtime, exchanges'[i].traffic)
    BY <1>2 DEF ExchangeInv
  <2>3. CASE i \in 1..Len(exchanges)
    BY <1>4, <1>8, <2>1, <2>3, Appended
  <2>4. CASE i = Len(exchanges) + 1
    <3>1. exchanges'[i] = [runtime |-> r, round |-> round[r], traffic |-> x,
                           sent |-> CookiesSent(r, x), res |-> Send(r, x)]
      BY <1>8, <2>4, Appended, Zenon
    <3>2. QED
      BY <2>1, <3>1
  <2>5. Len(exchanges) \in Nat /\ Len(exchanges') = Len(exchanges) + 1
    BY <1>8, Appended, Zenon
  <2>6. QED
    BY <2>3, <2>4, <2>5
<1>9. ASSUME NEW r \in Sessions, ReturnOrThrow(r) PROVE ExchangeInv'
  BY <1>5, <1>9 DEF ReturnOrThrow, SessionTypeOK
<1>10. ASSUME UNCHANGED sessionVars PROVE ExchangeInv'
  BY <1>5, <1>10 DEF sessionVars, SessionTypeOK
<1>11. QED
  BY <1>6, <1>7, <1>8, <1>9, <1>10 DEF SessionNext

LEMMA JarIs ==
    /\ JarInv <=> \A r \in Sessions : jar[r] = SetInOf(exchanges, SessionOf(r))
    /\ JarInv' <=> \A r \in Sessions : jar'[r] = SetInOf(exchanges', SessionOf(r)')
  BY Zenon DEF JarInv, SetIn, SetInOf

\* Every step takes a jar along with its session: an iteration begins a new one
\* unless cookies are kept, an answer that arrives sets and clears, and nothing
\* that another runtime does changes it.
LEMMA JarStep ==
    ASSUME SessionTypeOK, ExchangeInv, JarInv, [SessionNext]_sessionVars
    PROVE  JarInv'
<1>1. options' = options /\ SessionTypeOK'
  BY SessionTypeStep
<1>2. ASSUME NEW q \in Sessions, jar'[q] = jar[q], exchanges' = exchanges, SessionOf(q)' = SessionOf(q)
      PROVE  jar'[q] = SetInOf(exchanges', SessionOf(q)')
  BY <1>2, JarIs
<1>3. ASSUME jar' = jar, exchanges' = exchanges, round' = round PROVE JarInv'
  <2>1. \A q : SessionOf(q)' = SessionOf(q)
    BY <1>1, <1>3 DEF SessionOf
  <2>2. QED
    BY <1>2, <1>3, <2>1, JarIs
<1>4. ASSUME CallLifecycle PROVE JarInv'
  <2>1. /\ jar' = jar /\ exchanges' = exchanges
        /\ \A q \in Sessions : q # 0 => round'[q] = round[q]
    BY <1>4 DEF CallLifecycle, SessionTypeOK
  <2>2. \A q \in Sessions : SessionOf(q)' = SessionOf(q)
    BY <1>1, <2>1 DEF SessionOf
  <2>3. QED
    BY <1>2, <2>1, <2>2, JarIs
<1>5. ASSUME NEW v \in Sessions \ {0}, Iterate(v) PROVE JarInv'
  <2>1. /\ exchanges' = exchanges
        /\ jar' = IF options.keepCookies THEN jar ELSE [jar EXCEPT ![v] = {}]
        /\ \A q \in Sessions : q # v => round'[q] = round[q]
        /\ round'[v] = round[v] + 1 /\ round[v] \in Nat
    BY <1>5 DEF Iterate, SessionTypeOK
  <2>2. SUFFICES ASSUME NEW q \in Sessions PROVE jar'[q] = SetInOf(exchanges', SessionOf(q)')
    BY JarIs
  <2>3. CASE q # v \/ options.keepCookies
    <3>1. jar'[q] = jar[q]
      BY <2>1, <2>3 DEF SessionTypeOK
    <3>2. SessionOf(q)' = SessionOf(q)
      BY <1>1, <2>1, <2>3 DEF SessionOf
    <3>3. QED
      BY <1>2, <2>1, <3>1, <3>2
  <2>4. CASE q = v /\ ~options.keepCookies
    <3>1. jar'[v] = {}
      BY <2>1, <2>4 DEF SessionTypeOK
    <3>2. ASSUME NEW j \in 1..Len(exchanges), exchanges[j].runtime = v PROVE exchanges[j].round # round'[v]
      <4>1. exchanges[j] \in ExchangeType
        BY DEF SessionTypeOK
      <4>2. exchanges[j].round \in Nat /\ exchanges[j].round <= round[v]
        BY <3>2, <4>1 DEF ExchangeInv, ExchangeType
      <4>3. QED
        BY <2>1, <4>2
    <3>3. SessionOf(v)' = {}
      BY <1>1, <2>1, <2>4, <3>2 DEF SessionOf
    <3>4. SetInOf(exchanges', {}) = {}
      BY DEF SetInOf
    <3>5. QED
      BY <2>4, <3>1, <3>3, <3>4
  <2>5. QED
    BY <2>3, <2>4
<1>6. ASSUME NEW r \in Sessions, NEW x \in Traffic, Exchange(r, x) PROVE JarInv'
  <2>1. /\ round' = round /\ jar \in [Sessions -> SUBSET STRING]
        /\ jar' = IF x.refused THEN jar ELSE [jar EXCEPT ![r] = (@ \ x.clears) \cup x.sets]
    BY <1>6 DEF Exchange, SessionTypeOK
  <2> DEFINE n == Len(exchanges)
  <2>2. /\ n \in Nat /\ Len(exchanges') = n + 1 /\ \A i \in 1..n : exchanges'[i] = exchanges[i]
        /\ exchanges'[n + 1] = [runtime |-> r, round |-> round[r], traffic |-> x,
                                sent |-> CookiesSent(r, x), res |-> Send(r, x)]
    BY <1>6, Appended, Zenon
  <2>3. exchanges'[n + 1].runtime = r /\ exchanges'[n + 1].round = round[r] /\ exchanges'[n + 1].traffic = x
    BY <2>2
  <2>4. \A q : SessionOf(q) \in SUBSET (1..n)
    BY DEF SessionOf
  <2> HIDE DEF n
  <2>5. ASSUME NEW q \in Sessions PROVE SessionOf(q)' = IF q = r THEN SessionOf(q) \cup {n + 1} ELSE SessionOf(q)
    <3>1. 1..Len(exchanges') = 1..n \cup {n + 1} /\ n + 1 \notin 1..n
      BY <2>2
    <3>2. SessionOf(q)' = {j \in 1..n \cup {n + 1} :
                            /\ exchanges'[j].runtime = q
                            /\ exchanges'[j].round = round[q] \/ q = 0 \/ options.keepCookies}
      BY <1>1, <2>1, <3>1 DEF SessionOf
    <3>3. SessionOf(q) = {j \in 1..n :
                            /\ exchanges'[j].runtime = q
                            /\ exchanges'[j].round = round[q] \/ q = 0 \/ options.keepCookies}
      BY <2>2 DEF SessionOf, n
    <3>4. QED
      BY <2>3, <3>2, <3>3
  <2>6. SUFFICES ASSUME NEW q \in Sessions PROVE jar'[q] = SetInOf(exchanges', SessionOf(q)')
    BY JarIs
  <2>7. \A j \in SessionOf(q) : exchanges[j] = exchanges'[j]
    BY <2>2, <2>4
  <2>8. jar[q] = SetInOf(exchanges, SessionOf(q))
    BY JarIs
  <2>9. CASE q = r
    <3>1. PICK session : session = SessionOf(q)
      OBVIOUS
    <3>2. SetInOf(exchanges', session \cup {n + 1}) =
             IF x.refused THEN SetInOf(exchanges, session)
             ELSE (SetInOf(exchanges, session) \ x.clears) \cup x.sets
      <4>1. n \in Nat /\ session \in SUBSET (1..n) /\ \A j \in session : exchanges[j] = exchanges'[j]
        BY <2>2, <2>4, <2>7, <3>1
      <4>2. SetInOf(exchanges', session \cup {n + 1}) =
               IF exchanges'[n + 1].traffic.refused THEN SetInOf(exchanges, session)
               ELSE (SetInOf(exchanges, session) \ exchanges'[n + 1].traffic.clears) \cup exchanges'[n + 1].traffic.sets
        BY <4>1, SetInMore, Zenon
      <4>3. QED
        BY <2>3, <4>2
    <3>3. jar'[q] = IF x.refused THEN jar[q] ELSE (jar[q] \ x.clears) \cup x.sets
      BY <2>1, <2>9
    <3>4. QED
      BY <2>5, <2>8, <2>9, <3>1, <3>2, <3>3
  <2>10. CASE q # r
    <3>1. SetInOf(exchanges, SessionOf(q)) = SetInOf(exchanges', SessionOf(q))
      BY <2>7, SetInSame
    <3>2. jar'[q] = jar[q]
      BY <2>1, <2>10
    <3>3. QED
      BY <2>5, <2>8, <2>10, <3>1, <3>2
  <2>11. QED
    BY <2>9, <2>10
<1>7. ASSUME NEW r \in Sessions, ReturnOrThrow(r) PROVE JarInv'
  BY <1>3, <1>7 DEF ReturnOrThrow
<1>8. ASSUME UNCHANGED sessionVars PROVE JarInv'
  BY <1>3, <1>8 DEF sessionVars
<1>9. QED
  BY <1>4, <1>5, <1>6, <1>7, <1>8 DEF SessionNext

\* What an exchange has sent stays what its session had set by then.
LEMMA CookieStep ==
    ASSUME SessionTypeOK, ExchangeInv, JarInv, CookieInv, [SessionNext]_sessionVars
    PROVE  CookieInv'
<1>1. options' = options
  BY SessionTypeStep
<1>2. /\ CookieInv <=> \A i \in 1..Len(exchanges) :
            exchanges[i].sent = SetInOf(exchanges, Earlier(i)) \cup exchanges[i].traffic.cookies
      /\ CookieInv' <=> \A i \in 1..Len(exchanges') :
            exchanges'[i].sent = SetInOf(exchanges', Earlier(i)') \cup exchanges'[i].traffic.cookies
  BY Zenon DEF CookieInv, CookiesOfItsSession, SetIn, SetInOf
<1>3. ASSUME exchanges' = exchanges PROVE CookieInv'
  <2>1. \A i : Earlier(i)' = Earlier(i)
    BY <1>1, <1>3 DEF Earlier
  <2>2. QED
    BY <1>2, <1>3, <2>1
<1>4. ASSUME NEW r \in Sessions, NEW x \in Traffic, Exchange(r, x) PROVE CookieInv'
  <2> DEFINE n == Len(exchanges)
  <2>1. /\ n \in Nat /\ Len(exchanges') = n + 1 /\ \A i \in 1..n : exchanges'[i] = exchanges[i]
        /\ exchanges'[n + 1] = [runtime |-> r, round |-> round[r], traffic |-> x,
                                sent |-> CookiesSent(r, x), res |-> Send(r, x)]
    BY <1>4, Appended, Zenon
  <2>2. /\ exchanges'[n + 1].runtime = r /\ exchanges'[n + 1].round = round[r] /\ exchanges'[n + 1].traffic = x
        /\ exchanges'[n + 1].sent = jar[r] \cup x.cookies
    BY <2>1 DEF CookiesSent
  <2>3. CookieInv => \A i \in 1..n :
            exchanges[i].sent = SetInOf(exchanges, Earlier(i)) \cup exchanges[i].traffic.cookies
    BY <1>2
  <2>4. JarInv => jar[r] = SetInOf(exchanges, SessionOf(r))
    BY JarIs
  <2>5. SessionOf(r) = {j \in 1..n : /\ exchanges[j].runtime = r
                                     /\ exchanges[j].round = round[r] \/ r = 0 \/ options.keepCookies}
    BY DEF SessionOf
  <2> HIDE DEF n
  <2>6. SUFFICES ASSUME NEW i \in 1..(n + 1)
                 PROVE  exchanges'[i].sent = SetInOf(exchanges', Earlier(i)') \cup exchanges'[i].traffic.cookies
    BY <1>2, <2>1
  <2>7. i \in Nat /\ \A j \in 1 .. i - 1 : j \in 1..n
    BY <2>1
  <2>8. Earlier(i)' = {j \in 1 .. i - 1 : /\ exchanges'[j].runtime = exchanges'[i].runtime
                                          /\ \/ exchanges'[j].round = exchanges'[i].round
                                             \/ exchanges'[j].runtime = 0
                                             \/ options.keepCookies}
    BY <1>1 DEF Earlier
  <2>9. \A j \in Earlier(i)' : exchanges[j] = exchanges'[j]
    BY <2>1, <2>7, <2>8
  <2>10. SetInOf(exchanges, Earlier(i)') = SetInOf(exchanges', Earlier(i)')
    BY <2>9, SetInSame
  <2>11. CASE i \in 1..n
    <3>1. Earlier(i)' = Earlier(i)
      BY <2>1, <2>7, <2>8, <2>11 DEF Earlier
    <3>2. QED
      BY <2>1, <2>3, <2>10, <2>11, <3>1
  <2>12. CASE i = n + 1
    <3>1. 1 .. i - 1 = 1..n
      BY <2>1, <2>12
    <3>2. Earlier(i)' = SessionOf(r)
      BY <2>1, <2>2, <2>5, <2>8, <2>12, <3>1
    <3>3. QED
      BY <2>2, <2>4, <2>10, <2>12, <3>2
  <2>13. QED
    BY <2>1, <2>11, <2>12
<1>5. exchanges' = exchanges \/ \E r \in Sessions, x \in Traffic : Exchange(r, x)
  BY DEF SessionNext, sessionVars, CallLifecycle, Iterate, ReturnOrThrow
<1>6. QED
  BY <1>3, <1>4, <1>5

-----------------------------------------------------------------------------
(* The theorems *)

\* The inductive invariant of a test's sessions: a jar holds the cookies of the
\* session its runtime is in.
THEOREM SessionInvariance == SessionSpec => []SessionInv
<1>1. SessionInit => SessionInv
  <2> SUFFICES ASSUME SessionInit PROVE SessionInv
    OBVIOUS
  <2>1. exchanges = <<>> /\ Len(exchanges) = 0 /\ 1..Len(exchanges) = {}
    BY DEF SessionInit
  <2>2. SessionTypeOK /\ ExchangeInv /\ CookieInv
    BY <2>1 DEF SessionInit, SessionTypeOK, ExchangeInv, CookieInv
  <2>3. JarInv
    <3>1. \A r \in Sessions : jar[r] = {} /\ SessionOf(r) = {}
      BY <2>1 DEF SessionInit, SessionOf
    <3>2. SetInOf(exchanges, {}) = {}
      BY DEF SetInOf
    <3>3. QED
      BY <3>1, <3>2, JarIs
  <2>4. QED
    BY <2>2, <2>3 DEF SessionInv
<1>2. SessionInv /\ [SessionNext]_sessionVars => SessionInv'
  BY SessionTypeStep, ExchangeStep, JarStep, CookieStep DEF SessionInv
<1>3. QED
  BY <1>1, <1>2, PTL DEF SessionSpec

\* VU.Iterate, Lifecycle.call, readBody and parseJSON: for any number of VUs and
\* of iterations, and whatever is asked for and answered, a request carries the
\* cookies of its own session and no other's, and the script is told why a body
\* is missing or cut short.
THEOREM SessionsStayApart == SessionSpec => []SessionsHonest
<1>1. SessionInv => SessionsHonest
  <2> SUFFICES ASSUME SessionInv, NEW i \in DOMAIN exchanges
               PROVE  CookiesOfItsSession(i) /\ BodyTold(i)
    BY DEF SessionsHonest
  <2>1. i \in 1..Len(exchanges) /\ exchanges[i] \in ExchangeType
    BY DEF SessionInv, SessionTypeOK
  <2>2. CookiesOfItsSession(i)
    BY <2>1 DEF SessionInv, CookieInv
  <2>3. exchanges[i].res = Send(exchanges[i].runtime, exchanges[i].traffic)
    BY <2>1 DEF SessionInv, ExchangeInv
  <2>4. exchanges[i].runtime \in Sessions /\ exchanges[i].traffic \in Traffic
    BY <2>1 DEF ExchangeType
  <2>5. BodyTold(i)
    BY <2>3, <2>4, SendTold, Zenon DEF BodyTold
  <2>6. QED
    BY <2>2, <2>5
<1>2. QED
  BY <1>1, SessionInvariance, PTL
=============================================================================
