-------------------------- MODULE FlashGateProofs --------------------------
(***************************************************************************)
(* Proofs about FlashGate: type correctness, and for every set of threads, *)
(* bundles and policies that destructive commands need their gate and that *)
(* a complete transcript tells the truth.                                  *)
(***************************************************************************)
EXTENDS FlashGate, TLAPS, SequenceTheorems

-----------------------------------------------------------------------------
(* The session states.                                                     *)

\* A dropped or granted transition leaves the session in a known state.
LEMMA SafeTransitionType ==
  ASSUME NEW s \in SessionStateName, NEW t \in SessionStateName
  PROVE  safe_transition(s, t) \in SessionStateName
BY DEF safe_transition

\* The states the cycle and the executor ask for are known.
LEMMA KnownStates ==
  /\ {"RECOMMEND", "BLOCKER_CLASSIFY", "BACKUP_READY", "PREVIEW_BUILD", "PREVIEW_REVIEW",
      "INTERACTIVE_VERIFY", "INSTALL_APPROVAL", "REMEDIATION_DECIDE", "TASK_CREATE",
      "CODEGEN_WRITE", "PATCH_APPLY", "EXECUTE_ARTIFACT", "INSPECT_RESULT",
      "BUILD_GENERIC", "ITERATE", "DEEP_SCAN", "QUESTION_GATE", "FLASH_PREP", "FLASH",
      "PATH_SELECT"} \subseteq SessionStateName
BY DEF SessionStateName, ALLOWED_TRANSITIONS

\* Every run of transitions of a cycle ends in a known state.
LEMMA EndingsType ==
  ASSUME NEW s \in SessionStateName, NEW c
  PROVE  Endings(Classified(s), c) \subseteq SessionStateName
<1>1. ASSUME NEW u \in SessionStateName
      PROVE  /\ Backed(u) \in SessionStateName
             /\ Previewed(u) \in SessionStateName
             /\ Offered(u) \in SessionStateName
             /\ Remediated(u) \in SessionStateName
             /\ safe_transition(u, "BUILD_GENERIC") \in SessionStateName
             /\ safe_transition(u, "ITERATE") \in SessionStateName
             /\ safe_transition(u, "DEEP_SCAN") \in SessionStateName
             /\ safe_transition(u, "QUESTION_GATE") \in SessionStateName
             /\ safe_transition(u, "BLOCKER_CLASSIFY") \in SessionStateName
  BY SafeTransitionType, KnownStates DEF Backed, Previewed, Offered, Remediated, Executed, Written, Tasked
<1>2. Classified(s) \in SessionStateName
  BY SafeTransitionType, KnownStates DEF Classified
<1>3. QED BY <1>1, <1>2 DEF Endings

-----------------------------------------------------------------------------
(* Plans.                                                                  *)

\* The steps of every plan are well formed.
LEMMA PlanStepsType ==
  ASSUME NEW b \in Bundle
  PROVE  PlanSteps(b) \in Seq(Step)
<1>1. \A name \in StepNames : Check(name) \in Step /\ Reboot(name) \in Step
  BY DEF Check, Reboot, Step
<1>2. Wipe \in Step
  BY DEF Wipe, Step, StepNames
<1>3. ASSUME b \in Bundles
      PROVE  [i \in DOMAIN PartsOf[b] |-> Flash(PartsOf[b][i])] \in Seq(Step)
  <2>1. PartsOf[b] \in Seq(Parts)
    BY <1>3, BundlesAssumption
  <2>2. \A i \in DOMAIN PartsOf[b] : Flash(PartsOf[b][i]) \in Step
    BY <2>1 DEF Flash, Step
  <2>3. DOMAIN PartsOf[b] = 1 .. Len(PartsOf[b]) /\ Len(PartsOf[b]) \in Nat
    BY <2>1
  <2>4. QED BY <2>2, <2>3
<1>4. ASSUME b \in Bundles
      PROVE  Prepare(ModeOf[b]) \in Seq(Step)
  BY <1>1, <1>2, <1>4, BundlesAssumption DEF Prepare, Modes, StepNames
<1>5. <<Check("preflight_checks"), Check("verify_backup_bundle"), Check("restore_checkpoint")>> \in Seq(Step)
  BY <1>1 DEF StepNames
<1>6. <<Check("boot_validation")>> \in Seq(Step)
  BY <1>1 DEF StepNames
<1>7. CASE b = NoBundle
  BY <1>5, <1>6, <1>7 DEF PlanSteps
<1>8. CASE b \in Bundles
  <2> DEFINE F == [i \in DOMAIN PartsOf[b] |-> Flash(PartsOf[b][i])]
             H == <<Check("preflight_checks"), Check("verify_backup_bundle"), Check("restore_checkpoint")>>
             T == <<Check("boot_validation")>>
  <2>1. b # NoBundle
    BY <1>8, BundlesAssumption
  <2>2. PlanSteps(b) = (H \o (Prepare(ModeOf[b]) \o F)) \o T
    BY <2>1 DEF PlanSteps
  <2>3. F \in Seq(Step) /\ H \in Seq(Step) /\ T \in Seq(Step) /\ Prepare(ModeOf[b]) \in Seq(Step)
    BY <1>3, <1>4, <1>5, <1>6, <1>8
  <2> HIDE DEF F, H, T
  <2>4. QED BY <2>2, <2>3
<1>9. QED BY <1>7, <1>8 DEF Bundle

\* What a cycle plans is a plan.
LEMMA BuildPlanType ==
  ASSUME NEW c \in Cycles
  PROVE  BuildPlan(c) \in Plans
BY PlanStepsType DEF BuildPlan, Plans, Cycles

\* The panel has its buttons.
LEMMA PanelType ==
  ASSUME NEW p \in Plans, NEW ph, NEW a \in Approvals,
         policy \in [live : BOOLEAN, phrase : BOOLEAN, restore : BOOLEAN]
  PROVE  PanelFor(p, ph, a) \in Buttons
BY DEF PanelFor, Plans, Approvals, Buttons

\* The phase of the runtime plan.
LEMMA PhaseType ==
  ASSUME NEW st, NEW c, NEW g
  PROVE  PhaseFor(st, c, g) \in Phases
BY DEF PhaseFor, DirectPhase, Phases

\* The values the executor and the cycles fall back to.
LEMMA Defaults ==
  NoPlan \in Plans /\ NoExec \in Execs /\ NoCycle \in Cycles /\ NoFiles \in Images
  /\ AllOff \in Buttons /\ NoApproval \in Approvals /\ NoExec.index <= Len(NoExec.plan.steps) + 1
BY DEF NoPlan, Plans, NoExec, Execs, NoCycle, Cycles, CyclePCs, NoFiles, Images, AllOff, Buttons,
       NoApproval, Approvals, Bundle

-----------------------------------------------------------------------------
(* Type correctness.                                                       *)

\* Every initial state is well typed.
LEMMA InitType == Init => TypeOK
<1> SUFFICES ASSUME Init PROVE TypeOK
  OBVIOUS
<1>1. policy \in [live : BOOLEAN, phrase : BOOLEAN, restore : BOOLEAN] /\ changes \in 0 .. MaxChanges
  BY PoliciesAssumption, ChangesAssumption DEF Init
<1>2. cyc \in [Threads -> Cycles] /\ exec \in Execs /\ exec.index <= Len(exec.plan.steps) + 1
  BY Defaults DEF Init
<1>3. transcript \in Transcripts /\ plan \in Plans
  BY Defaults DEF Init, Transcripts, Statuses
<1>4. device \in [wiped : BOOLEAN, images : Images] /\ staged \in Images
  BY Defaults DEF Init
<1>5. phase \in Phases /\ session \in SessionStateName /\ approval \in Approvals /\ panel \in Buttons
  BY Defaults, KnownStates DEF Init, Phases
<1>6. QED BY <1>1, <1>2, <1>3, <1>4, <1>5 DEF Init, TypeOK, Bundle

\* The steps of a cycle keep the types.
LEMMA CycleType ==
  ASSUME TypeOK, NEW t \in Threads, CycleStep(t)
  PROVE  TypeOK'
<1>1. CASE BeginCycle(t)
  BY ZenonT(40), <1>1, Defaults DEF BeginCycle, Began, TypeOK, Cycles, CyclePCs, inputs
<1>2. CASE ClearStaged(t)
  BY <1>2, Defaults DEF ClearStaged, TypeOK, Cycles, CyclePCs, inputs
<1>3. CASE StageImages(t)
  <2>1. staged' \in Images
    BY <1>3 DEF StageImages, TypeOK, Images, Bundle
  <2>2. manifest' \in Bundle /\ UNCHANGED <<inputs, backup, plan, phase, session, approval, panel, exec, transcript, device>>
    BY <1>3 DEF StageImages, TypeOK
  <2>3. cyc' \in [Threads -> Cycles]
    <3>1. [cyc[t] EXCEPT !.pc = "finish", !.bundle = source] \in Cycles
      <4>1. cyc[t] \in Cycles /\ source \in Bundle
        BY DEF TypeOK
      <4>2. QED BY <4>1 DEF Cycles, CyclePCs
    <3>2. cyc' = [cyc EXCEPT ![t] = [cyc[t] EXCEPT !.pc = "finish", !.bundle = source]]
      BY <1>3 DEF StageImages, TypeOK
    <3>3. QED BY <3>1, <3>2 DEF TypeOK
  <2>4. QED BY <2>1, <2>2, <2>3 DEF TypeOK, inputs
<1>4. CASE FinishCycle(t)
  <2>1. session' \in SessionStateName
    BY <1>4, EndingsType DEF FinishCycle, TypeOK
  <2>2. phase' \in Phases
    BY <1>4, PhaseType DEF FinishCycle
  <2>3. QED BY <1>4, <2>1, <2>2 DEF FinishCycle, TypeOK, Cycles, CyclePCs, inputs
<1>5. CASE WritePlan(t)
  <2>1. plan' \in Plans
    BY <1>5, BuildPlanType DEF WritePlan, TypeOK
  <2>2. panel' \in Buttons
    BY <1>5, <2>1, PanelType DEF WritePlan, TypeOK
  <2>3. QED BY <1>5, <2>1, <2>2, Defaults DEF WritePlan, TypeOK, inputs
<1>6. QED BY <1>1, <1>2, <1>3, <1>4, <1>5 DEF CycleStep

\* The operator's actions keep the types.
LEMMA OperatorType ==
  ASSUME TypeOK, Operator
  PROVE  TypeOK'
<1>1. ASSUME NEW lawful \in BOOLEAN, SaveProfile(lawful)
      PROVE  TypeOK'
  <2>1. cyc' \in [Threads -> Cycles]
    BY <1>1, Defaults DEF SaveProfile, Began, TypeOK, Cycles, CyclePCs, Threads
  <2>2. changes' \in 0 .. MaxChanges
    BY <1>1, ChangesAssumption DEF SaveProfile, Change, TypeOK
  <2>3. QED BY <1>1, <2>1, <2>2 DEF SaveProfile, TypeOK
<1>2. CASE RefreshPanel
  BY <1>2, PanelType DEF RefreshPanel, TypeOK, inputs, disk
<1>3. ASSUME NEW phrase \in BOOLEAN, NEW restore \in BOOLEAN, RecordApproval(phrase, restore)
      PROVE  TypeOK'
  <2>1. approval' \in Approvals
    BY <1>3 DEF RecordApproval, Approvals
  <2>2. panel' \in Buttons
    BY <1>3, <2>1, PanelType DEF RecordApproval, TypeOK
  <2>3. QED BY <1>3, <2>1, <2>2 DEF RecordApproval, TypeOK, inputs, disk
<1>4. ASSUME NEW live \in BOOLEAN, ExecuteFlash(live)
      PROVE  TypeOK'
  <2>1. exec' \in Execs /\ exec'.index <= Len(exec'.plan.steps) + 1
    <3>1. CASE backup
      <4>1. plan \in Plans /\ Len(plan.steps) \in Nat
        BY DEF TypeOK, Plans
      <4>2. exec' = [pc |-> "check", live |-> live, plan |-> plan, manifest |-> NoBundle, index |-> 1]
        BY <1>4, <3>1 DEF ExecuteFlash, NoExec
      <4>3. QED BY <4>1, <4>2 DEF Execs, Bundle
    <3>2. CASE ~backup
      BY <1>4, <3>2 DEF ExecuteFlash, TypeOK
    <3>3. QED BY <3>1, <3>2
  <2>2. panel' \in Buttons
    BY <1>4, PanelType DEF ExecuteFlash, TypeOK
  <2>3. QED BY <1>4, <2>1, <2>2 DEF ExecuteFlash, TypeOK, inputs, disk
<1>5. QED BY <1>1, <1>2, <1>3, <1>4 DEF Operator

\* A return of the executor keeps the types it touches.
LEMMA ReturnType ==
  ASSUME TypeOK, NEW status \in Statuses, Return(status)
  PROVE  /\ transcript' \in Transcripts /\ panel' \in Buttons
         /\ exec' \in Execs /\ exec'.index <= Len(exec'.plan.steps) + 1
BY Defaults, PanelType DEF Return, TypeOK, Transcripts, Execs

\* The executor's steps keep the types.
LEMMA ExecutorType ==
  ASSUME TypeOK, Executor
  PROVE  TypeOK'
<1>1. CASE CheckGates
  <2>1. Refusal(exec.plan) \in Statuses
    BY DEF Refusal, Statuses
  <2>2. CASE Refusal(exec.plan) # "none"
    BY <1>1, <2>1, <2>2, ReturnType DEF CheckGates, TypeOK, inputs, disk
  <2>3. CASE Refusal(exec.plan) = "none"
    <3>1. exec' = [exec EXCEPT !.pc = "steps", !.manifest = manifest]
          /\ UNCHANGED <<inputs, disk, approval, panel, cyc, transcript, device>>
      BY <1>1, <2>3 DEF CheckGates
    <3>2. exec' \in Execs /\ exec'.index <= Len(exec'.plan.steps) + 1
      BY <3>1 DEF TypeOK, Execs, disk
    <3>3. QED BY <3>1, <3>2 DEF TypeOK, inputs, disk
  <2>4. QED BY <2>2, <2>3
<1>2. ASSUME InSteps, Advance
      PROVE  exec' \in Execs /\ exec'.index <= Len(exec'.plan.steps) + 1
  <2>1. exec.plan.steps \in Seq(Step) /\ exec.index \in Nat
    BY DEF TypeOK, Execs, Plans
  <2>2. QED BY <1>2, <2>1 DEF InSteps, Advance, TypeOK, Execs
<1>3. CASE RecordStep
  BY <1>2, <1>3 DEF RecordStep, TypeOK, inputs, disk
<1>4. CASE RunCommand
  <2>1. Current \in Step
    BY <1>4 DEF RunCommand, InSteps, Current, TypeOK, Execs, Plans
  <2>2. ASSUME Current.kind = "flash"
        PROVE  Current.name \in Parts /\ ImageFor(Current.name) \in Bundle
    BY <2>1, <2>2 DEF Step, ImageFor, TypeOK, Images, Bundle
  <2>3. device' \in [wiped : BOOLEAN, images : Images]
    BY <1>4, <2>2 DEF RunCommand, TypeOK, Images
  <2>4. QED BY SMTT(30), <1>2, <1>4, <2>3 DEF RunCommand, TypeOK, inputs, disk
<1>5. CASE FailCommand
  BY <1>5, ReturnType DEF FailCommand, TypeOK, Statuses, inputs, disk
<1>6. CASE FinishExec
  <2>1. session' \in SessionStateName
    BY <1>6, SafeTransitionType, KnownStates DEF FinishExec, TypeOK
  <2>2. QED BY <1>6, <2>1, ReturnType DEF FinishExec, TypeOK, Statuses, inputs
<1>7. QED BY <1>1, <1>3, <1>4, <1>5, <1>6 DEF Executor

\* The environment keeps the types.
LEMMA EnvironmentType ==
  ASSUME TypeOK, Environment
  PROVE  TypeOK'
<1>1. ASSUME Change
      PROVE  changes' \in 0 .. MaxChanges
  BY <1>1, ChangesAssumption DEF Change, TypeOK
<1>2. ASSUME NEW b \in Bundle, SourceChanges(b)
      PROVE  TypeOK'
  BY <1>1, <1>2 DEF SourceChanges, TypeOK, disk
<1>3. ASSUME NEW b \in BOOLEAN, Reassess(b)
      PROVE  TypeOK'
  BY <1>1, <1>3 DEF Reassess, TypeOK, disk
<1>4. CASE Crash
  BY <1>1, <1>4, Defaults DEF Crash, TypeOK, disk
<1>5. QED BY <1>2, <1>3, <1>4 DEF Environment

\* Files, memory and device keep their types in every behaviour.
THEOREM TypeCorrect == Spec => []TypeOK
<1>1. Init => TypeOK
  BY InitType
<1>2. TypeOK /\ [Next]_vars => TypeOK'
  <2>1. ASSUME TypeOK, Next PROVE TypeOK'
    BY <2>1, CycleType, OperatorType, ExecutorType, EnvironmentType DEF Next
  <2>2. ASSUME TypeOK, UNCHANGED vars PROVE TypeOK'
    BY <2>2 DEF vars, TypeOK
  <2>3. QED BY <2>1, <2>2
<1>3. QED BY <1>1, <1>2, PTL DEF Spec
-----------------------------------------------------------------------------
(* Destructive commands need their gate.  What the executor has checked    *)
(* stays true while it runs: approvals are recorded on its own thread only *)
(* and a backup is never removed.                                          *)

GateMet ==
  /\ approval.approved
  /\ policy.phrase => approval.phrase
  /\ policy.restore => approval.restore /\ exec.plan.restore

GateInv ==
  /\ exec.pc # "idle" => backup
  /\ exec.pc = "steps" => GateMet

\* The checks let an execution into its steps only when the gate is met.
LEMMA RefusalMeetsGate ==
  ASSUME TypeOK, Refusal(exec.plan) = "none"
  PROVE  GateMet
BY DEF Refusal, GateMet, TypeOK, Approvals

\* The gate holds in every reachable state.
LEMMA GateInductive ==
  ASSUME TypeOK, GateInv, [Next]_vars
  PROVE  GateInv'
<1>1. ASSUME UNCHANGED <<policy, approval, exec>>, backup' = backup \/ backup'
      PROVE  GateInv'
  BY <1>1 DEF GateInv, GateMet
<1>2. ASSUME exec' = NoExec
      PROVE  GateInv'
  BY <1>2 DEF GateInv, NoExec
<1>3. ASSUME NEW t \in Threads, CycleStep(t)
      PROVE  GateInv'
  BY <1>1, <1>3 DEF CycleStep, BeginCycle, ClearStaged, StageImages, FinishCycle, WritePlan, inputs
<1>4. CASE Operator
  <2>1. ASSUME NEW lawful \in BOOLEAN, SaveProfile(lawful)
        PROVE  GateInv'
    BY <1>1, <2>1 DEF SaveProfile
  <2>2. CASE RefreshPanel
    BY <1>1, <2>2 DEF RefreshPanel, inputs, disk
  <2>3. ASSUME NEW phrase \in BOOLEAN, NEW restore \in BOOLEAN, RecordApproval(phrase, restore)
        PROVE  GateInv'
    BY <2>3 DEF RecordApproval, GuiFree, GateInv
  <2>4. ASSUME NEW live \in BOOLEAN, ExecuteFlash(live)
        PROVE  GateInv'
    BY <2>4 DEF ExecuteFlash, GuiFree, NoExec, GateInv, disk
  <2>5. QED BY <1>4, <2>1, <2>2, <2>3, <2>4 DEF Operator
<1>5. CASE Executor
  <2>1. CASE CheckGates
    <3>1. CASE Refusal(exec.plan) # "none"
      BY <1>2, <2>1, <3>1 DEF CheckGates, Return
    <3>2. CASE Refusal(exec.plan) = "none"
      <4>1. GateMet
        BY <3>2, RefusalMeetsGate
      <4>2. UNCHANGED <<policy, approval, backup>> /\ exec'.plan = exec.plan
        BY <2>1, <3>2 DEF CheckGates, inputs, disk, TypeOK, Execs
      <4>3. backup
        BY <2>1 DEF CheckGates, GateInv
      <4>4. QED BY <4>1, <4>2, <4>3 DEF GateInv, GateMet
    <3>3. QED BY <3>1, <3>2
  <2>2. ASSUME Advance, UNCHANGED <<policy, approval, backup>>
        PROVE  GateInv'
    BY <2>2 DEF Advance, GateInv, GateMet, TypeOK, Execs
  <2>3. CASE RecordStep
    BY <2>2, <2>3 DEF RecordStep, inputs, disk
  <2>4. CASE RunCommand
    BY <2>2, <2>4 DEF RunCommand, inputs, disk
  <2>5. CASE FailCommand
    BY <1>2, <2>5 DEF FailCommand, Return
  <2>6. CASE FinishExec
    BY <1>2, <2>6 DEF FinishExec, Return
  <2>7. QED BY <1>5, <2>1, <2>3, <2>4, <2>5, <2>6 DEF Executor
<1>6. CASE Environment
  BY <1>1, <1>2, <1>6 DEF Environment, SourceChanges, Reassess, Crash, disk
<1>7. CASE UNCHANGED vars
  BY <1>1, <1>7 DEF vars
<1>8. QED BY <1>3, <1>4, <1>5, <1>6, <1>7 DEF Next

\* Only a live command of an execution in its steps touches the device.
LEMMA OnlyCommandsTouch ==
  ASSUME Next, device' # device
  PROVE  RunCommand
<1>1. ~ \E t \in Threads : CycleStep(t)
  BY DEF CycleStep, BeginCycle, ClearStaged, StageImages, FinishCycle, WritePlan
<1>2. ~ Operator
  BY DEF Operator, SaveProfile, RefreshPanel, RecordApproval, ExecuteFlash
<1>3. ~ Environment
  BY DEF Environment, SourceChanges, Reassess, Crash
<1>4. Executor
  BY <1>1, <1>2, <1>3 DEF Next
<1>5. QED BY <1>4 DEF Executor, CheckGates, RecordStep, FailCommand, FinishExec

\* For every policy, set of bundles and set of threads: a command that erases or flashes
\* the device is sent only when the flash executor's gate is met at that moment.
THEOREM GateTheorem == Spec => DestructiveNeedsGate
<1>1. Init => GateInv
  BY DEF Init, GateInv, NoExec
<1>2. TypeOK /\ GateInv /\ [Next]_vars => GateInv'
  BY GateInductive
<1>3. ASSUME GateInv, Next, device' # device
      PROVE  /\ policy.live /\ backup
             /\ approval.approved
             /\ policy.phrase => approval.phrase
             /\ policy.restore => approval.restore /\ exec.plan.restore
  <2>1. RunCommand
    BY <1>3, OnlyCommandsTouch
  <2>2. exec.pc = "steps" /\ policy.live
    BY <2>1 DEF RunCommand, InSteps, Live
  <2>3. QED BY <1>3, <2>2 DEF GateInv, GateMet
<1>4. GateInv /\ [Next]_vars
        => [device' # device =>
              /\ policy.live /\ backup
              /\ approval.approved
              /\ policy.phrase => approval.phrase
              /\ policy.restore => approval.restore /\ exec.plan.restore]_vars
  BY <1>3
<1>5. QED BY <1>1, <1>2, <1>4, TypeCorrect, PTL DEF Spec, DestructiveNeedsGate
-----------------------------------------------------------------------------
(* A complete transcript tells the truth.  The executor's loop invariant:  *)
(* what lies behind its index has reached the device.                      *)

Done(step) ==
  /\ step.kind = "flash" => device.images[step.name] # NoBundle
  /\ step.kind = "wipe" => device.wiped

LoopInv ==
  /\ exec.pc = "check" => exec.index = 1
  /\ exec.pc = "steps" /\ Live => \A i \in 1 .. exec.index - 1 : Done(exec.plan.steps[i])
  /\ CompleteMeansInstalled

\* What has reached the device stays there.
LEMMA DoneStays ==
  ASSUME TypeOK, [Next]_vars, NEW step \in Step, Done(step)
  PROVE  Done(step)'
<1>1. CASE device' = device
  BY <1>1 DEF Done
<1>2. CASE device' # device
  <2>1. RunCommand
    BY <1>2, OnlyCommandsTouch DEF vars
  <2>2. device \in [wiped : BOOLEAN, images : Images]
    BY DEF TypeOK
  <2>3. CASE Current.kind = "wipe"
    <3>1. device'.images = device.images /\ device'.wiped
      BY <2>1, <2>2, <2>3 DEF RunCommand
    <3>2. QED BY <3>1 DEF Done
  <2>4. CASE Current.kind = "flash"
    <3>1. device'.wiped = device.wiped
      BY <2>1, <2>2, <2>4 DEF RunCommand
    <3>2. Current.name \in Parts /\ ImageFor(Current.name) # NoBundle
      <4>1. Current \in Step
        BY <2>1 DEF RunCommand, InSteps, Current, TypeOK, Execs, Plans
      <4>2. QED BY SMTT(30), <2>1, <2>4, <4>1 DEF RunCommand, Step
    <3>3. device' = [device EXCEPT !.images[Current.name] = ImageFor(Current.name)]
      BY <2>1, <2>4 DEF RunCommand
    <3>4. \A n \in Parts : device.images[n] # NoBundle => device'.images[n] # NoBundle
      BY <2>2, <3>2, <3>3 DEF Images
    <3>5. step.kind = "flash" => step.name \in Parts
      BY DEF Step
    <3>6. QED BY <3>1, <3>4, <3>5 DEF Done
  <2>5. CASE Current.kind \notin {"wipe", "flash"}
    BY <1>2, <2>1, <2>5 DEF RunCommand
  <2>6. QED BY <2>3, <2>4, <2>5
<1>3. QED BY <1>1, <1>2

\* A truthful transcript stays truthful while it is not rewritten.
LEMMA TranscriptStays ==
  ASSUME TypeOK, [Next]_vars, CompleteMeansInstalled, transcript' = transcript
  PROVE  CompleteMeansInstalled'
<1>1. transcript.plan.steps \in Seq(Step)
  BY DEF TypeOK, Transcripts, Plans
<1>2. \A step \in Step : Done(step) => Done(step)'
  BY DoneStays
<1>3. ASSUME transcript.status = "live_execution_complete", NEW i \in 1 .. Len(transcript.plan.steps)
      PROVE  /\ transcript.plan.steps[i].kind = "flash"
                  => device'.images[transcript.plan.steps[i].name] # NoBundle
             /\ transcript.plan.steps[i].kind = "wipe" => device'.wiped
  <2>1. transcript.plan.steps[i] \in Step
    BY <1>1
  <2>2. Done(transcript.plan.steps[i])
    BY <1>3 DEF CompleteMeansInstalled, Installed, Done
  <2>3. QED BY <1>2, <2>1, <2>2 DEF Done
<1>4. QED BY <1>3 DEF CompleteMeansInstalled, Installed

\* The loop invariant and the truth of the transcript are kept by every step.
LEMMA LoopInductive ==
  ASSUME TypeOK, LoopInv, [Next]_vars
  PROVE  LoopInv'
<1>1. \A step \in Step : Done(step) => Done(step)'
  BY DoneStays
<1>2. exec.plan.steps \in Seq(Step) /\ exec.index \in Nat /\ exec.index <= Len(exec.plan.steps) + 1
  BY DEF TypeOK, Execs, Plans
<1>3. ASSUME UNCHANGED <<policy, exec, transcript>>
      PROVE  LoopInv'
  <2>1. CompleteMeansInstalled'
    BY <1>3, TranscriptStays DEF LoopInv
  <2>2. ASSUME exec.pc = "steps", Live, NEW i \in 1 .. exec.index - 1
        PROVE  Done(exec.plan.steps[i])'
    <3>1. exec.plan.steps[i] \in Step
      BY <1>2
    <3>2. Done(exec.plan.steps[i])
      BY <2>2 DEF LoopInv
    <3>3. QED BY <1>1, <1>3, <3>1, <3>2 DEF Done
  <2>3. QED BY <1>3, <2>1, <2>2 DEF LoopInv, Live
<1>4. ASSUME exec' = NoExec, transcript' = transcript
      PROVE  LoopInv'
  BY <1>4, TranscriptStays DEF LoopInv, NoExec
<1>5. ASSUME NEW status, Return(status), status # "live_execution_complete"
      PROVE  LoopInv'
  BY <1>5 DEF Return, LoopInv, NoExec, CompleteMeansInstalled
<1>6. ASSUME NEW t \in Threads, CycleStep(t)
      PROVE  LoopInv'
  BY <1>3, <1>6 DEF CycleStep, BeginCycle, ClearStaged, StageImages, FinishCycle, WritePlan, inputs
<1>7. CASE Operator
  <2>1. ASSUME NEW lawful \in BOOLEAN, SaveProfile(lawful)
        PROVE  LoopInv'
    BY <1>3, <2>1 DEF SaveProfile
  <2>2. CASE RefreshPanel
    BY <1>3, <2>2 DEF RefreshPanel, inputs
  <2>3. ASSUME NEW phrase \in BOOLEAN, NEW restore \in BOOLEAN, RecordApproval(phrase, restore)
        PROVE  LoopInv'
    BY <1>3, <2>3 DEF RecordApproval, inputs
  <2>4. ASSUME NEW live \in BOOLEAN, ExecuteFlash(live)
        PROVE  LoopInv'
    <3>1. CASE backup
      <4>1. transcript' = transcript /\ exec'.pc = "check" /\ exec'.index = 1
        BY <2>4, <3>1 DEF ExecuteFlash, NoExec
      <4>2. QED BY <4>1, TranscriptStays DEF LoopInv
    <3>2. CASE ~backup
      BY <1>3, <2>4, <3>2 DEF ExecuteFlash, inputs
    <3>3. QED BY <3>1, <3>2
  <2>5. QED BY <1>7, <2>1, <2>2, <2>3, <2>4 DEF Operator
<1>8. CASE Executor
  <2>1. CASE CheckGates
    <3>1. CASE Refusal(exec.plan) # "none"
      <4>1. Refusal(exec.plan) # "live_execution_complete"
        BY DEF Refusal
      <4>2. QED BY <1>5, <2>1, <3>1, <4>1 DEF CheckGates
    <3>2. CASE Refusal(exec.plan) = "none"
      <4>1. transcript' = transcript /\ exec'.pc = "steps" /\ exec'.index = 1
        BY <2>1, <3>2 DEF CheckGates, LoopInv, TypeOK, Execs
      <4>2. QED BY <4>1, TranscriptStays DEF LoopInv
    <3>3. QED BY <3>1, <3>2
  <2>2. ASSUME InSteps, Advance, UNCHANGED <<policy, transcript>>,
               Live /\ Current.kind = "flash" => device'.images[Current.name] # NoBundle,
               Live /\ Current.kind = "wipe" => device'.wiped
        PROVE  LoopInv'
    <3>1. /\ exec'.pc = "steps" /\ exec'.index = exec.index + 1 /\ exec'.plan = exec.plan
          /\ exec'.live = exec.live
      BY <2>2 DEF InSteps, Advance, TypeOK, Execs
    <3>2. ASSUME Live, NEW i \in 1 .. exec.index
          PROVE  /\ exec.plan.steps[i].kind = "flash"
                      => device'.images[exec.plan.steps[i].name] # NoBundle
                 /\ exec.plan.steps[i].kind = "wipe" => device'.wiped
      <4>1. CASE i = exec.index
        BY <2>2, <3>2, <4>1 DEF Current
      <4>2. CASE i \in 1 .. exec.index - 1
        <5>1. exec.plan.steps[i] \in Step /\ Done(exec.plan.steps[i])
          BY <1>2, <2>2, <3>2, <4>2 DEF LoopInv, InSteps
        <5>2. QED BY <1>1, <5>1 DEF Done
      <4>3. QED BY <1>2, <4>1, <4>2
    <3>3. CompleteMeansInstalled'
      BY <2>2, TranscriptStays DEF LoopInv
    <3>4. QED BY <1>2, <2>2, <3>1, <3>2, <3>3 DEF LoopInv, Live, Done
  <2>3. CASE RecordStep
    BY <2>2, <2>3 DEF RecordStep, inputs
  <2>4. CASE RunCommand
    <3>1. device \in [wiped : BOOLEAN, images : Images]
      BY DEF TypeOK
    <3>2. Current.kind = "wipe" => device'.wiped
      BY <2>4, <3>1 DEF RunCommand
    <3>3. ASSUME Current.kind = "flash"
          PROVE  device'.images[Current.name] # NoBundle
      <4>1. Current \in Step
        BY <2>4 DEF RunCommand, InSteps, Current, TypeOK, Execs, Plans
      <4>2. Current.name \in Parts
        BY <3>3, <4>1 DEF Step
      <4>3. /\ ImageFor(Current.name) # NoBundle
            /\ device' = [device EXCEPT !.images[Current.name] = ImageFor(Current.name)]
        BY <2>4, <3>3 DEF RunCommand
      <4>4. QED BY <3>1, <4>2, <4>3 DEF Images
    <3>4. QED BY <2>2, <2>4, <3>2, <3>3 DEF RunCommand, inputs
  <2>5. CASE FailCommand
    BY SMTT(30), <1>5, <2>5 DEF FailCommand
  <2>6. CASE FinishExec
    BY <1>2, <1>5, <2>6 DEF FinishExec, Return, LoopInv, Done, Live, CompleteMeansInstalled, Installed, NoExec
  <2>7. QED BY <1>8, <2>1, <2>3, <2>4, <2>5, <2>6 DEF Executor
<1>9. CASE Environment
  BY <1>3, <1>4, <1>9 DEF Environment, SourceChanges, Reassess, Crash
<1>10. CASE UNCHANGED vars
  BY <1>3, <1>10 DEF vars
<1>11. QED BY <1>6, <1>7, <1>8, <1>9, <1>10 DEF Next

\* For every instance: a transcript that says live_execution_complete was written by an
\* execution all of whose destructive steps have reached the device.
THEOREM CompleteTheorem == Spec => []CompleteMeansInstalled
<1>1. Init => LoopInv
  BY DEF Init, LoopInv, NoExec, CompleteMeansInstalled
<1>2. TypeOK /\ LoopInv /\ [Next]_vars => LoopInv'
  BY LoopInductive
<1>3. LoopInv => CompleteMeansInstalled
  BY DEF LoopInv
<1>4. QED BY <1>1, <1>2, <1>3, TypeCorrect, PTL DEF Spec

=============================================================================
