----------------------------- MODULE FlashGate -----------------------------
(***************************************************************************)
(* From a staged bundle to the commands that erase and flash a device:     *)
(* image builder, flash plan, wipe approval, the GUI's approval panel and  *)
(* the flash executor (tools/image_builder.py, tools/flash_executor.py,    *)
(* core/policy_guard.py, orchestrator.record_wipe_approval and             *)
(* execute_approved_flash, gui/control_app.py).                            *)
(*                                                                         *)
(* The GUI thread saves forms, records approvals and executes; Workers are *)
(* the other threads that run cycles on the same session (background       *)
(* thread, watchers).  Nothing locks the session's files, so a cycle may   *)
(* restage images and rewrite manifest and plan between any two commands   *)
(* of an execution.  cyc, exec and panel are memory; the rest is on disk   *)
(* or is the device itself.                                                *)
(***************************************************************************)
EXTENDS Integers, Sequences, Functions, SessionStates

CONSTANTS Workers,   \* threads that run full cycles, besides the GUI thread
          Bundles,   \* sets of install files the operator or a download may stage
          Parts,     \* names of flash steps (flash_boot, sideload_update, ...)
          ModeOf,    \* install mode the image builder recognises for a bundle
          PartsOf,   \* flash steps of a bundle, in manifest order
          Policies,  \* policies the application may have been started with
          MaxChanges \* bound on saved forms, changes of files or assessment, and crashes

NoBundle == "none"
Modes    == {"fastboot_images", "adb_sideload", "heimdall_flash"}

ASSUME WorkersAssumption  == "gui" \notin Workers
ASSUME BundlesAssumption  == /\ NoBundle \notin Bundles
                             /\ ModeOf \in [Bundles -> Modes]
                             /\ PartsOf \in [Bundles -> Seq(Parts)]
ASSUME PoliciesAssumption == Policies \subseteq [live : BOOLEAN, phrase : BOOLEAN, restore : BOOLEAN]
ASSUME ChangesAssumption  == MaxChanges \in Nat

VARIABLES policy,     \* PolicyModel: allow_live, require_explicit_wipe_phrase, require_restore_path
          attested,   \* user-profile.json: lawful_use_attested
          actionable, \* reports/assessment.json: support_status is actionable
          source,     \* bundle in artifacts/os-source
          staged,     \* files in runtime/build/staged, by flash step
          manifest,   \* runtime/build/artifact-manifest.json: the bundle it lists
          backup,     \* backup/backup-plan.json exists
          plan,       \* execution/flash-plan.json
          phase,      \* phase in runtime/session-plan.json
          session,    \* state in session-state.json
          approval,   \* destructive-approval.json
          panel,      \* which buttons of the approval panel are enabled
          cyc,        \* per thread: the locals of its cycle
          exec,       \* the flash executor's call on the GUI thread
          transcript, \* execution/flash-transcript.json
          device,     \* the attached device: userdata erased, image per flash step
          changes     \* how many of the bounded changes have happened

vars == <<policy, attested, actionable, source, staged, manifest, backup, plan, phase, session,
          approval, panel, cyc, exec, transcript, device, changes>>

Threads == Workers \cup {"gui"}
Bundle  == Bundles \cup {NoBundle}
Images  == [Parts -> Bundle]
NoFiles == [p \in Parts |-> NoBundle]

-----------------------------------------------------------------------------
(* Plans and their steps.                                                  *)

Check(name) == [name |-> name, kind |-> "check"]
Reboot(name) == [name |-> name, kind |-> "transport"]
Flash(part) == [name |-> part, kind |-> "flash"]
Wipe        == [name |-> "wipe_userdata", kind |-> "wipe"]

StepNames == {"preflight_checks", "verify_backup_bundle", "restore_checkpoint", "boot_validation",
              "enter_fastboot", "enter_sideload", "wipe_userdata"}
Step == [name : StepNames, kind : {"check", "transport", "wipe"}] \cup [name : Parts, kind : {"flash"}]

\* Steps of the installation mode that come before the images.
Prepare(mode) ==
  CASE mode = "fastboot_images" -> <<Reboot("enter_fastboot"), Wipe>>
    [] mode = "adb_sideload"    -> <<Wipe, Reboot("enter_sideload")>>
    [] mode = "heimdall_flash"  -> <<>>

\* FlashExecutorTool.build_plan: boot_validation stays last and, like the checks, has
\* no command.
PlanSteps(b) ==
  <<Check("preflight_checks"), Check("verify_backup_bundle"), Check("restore_checkpoint")>>
  \o (IF b = NoBundle THEN <<>>
      ELSE Prepare(ModeOf[b]) \o [i \in DOMAIN PartsOf[b] |-> Flash(PartsOf[b][i])])
  \o <<Check("boot_validation")>>

NoPlan == [exists |-> FALSE, restore |-> FALSE, deferred |-> TRUE, bundle |-> NoBundle,
           steps |-> <<>>]

Plans == [exists : BOOLEAN, restore : BOOLEAN, deferred : BOOLEAN, bundle : Bundle,
          steps : Seq(Step)]

\* The plan a cycle makes of what it has read: the restore path counts as available on
\* an actionable device; without attestation the build path is research only.
BuildPlan(c) ==
  [exists |-> TRUE, restore |-> c.actionable, bundle |-> c.bundle,
   deferred |-> ~c.actionable \/ ~c.lawful \/ c.bundle = NoBundle,
   steps |-> PlanSteps(c.bundle)]

-----------------------------------------------------------------------------
NoApproval == [approved |-> FALSE, phrase |-> FALSE, restore |-> FALSE]
Approvals  == [approved : BOOLEAN, phrase : BOOLEAN, restore : BOOLEAN]

Buttons == [approve : BOOLEAN, run : BOOLEAN, live : BOOLEAN]
AllOff  == [approve |-> FALSE, run |-> FALSE, live |-> FALSE]

Phases == {"install", "verification", "other"}

\* PolicyGuard.evaluate_install_gate; a cycle always has a backup plan of its own.
InstallGate(p, a) ==
  /\ p.bundle # NoBundle
  /\ policy.restore => p.restore /\ a.restore
  /\ a.approved
  /\ policy.phrase => a.phrase

\* _refresh_approval_panel
PanelFor(p, ph, a) ==
  LET planned == p.exists /\ ~p.deferred
      ready   == planned /\ ph = "install"
      may     == ready /\ a.approved /\ a.phrase /\ a.restore
  IN [approve |-> planned /\ ph \in {"verification", "install"}, run |-> may,
      live |-> may /\ policy.live]

CyclePCs == {"idle", "clear", "stage", "finish", "write"}
Cycles == [pc : CyclePCs, light : BOOLEAN, lawful : BOOLEAN, actionable : BOOLEAN,
           bundle : Bundle]
NoCycle == [pc |-> "idle", light |-> FALSE, lawful |-> FALSE, actionable |-> FALSE,
            bundle |-> NoBundle]

Execs == [pc : {"idle", "check", "steps"}, live : BOOLEAN, plan : Plans,
          manifest : Bundle, index : Nat \ {0}]
NoExec == [pc |-> "idle", live |-> FALSE, plan |-> NoPlan, manifest |-> NoBundle, index |-> 1]

Statuses == {"none", "awaiting_approval", "approval_invalid",
             "blocked_no_restore_path", "blocked_no_artifacts", "live_execution_failed",
             "dry_run_complete", "live_execution_complete"}
Transcripts == [status : Statuses, plan : Plans]

Init ==
  /\ policy \in Policies
  /\ attested = FALSE /\ actionable = FALSE
  /\ source = NoBundle /\ staged = NoFiles /\ manifest = NoBundle
  /\ backup = FALSE
  /\ plan = NoPlan
  /\ phase = "other"
  /\ session = "PATH_SELECT"   \* where the first device event has brought it
  /\ approval = NoApproval
  /\ panel = AllOff
  /\ cyc = [t \in Threads |-> NoCycle]
  /\ exec = NoExec
  /\ transcript = [status |-> "none", plan |-> NoPlan]
  /\ device = [wiped |-> FALSE, images |-> NoFiles]
  /\ changes = 0

disk   == <<staged, manifest, backup, plan, phase, session>>
inputs == <<policy, attested, actionable, source, changes>>

Change == changes < MaxChanges /\ changes' = changes + 1

GuiFree == cyc["gui"].pc = "idle" /\ exec.pc = "idle"

-----------------------------------------------------------------------------
(* The runtime cycle, as far as it touches the install.                    *)

Began(t, light, lawful) ==
  [cyc EXCEPT ![t] = [NoCycle EXCEPT !.pc = "clear", !.light = light, !.lawful = lawful,
                                     !.actionable = actionable]]

\* A full cycle starts: user profile and assessment are read, the backup is captured.
BeginCycle(t) ==
  /\ t \in Workers /\ cyc[t].pc = "idle"
  /\ cyc' = Began(t, FALSE, attested)
  /\ backup' = TRUE
  /\ UNCHANGED <<inputs, staged, manifest, plan, phase, session, approval, panel, exec,
                 transcript, device>>

\* The operator saves the form; a lightweight cycle runs on the GUI thread.
SaveProfile(lawful) ==
  /\ GuiFree /\ Change
  /\ attested' = lawful
  /\ cyc' = Began("gui", TRUE, lawful)
  /\ backup' = TRUE
  /\ UNCHANGED <<policy, actionable, source, staged, manifest, plan, phase, session, approval,
                 panel, exec, transcript, device>>

\* ImageBuilderTool.run: the staged outputs of the last cycle are deleted first ...
ClearStaged(t) ==
  /\ cyc[t].pc = "clear"
  /\ staged' = NoFiles
  /\ cyc' = [cyc EXCEPT ![t].pc = "stage"]
  /\ UNCHANGED <<inputs, manifest, backup, plan, phase, session, approval, panel, exec,
                 transcript, device>>

\* ... then what os-source holds is copied and listed in the manifest.
StageImages(t) ==
  /\ cyc[t].pc = "stage"
  /\ staged' = IF source = NoBundle THEN staged
               ELSE [p \in Parts |-> IF p \in Range(PartsOf[source]) THEN source ELSE staged[p]]
  /\ manifest' = source
  /\ cyc' = [cyc EXCEPT ![t].pc = "finish", ![t].bundle = source]
  /\ UNCHANGED <<inputs, backup, plan, phase, session, approval, panel, exec, transcript, device>>

Candidate(c) == c.actionable /\ c.lawful /\ c.bundle # NoBundle

\* Runs of _safe_transition calls of a cycle (SessionRuntime has them one by one).
Classified(s) == safe_transition(safe_transition(s, "RECOMMEND"), "BLOCKER_CLASSIFY")
Backed(s)     == safe_transition(s, "BACKUP_READY")
Previewed(s)  == safe_transition(safe_transition(s, "PREVIEW_BUILD"), "PREVIEW_REVIEW")
Offered(s)    == safe_transition(safe_transition(s, "INTERACTIVE_VERIFY"), "INSTALL_APPROVAL")
Tasked(s)     == safe_transition(safe_transition(s, "REMEDIATION_DECIDE"), "TASK_CREATE")
Written(s)    == safe_transition(safe_transition(s, "CODEGEN_WRITE"), "PATCH_APPLY")
Executed(s)   == safe_transition(safe_transition(s, "EXECUTE_ARTIFACT"), "INSPECT_RESULT")
Remediated(s) == Executed(Written(Tasked(s)))

\* The states a cycle on a managed transport may leave a classified session in: offered
\* for approval, built, held, asking the operator, or worked on by the machine.
Endings(s, c) ==
  IF Candidate(c) /\ ~c.light THEN {Offered(Previewed(Backed(s)))}
  ELSE IF Candidate(c) THEN {safe_transition(Backed(s), "BUILD_GENERIC")}
  ELSE IF c.actionable /\ c.bundle # NoBundle
    THEN LET held == safe_transition(Backed(s), "ITERATE")
         IN {held, safe_transition(held, "DEEP_SCAN")}
  ELSE IF c.light THEN {Backed(safe_transition(s, "QUESTION_GATE"))}
  ELSE {Backed(safe_transition(s, "QUESTION_GATE")), Backed(Remediated(s)),
        Backed(safe_transition(Remediated(s), "BLOCKER_CLASSIFY"))}

DirectPhase == [INSTALL_APPROVAL |-> "install", FLASH_PREP |-> "install", FLASH |-> "install",
                INTERACTIVE_VERIFY |-> "verification", RECOMMEND |-> "other",
                BACKUP_PLAN |-> "other", BACKUP_READY |-> "other", PREVIEW_BUILD |-> "other",
                PREVIEW_REVIEW |-> "other", INTAKE |-> "other", ACCESS_ENABLEMENT |-> "other",
                POST_INSTALL_VERIFY |-> "other", COMPLETE |-> "other"]

\* RuntimePlanner._phase_for_state: the state decides, or else the install gate.
PhaseFor(state, c, gate) ==
  IF state \in DOMAIN DirectPhase THEN DirectPhase[state]
  ELSE IF ~Candidate(c) \/ c.light THEN "other"
  ELSE IF gate THEN "install" ELSE "verification"

\* Install gate, state transitions and the runtime plan with its phase.
FinishCycle(t) ==
  /\ cyc[t].pc = "finish"
  /\ LET c == cyc[t]
     IN /\ session' \in Endings(Classified(session), c)
        /\ phase' = PhaseFor(session', c, InstallGate(BuildPlan(c), approval))
  /\ cyc' = [cyc EXCEPT ![t].pc = "write"]
  /\ UNCHANGED <<inputs, staged, manifest, backup, plan, approval, panel, exec, transcript, device>>

\* The flash plan is written after the cycle; the GUI thread then refreshes its panel.
WritePlan(t) ==
  /\ cyc[t].pc = "write"
  /\ plan' = BuildPlan(cyc[t])
  /\ cyc' = [cyc EXCEPT ![t] = NoCycle]
  /\ panel' = IF t = "gui" THEN PanelFor(plan', phase, approval) ELSE panel
  /\ UNCHANGED <<inputs, staged, manifest, backup, phase, session, approval, exec, transcript, device>>

-----------------------------------------------------------------------------
(* The operator at the approval panel.                                     *)

\* refresh_ui: timer of the GUI thread.
RefreshPanel ==
  /\ GuiFree
  /\ panel' = PanelFor(plan, phase, approval)
  /\ UNCHANGED <<inputs, disk, approval, cyc, exec, transcript, device>>

\* record_wipe_approval: the button always approves; phrase and restore check as typed.
RecordApproval(phrase, restore) ==
  /\ GuiFree /\ panel.approve
  /\ approval' = [approved |-> TRUE, phrase |-> phrase, restore |-> restore]
  /\ panel' = PanelFor(plan, phase, approval')
  /\ UNCHANGED <<inputs, disk, cyc, exec, transcript, device>>

\* execute_flash and the head of execute_approved_flash: plan and approval are loaded.
\* Without a backup the call returns at once.  The approval cannot change under the
\* executor: only this thread records one.
ExecuteFlash(live) ==
  /\ GuiFree
  /\ IF live THEN panel.live /\ policy.live ELSE panel.run
  /\ plan.exists
  /\ IF backup
       THEN /\ exec' = [NoExec EXCEPT !.pc = "check", !.live = live, !.plan = plan]
            /\ UNCHANGED panel
       ELSE /\ panel' = PanelFor(plan, phase, approval)
            /\ UNCHANGED exec
  /\ UNCHANGED <<inputs, disk, approval, cyc, transcript, device>>

-----------------------------------------------------------------------------
(* FlashExecutorTool.run.                                                  *)

\* effective_dry_run is false
Live == exec.live /\ policy.live

\* The call returns: transcript, then the panel is refreshed.
Return(status) ==
  /\ transcript' = [status |-> status, plan |-> exec.plan]
  /\ exec' = NoExec
  /\ panel' = PanelFor(plan, phase, approval)

\* Mutant of Refusal: an unconfirmed restore path is let through.
Refusal_NoRestore(p) ==
  IF ~approval.approved THEN "awaiting_approval"
  ELSE IF policy.phrase /\ ~approval.phrase THEN "approval_invalid"
  ELSE IF p.bundle = NoBundle \/ manifest = NoBundle THEN "blocked_no_artifacts"
  ELSE "none"

\* The first requirement that is not met, in the order they are looked at.
Refusal(p) ==
  IF ~approval.approved THEN "awaiting_approval"
  ELSE IF policy.phrase /\ ~approval.phrase THEN "approval_invalid"
  ELSE IF policy.restore /\ ~(p.restore /\ approval.restore) THEN "blocked_no_restore_path"
  ELSE IF p.bundle = NoBundle \/ manifest = NoBundle THEN "blocked_no_artifacts"
  ELSE "none"

CheckGates ==
  /\ exec.pc = "check"
  /\ IF Refusal(exec.plan) # "none"
       THEN Return(Refusal(exec.plan))
       ELSE /\ exec' = [exec EXCEPT !.pc = "steps", !.manifest = manifest]
            /\ UNCHANGED <<transcript, panel>>
  /\ UNCHANGED <<inputs, disk, approval, cyc, device>>

Current == exec.plan.steps[exec.index]

InSteps == exec.pc = "steps" /\ exec.index <= Len(exec.plan.steps)

\* Mutant of Advance: the loop counter is advanced twice.
Advance_Twice == exec' = [exec EXCEPT !.index = @ + 2]

Advance == exec' = [exec EXCEPT !.index = @ + 1]

\* A step without a command, or any step of a dry run, is only recorded.
RecordStep ==
  /\ InSteps
  /\ ~Live \/ Current.kind = "check"
  /\ Advance
  /\ UNCHANGED <<inputs, disk, approval, panel, cyc, transcript, device>>

\* The image a flash step finds: its name must be listed in the manifest that was read,
\* the file itself is opened when the command runs.
ImageFor(part) ==
  IF part \in Range(PartsOf[exec.manifest]) THEN staged[part] ELSE NoBundle

\* Commands are addressed by the plan's mode; a command of the device may always fail.
RunCommand ==
  /\ InSteps
  /\ Live /\ Current.kind # "check"
  /\ Current.kind = "flash" => ImageFor(Current.name) # NoBundle
  /\ device' = CASE Current.kind = "wipe"  -> [device EXCEPT !.wiped = TRUE]
                 [] Current.kind = "flash" -> [device EXCEPT !.images[Current.name] =
                                                                ImageFor(Current.name)]
                 [] OTHER                  -> device
  /\ Advance
  /\ UNCHANGED <<inputs, disk, approval, panel, cyc, transcript>>

\* Mutant of FailCommand: the loop goes on after a failed command.
FailCommand_GoesOn ==
  /\ InSteps
  /\ Live /\ Current.kind # "check"
  /\ Advance
  /\ UNCHANGED <<inputs, disk, approval, panel, cyc, transcript, device>>

FailCommand ==
  /\ InSteps
  /\ Live /\ Current.kind # "check"
  /\ Return("live_execution_failed")
  /\ UNCHANGED <<inputs, disk, approval, cyc, device>>

\* Every step is done: the session is moved towards FLASH, dry run or not.
FinishExec ==
  /\ exec.pc = "steps"
  /\ exec.index > Len(exec.plan.steps)
  /\ Return(IF Live THEN "live_execution_complete" ELSE "dry_run_complete")
  /\ session' = safe_transition(safe_transition(session, "FLASH_PREP"), "FLASH")
  /\ UNCHANGED <<inputs, staged, manifest, backup, plan, phase, approval, cyc, device>>

-----------------------------------------------------------------------------
(* The environment.                                                        *)

\* Files appear in os-source, are replaced or removed (operator, download, quarantine).
SourceChanges(b) ==
  /\ b # source /\ Change
  /\ source' = b
  /\ UNCHANGED <<policy, attested, actionable, disk, approval, panel, cyc, exec, transcript, device>>

\* A device event or an evidence sync rewrites the assessment.
Reassess(b) ==
  /\ b # actionable /\ Change
  /\ actionable' = b
  /\ UNCHANGED <<policy, attested, source, disk, approval, panel, cyc, exec, transcript, device>>

\* The process dies and is started again.
Crash ==
  /\ Change
  /\ cyc' = [t \in Threads |-> NoCycle]
  /\ exec' = NoExec
  /\ panel' = AllOff
  /\ UNCHANGED <<policy, attested, actionable, source, disk, approval, transcript, device>>

CycleStep(t) == BeginCycle(t) \/ ClearStaged(t) \/ StageImages(t) \/ FinishCycle(t) \/ WritePlan(t)

Operator ==
  \/ \E lawful \in BOOLEAN : SaveProfile(lawful)
  \/ RefreshPanel
  \/ \E phrase, restore \in BOOLEAN : RecordApproval(phrase, restore)
  \/ \E live \in BOOLEAN : ExecuteFlash(live)

Executor == CheckGates \/ RecordStep \/ RunCommand \/ FailCommand \/ FinishExec

Environment ==
  \/ \E b \in Bundle : SourceChanges(b)
  \/ \E b \in BOOLEAN : Reassess(b)
  \/ Crash

Next == (\E t \in Threads : CycleStep(t)) \/ Operator \/ Executor \/ Environment

Spec == Init /\ [][Next]_vars

-----------------------------------------------------------------------------
(* Properties.                                                             *)

\* Files, memory and device keep their types, and the executor's loop its range.
TypeOK ==
  /\ policy \in [live : BOOLEAN, phrase : BOOLEAN, restore : BOOLEAN]
  /\ attested \in BOOLEAN /\ actionable \in BOOLEAN
  /\ source \in Bundle /\ staged \in Images /\ manifest \in Bundle
  /\ backup \in BOOLEAN
  /\ plan \in Plans
  /\ phase \in Phases
  /\ session \in SessionStateName
  /\ approval \in Approvals
  /\ panel \in Buttons
  /\ cyc \in [Threads -> Cycles]
  /\ exec \in Execs /\ exec.index <= Len(exec.plan.steps) + 1
  /\ transcript \in Transcripts
  /\ device \in [wiped : BOOLEAN, images : Images]
  /\ changes \in 0 .. MaxChanges

\* Whatever cycles, crashes and form changes come between, a command that erases or
\* flashes the device is sent only under a policy that allows live actions, with a
\* recorded approval whose phrase and restore confirmation the policy asks for, on a
\* plan with a restore path, and after a backup was captured (flash_executor.py, run).
DestructiveNeedsGate ==
  [][device' # device =>
       /\ policy.live /\ backup
       /\ approval.approved
       /\ policy.phrase => approval.phrase
       /\ policy.restore => approval.restore /\ exec.plan.restore]_vars

\* The image of every flash step of p is on the device, and its data were erased before
\* unless the plan is a Heimdall one.
Installed(p) ==
  \A i \in 1 .. Len(p.steps) :
    /\ p.steps[i].kind = "flash" => device.images[p.steps[i].name] # NoBundle
    /\ p.steps[i].kind = "wipe" => device.wiped

\* A transcript that says live_execution_complete tells the truth: no step of its plan
\* was skipped, although manifest and staged files may change while it runs.
CompleteMeansInstalled ==
  transcript.status = "live_execution_complete" => Installed(transcript.plan)

\* "No destructive execution ... without lawful authorization": no command that erases
\* or flashes is sent while the attestation is withdrawn.
DestructiveNeedsAttestation == [][device' # device => attested]_vars

=============================================================================
