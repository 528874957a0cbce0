--------------------------- MODULE SessionRuntime ---------------------------
(***************************************************************************)
(* The runtime of one device session: the orchestrator's handling of a     *)
(* device event and its runtime cycle (core/orchestrator.py), run by       *)
(* several threads of one process over the same persisted session.         *)
(*                                                                         *)
(* A thread ("runner") is a watcher (handle_device_event through the       *)
(* synchronous event bus), the GUI thread (lightweight cycles) or the      *)
(* GUI's background thread (full cycles).  A runner keeps the cycle's      *)
(* locals in run[r]; `todo' holds the _safe_transition calls it has issued *)
(* and not yet made, one step each.  session, profile, report, attested,   *)
(* failed, staged, repoMissing and planned are files of the session and    *)
(* survive Crash; run and seen are memory and do not.                      *)
(***************************************************************************)
EXTENDS Integers, Sequences, FiniteSets, SessionStates

CONSTANTS Runners,   \* the threads of this instance
          Events,    \* transports a device event may carry
          Modes,     \* what the attached device can expose
          MaxInFlight, \* bound on the calls that overlap
          MaxDisturbances \* bound on device changes, stagings, saved forms and crashes

Roles      == {"watcher", "gui", "background"}
Transports == {"usb-mtp", "usb-adb", "usb-fastboot", "unknown"}
AllModes   == {"absent", "mtp", "unauthorized", "adb", "fastboot"}

ASSUME RunnersAssumption == Runners \subseteq Roles
ASSUME EventsAssumption  == Events \subseteq Transports
ASSUME ModesAssumption   == Modes \subseteq AllModes
ASSUME BoundsAssumption  == MaxInFlight \in Nat /\ MaxDisturbances \in Nat

VARIABLES session,      \* session-state.json
          profile,      \* device-profile.json: transport and serial
          birth,        \* transport of the event that named the session ("none": no session)
          report,       \* reports/assessment.json and reports/engagement.json
          attested,     \* user-profile.json: lawful_use_attested
          everAttested, \* history: the operator has attested at least once
          staged,       \* flashable files under artifacts/os-source
          failed,       \* trailing non-advancing experiments per blocker type
          repoMissing,  \* build-transcript.json says the repo tool is required
          planned,      \* runtime/session-plan.json exists
          device,       \* the real device: exposed mode, bootloader lock
          seen,         \* transports the watchers have published in this process
          disturbances, \* how many of them have happened
          run           \* per runner: the locals of its call

files == <<session, profile, birth, report, attested, staged, failed, repoMissing, planned>>
vars  == <<files, everAttested, device, seen, disturbances, run>>

-----------------------------------------------------------------------------
(* Types and the pure parts of the cycle.                                  *)

Supports    == {"research_only", "actionable", "blocked"}
Strategies  == {"none", "transport_recovery", "research_only", "blocked_research", "install"}
Engagements == {"unknown", "adb_connected", "fastboot_connected", "awaiting_user_approval",
                "usb_only_detected", "no_device_transport"}
Blockers    == {"none", "source_blocker", "transport_blocker", "subsystem_blocker",
                "trust_blocker", "physical_action_blocker", "policy_blocker"}
\* What _sync_live_session_evidence may leave in current_blocker_type as well.
BlockerLabels == Blockers \cup {"unclassified", "approval_or_external_artifact"}
Outcomes    == {"", "solved", "partial", "needs_user_action", "artifact_failed",
                "policy_blocked"}
Assessments == [support : Supports, restore : BOOLEAN,
                path : {"transport_engagement", "research_only", "install"}]

MANAGEABLE_TRANSPORTS == {"usb-adb", "usb-fastboot"}

\* A USB event carries the coarse serial usb-<vid>-<pid>; adb and fastboot the real one.
SerialOf(t) == CASE t = "usb-mtp" -> "coarse" [] t = "unknown" -> "missing" [] OTHER -> "real"

\* The events the watchers can publish for what the device exposes.
EventsOf(mode) ==
  CASE mode \in {"mtp", "unauthorized"} -> {"usb-mtp", "unknown"}
    [] mode = "adb"                     -> {"usb-mtp", "usb-adb"}
    [] mode = "fastboot"                -> {"usb-fastboot"}
    [] OTHER                            -> {}

\* FeasibilityAssessorTool.run
Assess(transport, serial, locked) ==
  IF transport = "usb-mtp"
    THEN [support |-> "research_only", restore |-> FALSE, path |-> "transport_engagement"]
  ELSE IF transport = "unknown" \/ serial = "missing"
    THEN [support |-> "blocked", restore |-> FALSE, path |-> "research_only"]
  ELSE IF locked
    THEN [support |-> "research_only", restore |-> FALSE, path |-> "research_only"]
  ELSE [support |-> "actionable", restore |-> TRUE, path |-> "install"]

\* AutonomousEngagementTool.run
Engage(transport, mode) ==
  CASE transport = "usb-adb"      -> "adb_connected"
    [] transport = "usb-fastboot" -> "fastboot_connected"
    [] transport \notin MANAGEABLE_TRANSPORTS /\ mode = "unauthorized" -> "awaiting_user_approval"
    [] transport \notin MANAGEABLE_TRANSPORTS /\ mode = "adb" -> "adb_connected"
    [] transport \notin MANAGEABLE_TRANSPORTS /\ mode \notin {"unauthorized", "adb"} ->
         IF transport = "usb-mtp" \/ mode # "absent"
           THEN "usb_only_detected" ELSE "no_device_transport"

\* StrategySelectorTool.run; "install" stands for every strategy of an actionable device.
SelectStrategy(a) ==
  CASE a.support = "blocked" -> "blocked_research"
    [] a.support # "blocked" /\ a.path = "transport_engagement" -> "transport_recovery"
    [] a.support = "research_only" /\ a.path # "transport_engagement" -> "research_only"
    [] a.support = "actionable" /\ a.path # "transport_engagement" -> "install"

\* Mutant of OsPath: the attestation is not looked at.
OsPath_Unattested(lawful, support, strategy) ==
  IF support = "blocked" THEN "blocked_path"
  ELSE IF support # "actionable" \/ strategy # "install" THEN "research_only_path"
  ELSE "install"

\* BuildResolverTool.run; "install" stands for every path that is not research or blocked.
OsPath(lawful, support, strategy) ==
  IF ~lawful THEN "research_only_path"
  ELSE IF support = "blocked" THEN "blocked_path"
  ELSE IF support # "actionable" \/ strategy # "install" THEN "research_only_path"
  ELSE "install"

\* ConnectionEngine.build_plan: a managed transport always ranks adb, fastboot or
\* recovery first, so only an unmanaged transport asks for generated code.
RequiresCodex(transport) == transport \notin MANAGEABLE_TRANSPORTS

\* BlockerEngine.classify: the type, and whether the machine may try to solve it.
Blocker(type, solvable) == [type |-> type, solvable |-> solvable]

Classify(transport, engage, support, outcome, ready, iteration) ==
  IF outcome = "solved" THEN Blocker("none", FALSE)
  ELSE IF transport = "usb-mtp" \/ engage = "usb_only_detected"
    THEN Blocker("transport_blocker", TRUE)
  ELSE IF engage = "awaiting_user_approval" THEN Blocker("trust_blocker", FALSE)
  ELSE IF support = "blocked" THEN Blocker("policy_blocker", FALSE)
  ELSE IF support = "research_only" /\ transport \in MANAGEABLE_TRANSPORTS
    THEN Blocker("source_blocker", TRUE)
  ELSE IF RequiresCodex(transport) THEN Blocker("source_blocker", TRUE)
  ELSE IF outcome = "needs_user_action" THEN Blocker("physical_action_blocker", FALSE)
  ELSE IF outcome = "artifact_failed" THEN Blocker("subsystem_blocker", iteration < 2)
  ELSE IF support = "actionable" /\ ~ready THEN Blocker("source_blocker", TRUE)
  ELSE Blocker("none", FALSE)

\* RetryPlanner._blocker_rank
Rank(type) ==
  CASE type = "none" -> 0             [] type = "source_blocker" -> 1
    [] type = "transport_blocker" -> 2 [] type = "subsystem_blocker" -> 3
    [] type = "trust_blocker" -> 4     [] type = "physical_action_blocker" -> 5
    [] type = "policy_blocker" -> 6

\* DeliberationEngine: so many trailing failures teach it not to try again.
MaxFailures == 2

-----------------------------------------------------------------------------
NoReport == [assess |-> [support |-> "research_only", restore |-> FALSE,
                         path |-> "research_only"],
             engage |-> "unknown", present |-> FALSE]

Idle == [pc |-> "idle", todo |-> <<>>, light |-> FALSE, event |-> "none", lawful |-> FALSE,
         assess |-> NoReport.assess, engage |-> "unknown", transport |-> "unknown",
         path |-> "research_only_path", feasible |-> FALSE, ready |-> FALSE,
         deferred |-> TRUE, blocker |-> Blocker("none", FALSE), machine |-> FALSE,
         model |-> FALSE, outcome |-> "", installReady |-> FALSE]

\* SessionManager.create_or_resume: the state a new session is written with.
FreshSession == [state |-> "DEVICE_ATTACHED", support |-> "research_only", strategy |-> "none",
                 blocker |-> "unclassified", iterate |-> 0, remediation |-> 0]

PCs == {"idle", "assess", "select", "load", "start", "classify", "ask", "remediate",
        "execute", "inspect", "gate", "finish", "iterate", "rescan", "report"}

Calls == [pc : PCs, todo : Seq(SessionStateName), light : BOOLEAN,
          event : Transports \cup {"none"}, lawful : BOOLEAN, assess : Assessments,
          engage : Engagements, transport : Transports,
          path : {"research_only_path", "blocked_path", "install"}, feasible : BOOLEAN,
          ready : BOOLEAN, deferred : BOOLEAN,
          blocker : [type : Blockers, solvable : BOOLEAN], machine : BOOLEAN,
          model : BOOLEAN, outcome : Outcomes, installReady : BOOLEAN]

Init ==
  /\ session = FreshSession
  /\ profile = [transport |-> "unknown", serial |-> "missing"]
  /\ birth = "none"
  /\ report = NoReport
  /\ attested = FALSE /\ everAttested = FALSE
  /\ staged = "none"
  /\ failed = [b \in Blockers |-> 0]
  /\ repoMissing = FALSE
  /\ planned = FALSE
  /\ device \in [mode : Modes, locked : BOOLEAN]
  /\ seen = {}
  /\ disturbances = 0
  /\ run = [r \in Runners |-> Idle]

-----------------------------------------------------------------------------
(* Steps of a runner.                                                      *)

InFlight == {r \in Runners : run[r].pc # "idle"}

Disturb == disturbances < MaxDisturbances /\ disturbances' = disturbances + 1

At(r, pc) == run[r].pc = pc /\ run[r].todo = <<>>

Free(r) == At(r, "idle") /\ Cardinality(InFlight) < MaxInFlight

\* Mutant of Move: a refused transition is tried again instead of dropped.
Move_Insists(r) ==
  /\ run[r].todo # <<>>
  /\ session' = [session EXCEPT !.state = safe_transition(@, Head(run[r].todo))]
  /\ run' = IF is_transition_allowed(session.state, Head(run[r].todo))
              THEN [run EXCEPT ![r].todo = Tail(@)] ELSE run
  /\ UNCHANGED <<profile, birth, report, attested, staged, failed, repoMissing, planned,
                 everAttested, device, seen, disturbances>>

\* _safe_transition: load, check the table, append to history and write back.
Move(r) ==
  /\ run[r].todo # <<>>
  /\ session' = [session EXCEPT !.state = safe_transition(@, Head(run[r].todo))]
  /\ run' = [run EXCEPT ![r].todo = Tail(@)]
  /\ UNCHANGED <<profile, birth, report, attested, staged, failed, repoMissing, planned,
                 everAttested, device, seen, disturbances>>

\* A watcher publishes an event it has not published yet: add to the seen set first.
Published(t) ==
  /\ t \in Events \cap EventsOf(device.mode)
  /\ t \notin seen
  /\ seen' = seen \cup {t}

\* find_waiting_session matches: the profile is refreshed and a full recompute follows.
Waiting(t) == birth # "none" /\ session.state = "QUESTION_GATE" /\ profile.serial = SerialOf(t)

ResumeWaiting(r, t) ==
  /\ r = "watcher" /\ Free(r)
  /\ Published(t)
  /\ Waiting(t)
  /\ profile' = [transport |-> t, serial |-> SerialOf(t)]
  /\ run' = [run EXCEPT ![r] = [Idle EXCEPT !.pc = "load", !.todo = <<"BLOCKER_CLASSIFY">>]]
  /\ UNCHANGED <<session, birth, report, attested, staged, failed, repoMissing, planned,
                 everAttested, device, disturbances>>

\* create_or_resume: the session name hashes serial and transport, so an event belongs
\* to this session when it is the first one or equals the one that named it.
Attach(r, t) ==
  /\ r = "watcher" /\ Free(r)
  /\ Published(t)
  /\ ~Waiting(t)
  /\ birth \in {"none", t}
  /\ birth' = t
  /\ profile' = [transport |-> t, serial |-> SerialOf(t)]
  /\ run' = [run EXCEPT ![r] =
              [Idle EXCEPT !.pc = "assess", !.event = t,
                           !.todo = <<"DEVICE_ATTACHED", "DISCOVER", "PROFILE_SYNTHESIS", "ASSESS">>]]
  /\ UNCHANGED <<session, report, attested, staged, failed, repoMissing, planned,
                 everAttested, device, disturbances>>

\* Assessment and engagement of the event's device, then backup planning.
AssessDevice(r) ==
  /\ At(r, "assess")
  /\ run' = [run EXCEPT ![r].pc = "select",
                        ![r].assess = Assess(run[r].event, SerialOf(run[r].event), device.locked),
                        ![r].engage = Engage(run[r].event, device.mode),
                        ![r].todo = <<"MATCH_MASTER", "BACKUP_PLAN">>]
  /\ UNCHANGED <<files, everAttested, device, seen, disturbances>>

\* The user profile is read; a blocked device goes to BLOCKED, any other gets a strategy.
SelectPath(r) ==
  /\ At(r, "select")
  /\ LET a == run[r].assess IN
     IF a.support = "blocked"
       THEN /\ run' = [run EXCEPT ![r].pc = "start", ![r].lawful = attested,
                                  ![r].todo = <<"BLOCKED">>]
            /\ UNCHANGED session
       ELSE /\ run' = [run EXCEPT ![r].pc = "start", ![r].lawful = attested,
                                  ![r].todo = <<"PATH_SELECT">>]
            /\ session' = [session EXCEPT !.strategy = SelectStrategy(a), !.support = a.support]
  /\ UNCHANGED <<profile, birth, report, attested, staged, failed, repoMissing, planned,
                 everAttested, device, seen, disturbances>>

\* recompute_session_runtime: assessment and engagement come from the reports; without
\* a report the assessment falls back to the support status of the session.
LoadReports(r) ==
  /\ At(r, "load")
  /\ run' = [run EXCEPT ![r].pc = "start", ![r].lawful = attested,
                        ![r].engage = report.engage,
                        ![r].assess = IF report.present THEN report.assess
                                      ELSE [NoReport.assess EXCEPT !.support = session.support]]
  /\ UNCHANGED <<files, everAttested, device, seen, disturbances>>

\* GUI: the background thread starts a full recompute (timer or Run now).
RunNow(r) ==
  /\ r = "background" /\ Free(r)
  /\ birth # "none"
  /\ run' = [run EXCEPT ![r] = [Idle EXCEPT !.pc = "load"]]
  /\ UNCHANGED <<files, everAttested, device, seen, disturbances>>

\* GUI: save the intake form (attestation, strategy), then a lightweight recompute.
SaveProfile(r, lawful) ==
  /\ r = "gui" /\ Free(r)
  /\ birth # "none"
  /\ Disturb
  /\ attested' = lawful
  /\ everAttested' = (everAttested \/ lawful)
  /\ session' = [session EXCEPT !.strategy = SelectStrategy(report.assess)]
  /\ run' = [run EXCEPT ![r] = [Idle EXCEPT !.pc = "load", !.light = TRUE]]
  /\ UNCHANGED <<profile, birth, report, staged, failed, repoMissing, planned,
                 device, seen>>

\* GUI: refresh the evidence of a live adb session; a change, or a session that has no
\* runtime plan yet, is followed by a lightweight recompute.
SyncEvidence(r) ==
  /\ r = "gui" /\ Free(r)
  /\ birth # "none" /\ profile.serial = "real" /\ device.mode = "adb"
  /\ LET a        == Assess("usb-adb", "real", device.locked)
         stalled  == session.blocker = "physical_action_blocker"
         changed  == \/ profile.transport # "usb-adb"
                     \/ a.support # session.support
                     \/ stalled
     IN /\ report' = [assess |-> a, engage |-> "adb_connected", present |-> TRUE]
        /\ session' = [session EXCEPT !.support = a.support,
                         !.blocker = IF stalled THEN "approval_or_external_artifact" ELSE @]
        /\ run' = IF changed \/ ~planned
                    THEN [run EXCEPT ![r] = [Idle EXCEPT !.pc = "load", !.light = TRUE]]
                    ELSE run
  /\ profile' = [profile EXCEPT !.transport = "usb-adb"]
  /\ UNCHANGED <<birth, attested, staged, failed, repoMissing, planned,
                 everAttested, device, seen, disturbances>>

\* _perform_deep_scan: the profile is refreshed when its own serial answers.
DeepScan(p) ==
  IF p.serial = "real" /\ device.mode \in {"adb", "fastboot"}
    THEN [p EXCEPT !.transport = IF device.mode = "adb" THEN "usb-adb" ELSE "usb-fastboot"]
    ELSE p

\* Staging of sources that are missing: only a full cycle on an install path of an
\* attested session may search; a source build that lacks the repo tool is remembered.
MayAcquire(c) == ~c.light /\ c.path # "research_only_path" /\ c.lawful

\* Mutant of Plan: a plan without artifacts is not deferred.
Plan_NeverDeferred(c, ready) ==
  [c EXCEPT !.ready = ready, !.pc = "classify",
            !.deferred = c.assess.support # "actionable" \/ c.path = "research_only_path",
            !.todo = <<"RECOMMEND", "BLOCKER_CLASSIFY">>]

Plan(c, ready) ==
  [c EXCEPT !.ready = ready, !.pc = "classify",
            !.deferred = c.assess.support # "actionable" \/ c.path = "research_only_path" \/ ~ready,
            !.todo = <<"RECOMMEND", "BLOCKER_CLASSIFY">>]

\* The first half of the runtime cycle: load, deep scan, backup, build plan, image
\* builder and source acquisition, flash plan.
StartCycle(r) ==
  /\ At(r, "start")
  /\ LET prof == IF session.state = "DEEP_SCAN" THEN DeepScan(profile) ELSE profile
         c    == [run[r] EXCEPT !.transport = prof.transport,
                    !.path = OsPath(run[r].lawful, run[r].assess.support, session.strategy),
                    !.feasible = \/ run[r].assess.restore
                                 \/ /\ prof.transport = "usb-adb" /\ prof.serial = "real"
                                    /\ device.mode = "adb"]
     IN /\ profile' = prof
        /\ \/ /\ staged # "none"
              /\ run' = [run EXCEPT ![r] = Plan(c, TRUE)]
              /\ UNCHANGED <<staged, repoMissing>>
           \/ /\ staged = "none" /\ ~MayAcquire(c)
              /\ run' = [run EXCEPT ![r] = Plan(c, FALSE)]
              /\ UNCHANGED <<staged, repoMissing>>
           \/ /\ staged = "none" /\ MayAcquire(c)
              /\ \E got \in BOOLEAN :
                   /\ staged' = IF got THEN "usable" ELSE "none"
                   /\ run' = [run EXCEPT ![r] = Plan(c, got)]
                   /\ repoMissing' \in IF got THEN {repoMissing} ELSE {repoMissing, TRUE}
  /\ UNCHANGED <<session, birth, report, attested, failed, planned, everAttested, device, seen, disturbances>>


\* DeliberationEngine._action_plan: a missing repo tool and repeated failures each veto
\* machine remediation.
MachineAllowed(b) == b.solvable /\ ~repoMissing /\ failed[b.type] < MaxFailures

\* Blocker classification, deliberation and starter troubleshooting decide whether the
\* machine may remediate and whether model workers may be asked.
ClassifyBlocker(r) ==
  /\ At(r, "classify")
  /\ \E recalled \in BOOLEAN :   \* product memory knows the source blocker already
       LET c == run[r]
           b == Classify(c.transport, c.engage, c.assess.support, "", c.ready, session.remediation)
           source      == b.type = "source_blocker"
           machine     == MachineAllowed(b)
           quarantine  == source /\ staged = "rejected"
           acquireOnly == source /\ staged # "usable" /\ (repoMissing \/ recalled)
       IN /\ session' = [session EXCEPT !.blocker = b.type]
          /\ staged' = IF quarantine THEN "none" ELSE staged
          /\ run' = [run EXCEPT ![r] =
                      [c EXCEPT !.blocker = b, !.machine = machine,
                                !.model = quarantine \/ (machine /\ ~acquireOnly),
                                !.pc = IF b.solvable /\ ~c.light /\ machine THEN "remediate"
                                       ELSE IF b.type # "none" THEN "ask" ELSE "gate",
                                !.todo = IF b.solvable /\ ~c.light /\ machine
                                           THEN <<"REMEDIATION_DECIDE", "TASK_CREATE">>
                                           ELSE <<>>]]
  /\ UNCHANGED <<profile, birth, report, attested, failed, repoMissing, planned,
                 everAttested, device, seen, disturbances>>

\* remediation_iteration is only ever compared with 2: it is counted up to there.
RemediationCap == 2

\* The remediation is counted and its artifact written and registered.
Remediate(r) ==
  /\ At(r, "remediate")
  /\ session' = [session EXCEPT !.remediation = IF @ < RemediationCap THEN @ + 1 ELSE @]
  /\ run' = [run EXCEPT ![r].pc = "execute",
                        ![r].todo = <<"CODEGEN_WRITE", "PATCH_APPLY", "EXECUTE_ARTIFACT">>]
  /\ UNCHANGED <<profile, birth, report, attested, staged, failed, repoMissing, planned,
                 everAttested, device, seen, disturbances>>

\* The generated artifact runs, whatever state the session is in.  A source artifact
\* searches and stages files; any other one looks for an adb transport.
Execute(r) ==
  /\ At(r, "execute")
  /\ \/ \E o \in {"artifact_failed", "policy_blocked"} :
          /\ run' = [run EXCEPT ![r].pc = "inspect", ![r].outcome = o,
                                ![r].todo = <<"INSPECT_RESULT">>]
          /\ UNCHANGED staged
     \/ /\ run[r].blocker.type = "source_blocker"
        /\ \E got \in BOOLEAN :
             /\ staged' = IF got /\ staged = "none" THEN "usable" ELSE staged
             /\ run' = [run EXCEPT ![r].pc = "inspect",
                                   ![r].outcome = IF got THEN "solved" ELSE "partial",
                                   ![r].todo = <<"INSPECT_RESULT">>]
     \/ /\ run[r].blocker.type # "source_blocker"
        /\ run' = [run EXCEPT ![r].pc = "inspect",
                              ![r].outcome = IF device.mode = "adb" THEN "solved"
                                             ELSE "needs_user_action",
                              ![r].engage = IF device.mode = "adb" THEN "adb_connected"
                                            ELSE IF device.mode = "unauthorized"
                                              THEN "awaiting_user_approval" ELSE @,
                              ![r].todo = <<"INSPECT_RESULT">>]
        /\ UNCHANGED staged
  /\ UNCHANGED <<session, profile, birth, report, attested, failed, repoMissing, planned,
                 everAttested, device, seen, disturbances>>

\* The artifact confirmed adb: the updates it carries for profile and assessment.
Upgraded(c) == c.outcome = "solved" /\ c.blocker.type # "source_blocker"

\* Mutant of TrailingFailures: an experiment that did not advance is counted twice.
TrailingFailures_Twice(n, advanced) == IF advanced THEN 0 ELSE n + 2

\* record_experiment, as far as it is read: the trailing experiments on a blocker
\* that did not advance.
TrailingFailures(n, advanced) == IF advanced THEN 0 ELSE n + 1

\* Apply the inspection, classify again, select the strategy again when the support
\* changed, and record the experiment.
Inspect(r) ==
  /\ At(r, "inspect")
  /\ LET c     == run[r]
         prof  == IF Upgraded(c) THEN [transport |-> "usb-adb", serial |-> "real"] ELSE profile
         a     == IF Upgraded(c) THEN [support |-> "actionable", restore |-> TRUE, path |-> "install"]
                  ELSE c.assess
         after == Classify(prof.transport, c.engage, a.support, c.outcome, c.ready, session.remediation)
         before   == c.blocker.type
         advanced == \/ Rank(after.type) < Rank(before)
                     \/ after.type = "none"
                     \/ before = "source_blocker" /\ staged # "none"
     IN /\ profile' = prof
        /\ session' = [session EXCEPT !.blocker = after.type,
                         !.strategy = IF a.support # session.support THEN SelectStrategy(a) ELSE @]
        /\ failed' = [failed EXCEPT ![before] = TrailingFailures(@, advanced)]
        /\ run' = [run EXCEPT ![r] =
                    [c EXCEPT !.assess = a, !.transport = prof.transport, !.blocker = after,
                              !.pc = "gate",
                              !.todo = IF after.type # "none" THEN <<"BLOCKER_CLASSIFY">> ELSE <<>>]]
  /\ UNCHANGED <<birth, report, attested, staged, repoMissing, planned,
                 everAttested, device, seen, disturbances>>

\* A blocker the machine may not touch: the model is asked when it may be, and unless
\* it acted (perhaps staging firmware) the session asks the operator.
Ask(r) ==
  /\ At(r, "ask")
  /\ LET c == run[r]
         mayActed == ~c.light /\ c.model /\ c.blocker.type # "policy_blocker"
     IN \/ /\ run' = [run EXCEPT ![r].pc = "gate", ![r].todo = <<"QUESTION_GATE">>]
           /\ UNCHANGED staged
        \/ /\ mayActed
           /\ run' = [run EXCEPT ![r].pc = "gate"]
           /\ \/ UNCHANGED staged
              \/ /\ staged' = IF staged = "none" THEN "usable" ELSE staged
  /\ UNCHANGED <<session, profile, birth, report, attested, failed, repoMissing, planned,
                 everAttested, device, seen, disturbances>>

Candidate(c) ==
  /\ c.assess.support = "actionable"
  /\ c.path # "research_only_path"
  /\ ~c.deferred
  /\ c.transport \in MANAGEABLE_TRANSPORTS

\* Mutant of Previews: the pipelines also run in lightweight mode.
Previews_Always(c) == Candidate(c)

\* preview_ready and execute_runtime_pipelines
Previews(c) == Candidate(c) /\ ~c.light

PreviewStages == <<"PREVIEW_BUILD", "PREVIEW_REVIEW">>
VerifyStages  == <<"INTERACTIVE_VERIFY", "INSTALL_APPROVAL">>

\* Firmware download for a source blocker, backup readiness, preview, verification and
\* install approval.
Gate(r) ==
  /\ At(r, "gate")
  /\ LET c       == run[r]
         preview == Previews(c)
         verify  == preview /\ c.feasible
         search  == ~c.light /\ c.machine /\ c.blocker.type = "source_blocker"
     IN /\ run' = [run EXCEPT ![r] =
                    [c EXCEPT !.pc = "finish", !.installReady = verify,
                              !.todo = <<"BACKUP_READY">>
                                       \o (IF preview THEN PreviewStages ELSE <<>>)
                                       \o (IF verify THEN VerifyStages ELSE <<>>)]]
        /\ \/ UNCHANGED staged
           \/ /\ search /\ staged = "none"
              /\ staged' = "usable"
  /\ UNCHANGED <<session, profile, birth, report, attested, failed, repoMissing, planned,
                 everAttested, device, seen, disturbances>>

\* The end of the cycle: advance, hold, or hand over to the operator.
Finish(r) ==
  /\ At(r, "finish")
  /\ LET c     == run[r]
         clean == c.blocker.type = "none"
         built == c.installReady \/ Candidate(c)
     IN /\ session' = [session EXCEPT !.iterate = IF clean /\ built THEN 0 ELSE @]
        /\ run' = [run EXCEPT ![r] =
                    [c EXCEPT !.pc = IF clean /\ ~built THEN "iterate" ELSE "report",
                              !.todo = IF clean /\ ~built THEN <<"ITERATE">>
                                       ELSE IF clean /\ c.light THEN <<"BUILD_GENERIC">>
                                       ELSE IF ~clean /\ ~c.blocker.solvable THEN <<"QUESTION_GATE">>
                                       ELSE <<>>]]
  /\ UNCHANGED <<profile, birth, report, attested, staged, failed, repoMissing, planned,
                 everAttested, device, seen, disturbances>>

\* Consecutive clean cycles that lead nowhere force a re-probe of the device.
MaxIterate == 2

\* Mutant of Iterate: the re-probe comes one cycle late.
Iterate_Late(r) ==
  /\ At(r, "iterate")
  /\ LET again == session.iterate + 1 > MaxIterate
     IN /\ session' = [session EXCEPT !.iterate = IF again THEN 0 ELSE @ + 1]
        /\ run' = [run EXCEPT ![r].pc = IF again THEN "rescan" ELSE "report",
                              ![r].todo = IF again THEN <<"DEEP_SCAN">> ELSE <<>>]
  /\ UNCHANGED <<profile, birth, report, attested, staged, failed, repoMissing, planned,
                 everAttested, device, seen, disturbances>>

Iterate(r) ==
  /\ At(r, "iterate")
  /\ LET again == session.iterate + 1 >= MaxIterate
     IN /\ session' = [session EXCEPT !.iterate = IF again THEN 0 ELSE @ + 1]
        /\ run' = [run EXCEPT ![r].pc = IF again THEN "rescan" ELSE "report",
                              ![r].todo = IF again THEN <<"DEEP_SCAN">> ELSE <<>>]
  /\ UNCHANGED <<profile, birth, report, attested, staged, failed, repoMissing, planned,
                 everAttested, device, seen, disturbances>>

Rescan(r) ==
  /\ At(r, "rescan")
  /\ profile' = DeepScan(profile)
  /\ run' = [run EXCEPT ![r].pc = "report"]
  /\ UNCHANGED <<session, birth, report, attested, staged, failed, repoMissing, planned,
                 everAttested, device, seen, disturbances>>

\* The runtime plan is written; only an event also rewrites the assessment and
\* engagement reports the next recompute starts from.
WriteReports(r) ==
  /\ At(r, "report")
  /\ planned' = TRUE
  /\ report' = IF run[r].event # "none"
                 THEN [assess |-> run[r].assess, engage |-> run[r].engage, present |-> TRUE]
                 ELSE report
  /\ run' = [run EXCEPT ![r] = Idle]
  /\ UNCHANGED <<session, profile, birth, attested, staged, failed, repoMissing,
                 everAttested, device, seen, disturbances>>

-----------------------------------------------------------------------------
(* The environment.                                                        *)

\* The cable, the phone's prompts and its boot modes.
DeviceChanges(mode) ==
  /\ mode # device.mode
  /\ Disturb
  /\ device' = [device EXCEPT !.mode = mode]
  /\ UNCHANGED <<files, everAttested, seen, run>>

\* The operator puts a firmware file into artifacts/os-source; the starter's review
\* would accept it or reject it for this device.
OperatorStages(kind) ==
  /\ birth # "none"
  /\ staged = "none"
  /\ Disturb
  /\ staged' = kind
  /\ UNCHANGED <<session, profile, birth, report, attested, failed, repoMissing, planned,
                 everAttested, device, seen, run>>

\* The process dies and is started again: memory is lost, files stay.
Crash ==
  /\ Disturb
  /\ seen # {} \/ \E r \in Runners : run[r].pc # "idle"
  /\ run' = [r \in Runners |-> Idle]
  /\ seen' = {}
  /\ UNCHANGED <<files, everAttested, device>>

Step(r) ==
  \/ Move(r) \/ AssessDevice(r) \/ SelectPath(r) \/ LoadReports(r) \/ StartCycle(r)
  \/ ClassifyBlocker(r) \/ Ask(r) \/ Remediate(r) \/ Execute(r) \/ Inspect(r)
  \/ Gate(r) \/ Finish(r) \/ Iterate(r) \/ Rescan(r) \/ WriteReports(r)

Call(r) ==
  \/ \E t \in Events : Attach(r, t) \/ ResumeWaiting(r, t)
  \/ RunNow(r)
  \/ \E lawful \in BOOLEAN : SaveProfile(r, lawful)
  \/ SyncEvidence(r)

Environment ==
  \/ \E mode \in Modes : DeviceChanges(mode)
  \/ \E kind \in {"usable", "rejected"} : OperatorStages(kind)
  \/ Crash

Next == Environment \/ \E r \in Runners : Step(r) \/ Call(r)

Spec == Init /\ [][Next]_vars

\* The threads are scheduled: a call that has begun goes on.
FairSpec == Spec /\ \A r \in Runners : WF_vars(Step(r))

-----------------------------------------------------------------------------
(* Properties.                                                             *)

\* The files and the locals of every call keep their types.
TypeOK ==
  /\ session \in [state : SessionStateName, support : Supports, strategy : Strategies,
                  blocker : BlockerLabels, iterate : 0 .. MaxIterate - 1,
                  remediation : 0 .. RemediationCap]
  /\ profile \in [transport : Transports, serial : {"coarse", "real", "missing"}]
  /\ birth \in Transports \cup {"none"}
  /\ report \in [assess : Assessments, engage : Engagements, present : BOOLEAN]
  /\ attested \in BOOLEAN /\ everAttested \in BOOLEAN
  /\ staged \in {"none", "usable", "rejected"}
  /\ failed \in [Blockers -> Nat]
  /\ repoMissing \in BOOLEAN /\ planned \in BOOLEAN
  /\ device \in [mode : AllModes, locked : BOOLEAN]
  /\ seen \subseteq Transports
  /\ disturbances \in Nat
  /\ run \in [Runners -> Calls]

\* Stages of a session from which an install is built, reviewed or carried out.
InstallStages == {"PREVIEW_BUILD", "PREVIEW_REVIEW", "INTERACTIVE_VERIFY", "INSTALL_APPROVAL",
                  "BUILD_GENERIC", "BUILD_DEVICE", "SIGN_IMAGES", "FLASH_PREP", "FLASH"}

\* While the operator has never attested lawful use, no interleaving of device events,
\* cycles, GUI actions and crashes brings the session into an install stage
\* (build_resolver.py: install planning stays research-only until it is attested).
LawfulUse == ~everAttested => session.state \notin InstallStages

FullRunners == Runners \ {"gui"}

\* Non-advancing remediations of one kind of blocker stop after MaxFailures
\* (deliberation.py: require new evidence before another loop); every further thread
\* that had passed the check before the last failure was recorded may add one.
BoundedFailures ==
  \A b \in Blockers : failed[b] <= MaxFailures + Cardinality(FullRunners) - 1

\* The session is offered for install approval only while its profile shows a transport
\* that can be managed and flashable files are staged (orchestrator.py, install_ready).
ApprovalHasEvidence ==
  [][session.state # "INSTALL_APPROVAL" /\ session'.state = "INSTALL_APPROVAL"
       => profile.transport \in MANAGEABLE_TRANSPORTS /\ staged # "none"]_vars

Executing == {"REMEDIATION_DECIDE", "TASK_CREATE", "CODEGEN_WRITE", "PATCH_APPLY",
              "EXECUTE_ARTIFACT", "INSPECT_RESULT"}

\* A lightweight refresh of the GUI never runs an artifact, whatever the rest of the
\* process does: with no full cycle in flight the session is not moved into a
\* remediation or preview stage and no remediation is counted
\* (orchestrator.py: execute_workers and execute_runtime_pipelines are off).
LightweightIsPassive ==
  [][(\A r \in FullRunners : run[r].pc = "idle" /\ run'[r].pc = "idle")
       => /\ session'.remediation = session.remediation
          /\ failed' = failed
          /\ session'.state # session.state
               => session'.state \notin Executing \cup {"PREVIEW_BUILD", "INSTALL_APPROVAL"}]_vars

\* Every call of the orchestrator comes to its end (or to a crash): no guard of the
\* cycle leaves a thread waiting for a state that a refused transition never produced.
CallsEnd == \A r \in Runners : run[r].pc # "idle" ~> run[r].pc = "idle"

=============================================================================
