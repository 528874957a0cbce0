------------------------ MODULE SessionRuntimeProofs ------------------------
(***************************************************************************)
(* Proofs about SessionRuntime, for any threads, events, modes of the      *)
(* device and number of disturbances; for any number of overlapping calls  *)
(* except where a theorem says otherwise.                                  *)
(***************************************************************************)
EXTENDS SessionRuntime, FiniteSetTheorems, TLAPS

Sessions == [state : SessionStateName, support : Supports, strategy : Strategies,
             blocker : BlockerLabels, iterate : 0 .. MaxIterate - 1,
             remediation : 0 .. RemediationCap]
Profiles == [transport : Transports, serial : {"coarse", "real", "missing"}]
Verdicts == [type : Blockers, solvable : BOOLEAN]

-----------------------------------------------------------------------------
(* The pure parts of the cycle.                                            *)

\* The states that calls ask for are states of the table.
LEMMA States ==
  /\ {"DEVICE_ATTACHED", "DISCOVER", "PROFILE_SYNTHESIS", "ASSESS", "MATCH_MASTER", "BACKUP_PLAN",
      "BLOCKED", "PATH_SELECT", "RECOMMEND", "BLOCKER_CLASSIFY", "REMEDIATION_DECIDE",
      "TASK_CREATE", "CODEGEN_WRITE", "PATCH_APPLY", "EXECUTE_ARTIFACT", "INSPECT_RESULT",
      "QUESTION_GATE", "BACKUP_READY", "PREVIEW_BUILD", "PREVIEW_REVIEW", "INTERACTIVE_VERIFY",
      "INSTALL_APPROVAL", "BUILD_GENERIC", "ITERATE", "DEEP_SCAN"} \subseteq SessionStateName
BY DEF SessionStateName, ALLOWED_TRANSITIONS

\* The stages that run an artifact, build a preview or offer the install.
Loud == Executing \cup {"PREVIEW_BUILD", "INSTALL_APPROVAL"}

\* The stages any cycle may ask for.
Calm == SessionStateName \ (InstallStages \cup Loud)

\* The states that every cycle asks for are calm.
LEMMA CalmStates ==
  /\ {"DEVICE_ATTACHED", "DISCOVER", "PROFILE_SYNTHESIS", "ASSESS", "MATCH_MASTER", "BACKUP_PLAN",
      "BLOCKED", "PATH_SELECT", "RECOMMEND", "BLOCKER_CLASSIFY", "QUESTION_GATE", "BACKUP_READY",
      "ITERATE", "DEEP_SCAN"} \subseteq Calm
  /\ Calm \subseteq SessionStateName
BY States DEF Calm, InstallStages, Loud, Executing

\* A plan drawn from fewer stages is one drawn from more.
LEMMA Wider ==
  ASSUME NEW S, NEW T, S \subseteq T, NEW q \in Seq(S) PROVE q \in Seq(T)
OBVIOUS

\* A transition is made or dropped.
LEMMA SafeTransition ==
  ASSUME NEW s \in SessionStateName, NEW t \in SessionStateName
  PROVE  safe_transition(s, t) \in SessionStateName /\ safe_transition(s, t) \in {s, t}
BY DEF safe_transition

\* What a transport shows of the serial.
LEMMA SerialType == \A t \in Transports : SerialOf(t) \in {"coarse", "real", "missing"}
BY DEF Transports, SerialOf

\* The assessor's answers are assessments.
LEMMA AssessType ==
  ASSUME NEW t \in Transports, NEW s, NEW locked \in BOOLEAN
  PROVE  Assess(t, s, locked) \in Assessments
BY DEF Assess, Assessments, Supports

\* The engagement tool's answers are engagements.
LEMMA EngageType ==
  ASSUME NEW t \in Transports, NEW m \in AllModes PROVE Engage(t, m) \in Engagements
BY DEF Engage, Engagements, Transports, AllModes, MANAGEABLE_TRANSPORTS

\* The strategy selector's answers are strategies.
LEMMA StrategyType == \A a \in Assessments : SelectStrategy(a) \in Strategies
BY DEF Assessments, Supports, SelectStrategy, Strategies

\* Without an attestation the build path is research only.
LEMMA PathType ==
  ASSUME NEW l \in BOOLEAN, NEW s, NEW g
  PROVE  /\ OsPath(l, s, g) \in {"research_only_path", "blocked_path", "install"}
         /\ ~l => OsPath(l, s, g) = "research_only_path"
BY DEF OsPath

\* The verdict of the blocker engine, and what a source blocker means for it.
LEMMA ClassifyType ==
  ASSUME NEW t, NEW e, NEW s, NEW o, NEW ready, NEW i \in 0 .. RemediationCap
  PROVE  LET b == Classify(t, e, s, o, ready, i)
         IN  /\ b \in Verdicts
             /\ b.type = "source_blocker" /\ ready =>
                  ~(s = "actionable" /\ t \in MANAGEABLE_TRANSPORTS)
<1> DEFINE b == Classify(t, e, s, o, ready, i)
<1>1. (i < 2) \in BOOLEAN
  OBVIOUS
<1>2. \A type \in Blockers, solvable \in BOOLEAN :
        /\ Blocker(type, solvable) \in Verdicts /\ Blocker(type, solvable).type = type
  BY DEF Blocker, Verdicts
<1>3. {"none", "source_blocker", "transport_blocker", "subsystem_blocker", "trust_blocker",
       "physical_action_blocker", "policy_blocker"} \subseteq Blockers
  BY DEF Blockers
<1> HIDE DEF b
<1>4. \/ b = Blocker("none", FALSE) \/ b = Blocker("transport_blocker", TRUE)
      \/ b = Blocker("trust_blocker", FALSE) \/ b = Blocker("policy_blocker", FALSE)
      \/ b = Blocker("physical_action_blocker", FALSE) \/ b = Blocker("subsystem_blocker", i < 2)
      \/ /\ b = Blocker("source_blocker", TRUE)
         /\ \/ s = "research_only" \/ t \notin MANAGEABLE_TRANSPORTS
            \/ s = "actionable" /\ ~ready
  BY DEF b, Classify, RequiresCodex
<1>5. b \in Verdicts
  BY ZenonT(40), <1>1, <1>2, <1>3, <1>4
<1>6. b.type = "source_blocker" => \/ s = "research_only" \/ t \notin MANAGEABLE_TRANSPORTS
                                   \/ ~ready
  <2>1. CASE b = Blocker("subsystem_blocker", i < 2)
    BY <1>1, <1>2, <1>3, <2>1
  <2>2. QED BY <1>2, <1>3, <1>4, <2>1
<1>7. QED BY <1>5, <1>6 DEF b

\* A thread outside a call is typed and has nothing to do.
LEMMA IdleType ==
  /\ Idle \in Calls /\ Idle.pc = "idle" /\ Idle.todo = <<>> /\ ~Idle.light /\ ~Idle.lawful
  /\ Idle.path = "research_only_path" /\ Idle.deferred /\ ~Idle.ready /\ ~Idle.installReady
<1>1. <<>> \in Seq(SessionStateName)
  OBVIOUS
<1>2. NoReport.assess \in Assessments
  BY DEF NoReport, Assessments, Supports
<1>3. Blocker("none", FALSE) \in [type : Blockers, solvable : BOOLEAN]
  BY DEF Blocker, Blockers
<1>4. QED BY <1>1, <1>2, <1>3 DEF Idle, Calls, PCs, Transports, Engagements, Outcomes

\* The deep scan makes a profile of a profile.
LEMMA ScanType == ASSUME NEW p \in Profiles PROVE DeepScan(p) \in Profiles
BY DEF DeepScan, Profiles, Transports

-----------------------------------------------------------------------------
(* What each step of a call does with its locals.                          *)

\* r goes on with the locals d.
Takes(r, d) == d \in Calls /\ run' = [run EXCEPT ![r] = d]

\* A step of one thread leaves the others' locals alone.
LEMMA TakesRun ==
  ASSUME TypeOK, NEW r \in Runners, NEW d, Takes(r, d)
  PROVE  /\ run' \in [Runners -> Calls] /\ run'[r] = d
         /\ \A s \in Runners \ {r} : run'[s] = run[s]
BY DEF TypeOK, Takes

\* What stays as it is between the planning of a cycle and its end.
Keeps(c, d) ==
  /\ d.light = c.light /\ d.lawful = c.lawful /\ d.path = c.path /\ d.ready = c.ready
  /\ d.deferred = c.deferred

\* One transition of the plan is made or dropped.
LEMMA MoveEffect ==
  ASSUME TypeOK, NEW r \in Runners, Move(r)
  PROVE  /\ Head(run[r].todo) \in SessionStateName /\ run[r].todo # <<>>
         /\ \E d : /\ Takes(r, d) /\ Keeps(run[r], d) /\ d.pc = run[r].pc
                   /\ d.todo = Tail(run[r].todo) /\ d.installReady = run[r].installReady
                   /\ d.blocker = run[r].blocker /\ d.assess = run[r].assess
                   /\ d.transport = run[r].transport /\ d.event = run[r].event
<1> DEFINE c == run[r]
           d == [c EXCEPT !.todo = Tail(@)]
<1>1. c \in Calls /\ c.todo # <<>> /\ c.todo \in Seq(SessionStateName)
  BY DEF TypeOK, Move, Calls
<1>2. Head(c.todo) \in SessionStateName /\ Tail(c.todo) \in Seq(SessionStateName)
  BY <1>1
<1>3. d \in Calls /\ d.todo = Tail(c.todo) /\ d.pc = c.pc
  BY <1>1, <1>2 DEF Calls
<1>4. Keeps(c, d) /\ d.installReady = c.installReady /\ d.blocker = c.blocker
      /\ d.assess = c.assess /\ d.transport = c.transport /\ d.event = c.event
  BY <1>1 DEF Calls, Keeps
<1>5. run' = [run EXCEPT ![r] = d]
  BY DEF TypeOK, Move
<1>6. QED BY <1>1, <1>2, <1>3, <1>4, <1>5 DEF Takes

\* The assessment of an event plans calm stages only.
LEMMA AssessDeviceEffect ==
  ASSUME TypeOK, NEW r \in Runners, AssessDevice(r), run[r].event \in Transports
  PROVE  \E d : /\ Takes(r, d) /\ Keeps(run[r], d) /\ d.pc = "select" /\ d.event = run[r].event
                /\ d.todo \in Seq(Calm)
                /\ d.installReady = run[r].installReady
<1> DEFINE c == run[r]
           a == Assess(c.event, SerialOf(c.event), device.locked)
           e == Engage(c.event, device.mode)
           d == [c EXCEPT !.pc = "select", !.assess = a, !.engage = e,
                          !.todo = <<"MATCH_MASTER", "BACKUP_PLAN">>]
<1>1. c \in Calls /\ device.locked \in BOOLEAN /\ device.mode \in AllModes
  BY DEF TypeOK
<1>2. a \in Assessments /\ e \in Engagements
  BY <1>1, AssessType, EngageType
<1>3. <<"MATCH_MASTER", "BACKUP_PLAN">> \in Seq(Calm)
      /\ <<"MATCH_MASTER", "BACKUP_PLAN">> \in Seq(SessionStateName)
  BY CalmStates
<1> HIDE DEF a, e
<1>4. d \in Calls
  BY <1>1, <1>2, <1>3 DEF Calls, PCs
<1>5. Keeps(c, d) /\ d.pc = "select" /\ d.event = c.event /\ d.installReady = c.installReady
      /\ d.todo = <<"MATCH_MASTER", "BACKUP_PLAN">>
  BY <1>1 DEF Calls, Keeps
<1>6. run' = [run EXCEPT ![r] = d]
  BY DEF TypeOK, AssessDevice, a, e
<1>7. QED BY <1>3, <1>4, <1>5, <1>6 DEF Takes

\* The path of an event plans calm stages only.
LEMMA SelectPathEffect ==
  ASSUME TypeOK, NEW r \in Runners, SelectPath(r)
  PROVE  /\ session' \in Sessions /\ session'.state = session.state
         /\ session'.remediation = session.remediation
         /\ \E d : /\ Takes(r, d) /\ d.pc = "start" /\ d.lawful = attested
                   /\ d.todo \in Seq(Calm)
                   /\ d.light = run[r].light /\ d.path = run[r].path /\ d.ready = run[r].ready
                   /\ d.deferred = run[r].deferred /\ d.installReady = run[r].installReady
<1> DEFINE c == run[r]
           D(todo) == [c EXCEPT !.pc = "start", !.lawful = attested, !.todo = todo]
<1>1. c \in Calls /\ attested \in BOOLEAN /\ session \in Sessions
  BY DEF TypeOK, Sessions
<1>2. ASSUME NEW todo \in Seq(SessionStateName)
      PROVE  /\ D(todo) \in Calls /\ D(todo).pc = "start" /\ D(todo).lawful = attested
             /\ D(todo).todo = todo /\ D(todo).light = c.light /\ D(todo).path = c.path
             /\ D(todo).ready = c.ready /\ D(todo).deferred = c.deferred
             /\ D(todo).installReady = c.installReady
  BY ZenonT(40), <1>1 DEF Calls, PCs
<1>3. /\ <<"BLOCKED">> \in Seq(Calm) /\ <<"PATH_SELECT">> \in Seq(Calm)
      /\ \A s \in Seq(Calm) : s \in Seq(SessionStateName)
  BY CalmStates
<1>4. run' = [run EXCEPT ![r] = D(<<"BLOCKED">>)] \/ run' = [run EXCEPT ![r] = D(<<"PATH_SELECT">>)]
  BY ZenonT(40) DEF TypeOK, SelectPath
<1>5. /\ session' \in Sessions /\ session'.state = session.state
      /\ session'.remediation = session.remediation
  <2>1. c.assess \in Assessments
    BY <1>1 DEF Calls
  <2>2. SelectStrategy(c.assess) \in Strategies /\ c.assess.support \in Supports
    BY <2>1, StrategyType DEF Assessments
  <2>3. session' = session \/ session' = [session EXCEPT !.strategy = SelectStrategy(c.assess),
                                                         !.support = c.assess.support]
    BY DEF SelectPath
  <2>4. QED BY <1>1, <2>2, <2>3 DEF Sessions
<1> HIDE DEF D
<1>6. CASE run' = [run EXCEPT ![r] = D(<<"BLOCKED">>)]
  BY <1>2, <1>3, <1>5, <1>6 DEF Takes
<1>7. CASE run' = [run EXCEPT ![r] = D(<<"PATH_SELECT">>)]
  BY <1>2, <1>3, <1>5, <1>7 DEF Takes
<1>8. QED BY <1>4, <1>6, <1>7

\* A recomputed cycle starts from the reports on disk.
LEMMA LoadReportsEffect ==
  ASSUME TypeOK, NEW r \in Runners, LoadReports(r)
  PROVE  \E d : /\ Takes(r, d) /\ d.pc = "start" /\ d.lawful = attested /\ d.todo = <<>>
                /\ d.light = run[r].light /\ d.path = run[r].path /\ d.ready = run[r].ready
                /\ d.deferred = run[r].deferred /\ d.installReady = run[r].installReady
<1> DEFINE c == run[r]
           a == IF report.present THEN report.assess
                ELSE [NoReport.assess EXCEPT !.support = session.support]
           d == [c EXCEPT !.pc = "start", !.lawful = attested, !.engage = report.engage,
                          !.assess = a]
<1>1. c \in Calls /\ attested \in BOOLEAN /\ report.engage \in Engagements /\ c.todo = <<>>
  BY DEF TypeOK, LoadReports, At
<1>2. a \in Assessments
  BY DEF TypeOK, NoReport, Assessments
<1>3. run' = [run EXCEPT ![r] = d]
  BY DEF TypeOK, LoadReports
<1> HIDE DEF a
<1>4. d \in Calls
  BY <1>1, <1>2 DEF Calls, PCs
<1>5. /\ d.pc = "start" /\ d.lawful = attested /\ d.todo = <<>>
      /\ d.light = c.light /\ d.path = c.path /\ d.ready = c.ready
      /\ d.deferred = c.deferred /\ d.installReady = c.installReady
  BY <1>1 DEF Calls
<1>6. QED BY <1>3, <1>4, <1>5 DEF Takes

\* The plan of a cycle, from what it has read of profile, form and files.
LEMMA StartCycleEffect ==
  ASSUME TypeOK, NEW r \in Runners, StartCycle(r)
  PROVE  /\ profile' \in Profiles /\ staged' \in {"none", "usable", "rejected"}
         /\ repoMissing' \in BOOLEAN /\ (staged # "none" => staged' # "none")
         /\ \E d : /\ Takes(r, d) /\ d.pc = "classify"
                   /\ d.todo \in Seq(Calm) /\ Len(d.todo) = 2
                   /\ d.transport = profile'.transport
                   /\ d.path = OsPath(d.lawful, d.assess.support, session.strategy)
                   /\ d.ready => staged' # "none"
                   /\ ~d.deferred => d.ready
                   /\ d.light = run[r].light /\ d.lawful = run[r].lawful
                   /\ d.installReady = run[r].installReady
<1> DEFINE prof == IF session.state = "DEEP_SCAN" THEN DeepScan(profile) ELSE profile
           path == OsPath(run[r].lawful, run[r].assess.support, session.strategy)
           feas == \/ run[r].assess.restore
                   \/ /\ prof.transport = "usb-adb" /\ prof.serial = "real"
                      /\ device.mode = "adb"
           c    == [run[r] EXCEPT !.transport = prof.transport, !.path = path, !.feasible = feas]
<1>1. run[r] \in Calls /\ profile \in Profiles
  BY DEF TypeOK, Profiles
<1>2. prof \in Profiles
  BY <1>1, ScanType
<1>3. run[r].lawful \in BOOLEAN /\ run[r].assess \in Assessments
  BY <1>1 DEF Calls
<1>4. path \in {"research_only_path", "blocked_path", "install"} /\ feas \in BOOLEAN
  BY <1>3, PathType DEF Assessments
<1>5. /\ profile' = prof
      /\ \/ /\ staged # "none"
            /\ run' = [run EXCEPT ![r] = Plan(c, TRUE)]
            /\ UNCHANGED <<staged, repoMissing>>
         \/ /\ staged = "none"
            /\ run' = [run EXCEPT ![r] = Plan(c, FALSE)]
            /\ UNCHANGED <<staged, repoMissing>>
         \/ /\ staged = "none"
            /\ \E got \in BOOLEAN :
                 /\ staged' = IF got THEN "usable" ELSE "none"
                 /\ run' = [run EXCEPT ![r] = Plan(c, got)]
                 /\ repoMissing' \in IF got THEN {repoMissing} ELSE {repoMissing, TRUE}
  BY Zenon DEF StartCycle
<1> HIDE DEF prof, path, feas
<1>6. /\ c \in Calls /\ c.transport = prof.transport /\ c.path = path /\ c.light = run[r].light
      /\ c.lawful = run[r].lawful /\ c.installReady = run[r].installReady
      /\ c.assess = run[r].assess
  BY ZenonT(40), <1>1, <1>2, <1>4 DEF Calls, Profiles
<1> HIDE DEF c
<1>7. ASSUME NEW ready \in BOOLEAN, run' = [run EXCEPT ![r] = Plan(c, ready)],
             ready => staged' # "none", profile' = prof
      PROVE  \E d : /\ Takes(r, d) /\ d.pc = "classify"
                    /\ d.todo \in Seq(Calm) /\ Len(d.todo) = 2
                    /\ d.transport = profile'.transport
                    /\ d.path = OsPath(d.lawful, d.assess.support, session.strategy)
                    /\ d.ready => staged' # "none"
                    /\ ~d.deferred => d.ready
                    /\ d.light = run[r].light /\ d.lawful = run[r].lawful
                    /\ d.installReady = run[r].installReady
  <2> DEFINE late == c.assess.support # "actionable" \/ c.path = "research_only_path" \/ ~ready
             d == [c EXCEPT !.ready = ready, !.pc = "classify", !.deferred = late,
                            !.todo = <<"RECOMMEND", "BLOCKER_CLASSIFY">>]
  <2>1. /\ <<"RECOMMEND", "BLOCKER_CLASSIFY">> \in Seq(Calm)
        /\ <<"RECOMMEND", "BLOCKER_CLASSIFY">> \in Seq(SessionStateName)
        /\ late \in BOOLEAN /\ (~late => ready)
    BY CalmStates
  <2>2. run' = [run EXCEPT ![r] = d]
    BY <1>7 DEF Plan
  <2> HIDE DEF late
  <2>3. d \in Calls
    BY ZenonT(40), <1>6, <2>1 DEF Calls, PCs
  <2>4. /\ d.pc = "classify" /\ d.todo = <<"RECOMMEND", "BLOCKER_CLASSIFY">>
        /\ d.transport = c.transport /\ d.path = c.path /\ d.lawful = c.lawful
        /\ d.assess = c.assess /\ d.ready = ready /\ d.deferred = late
        /\ d.light = c.light /\ d.installReady = c.installReady
    BY <1>6 DEF Calls
  <2> HIDE DEF d
  <2>5. /\ Takes(r, d) /\ d.pc = "classify" /\ d.todo \in Seq(Calm) /\ Len(d.todo) = 2
        /\ d.transport = profile'.transport /\ d.path = path /\ d.lawful = run[r].lawful
        /\ d.assess = run[r].assess /\ d.light = run[r].light
        /\ d.installReady = run[r].installReady
    BY <1>6, <1>7, <2>1, <2>2, <2>3, <2>4 DEF Takes
  <2>6. (d.ready => staged' # "none") /\ (~d.deferred => d.ready)
    BY <1>7, <2>1, <2>4
  <2>7. d.path = OsPath(d.lawful, d.assess.support, session.strategy)
    BY <2>5 DEF path
  <2>8. QED BY <2>5, <2>6, <2>7
<1>8. /\ staged' \in {"none", "usable", "rejected"} /\ repoMissing' \in BOOLEAN
      /\ staged # "none" => staged' # "none"
  BY <1>5 DEF TypeOK
<1>9. \E ready \in BOOLEAN : /\ run' = [run EXCEPT ![r] = Plan(c, ready)]
                             /\ ready => staged' # "none"
  BY <1>5
<1>10. QED BY <1>2, <1>5, <1>7, <1>8, <1>9

Kinds == {"none", "usable", "rejected"}
Quiet == SessionStateName \ InstallStages

\* Which sets of stages contain which.
LEMMA QuietStates ==
  /\ Executing \subseteq Quiet /\ Calm \subseteq Quiet /\ Quiet \subseteq SessionStateName
  /\ Calm \subseteq SessionStateName \ Loud
  /\ Quiet \subseteq SessionStateName \ {"INSTALL_APPROVAL"}
BY States DEF Quiet, Calm, InstallStages, Loud, Executing

\* Staged files are dropped only for a source blocker, which a plan that has its files
\* and could go to the gate never meets.
LEMMA ClassifyBlockerEffect ==
  ASSUME TypeOK, NEW r \in Runners, ClassifyBlocker(r)
  PROVE  /\ session' \in Sessions /\ session'.state = session.state
         /\ session'.remediation = session.remediation
         /\ staged' \in Kinds
         /\ \E d : /\ Takes(r, d) /\ Keeps(run[r], d) /\ d.installReady = run[r].installReady
                   /\ d.transport = run[r].transport /\ d.assess = run[r].assess
                   /\ \/ /\ d.pc = "remediate" /\ ~d.light /\ d.todo \in Seq(Quiet)
                         /\ failed[d.blocker.type] < MaxFailures
                      \/ d.pc \in {"ask", "gate"} /\ d.todo = <<>>
                   /\ Len(d.todo) \in {0, 2}
                   /\ staged' = staged \/ d.blocker.type = "source_blocker"
                   /\ d.blocker.type = "source_blocker" /\ d.ready => ~Candidate(d)
<1> DEFINE c == run[r]
           b == Classify(c.transport, c.engage, c.assess.support, "", c.ready, session.remediation)
           goes == b.solvable /\ ~c.light /\ MachineAllowed(b)
           quarantine == b.type = "source_blocker" /\ staged = "rejected"
           where == IF goes THEN "remediate" ELSE IF b.type # "none" THEN "ask" ELSE "gate"
           todo == IF goes THEN <<"REMEDIATION_DECIDE", "TASK_CREATE">> ELSE <<>>
           D(model) == [c EXCEPT !.blocker = b, !.machine = MachineAllowed(b), !.model = model,
                                 !.pc = where, !.todo = todo]
<1>1. c \in Calls /\ session \in Sessions /\ staged \in Kinds /\ repoMissing \in BOOLEAN
      /\ failed \in [Blockers -> Nat]
  BY DEF TypeOK, Sessions, Kinds
<1>2. session.remediation \in 0 .. RemediationCap
  BY <1>1 DEF Sessions
<1>3. /\ b \in Verdicts
      /\ b.type = "source_blocker" /\ c.ready =>
           ~(c.assess.support = "actionable" /\ c.transport \in MANAGEABLE_TRANSPORTS)
  BY <1>2, ClassifyType
<1>4. \E model \in BOOLEAN : run' = [run EXCEPT ![r] = D(model)]
  BY Zenon DEF ClassifyBlocker
<1>5. session' = [session EXCEPT !.blocker = b.type] /\ staged' = IF quarantine THEN "none" ELSE staged
  BY DEF ClassifyBlocker
<1> HIDE DEF b
<1>6. b.type \in Blockers /\ b.solvable \in BOOLEAN
  BY <1>3 DEF Verdicts
<1>7. session' \in Sessions /\ session'.state = session.state
      /\ session'.remediation = session.remediation /\ staged' \in Kinds
  BY <1>1, <1>5, <1>6 DEF Sessions, Kinds, BlockerLabels
<1>8. MachineAllowed(b) \in BOOLEAN /\ (MachineAllowed(b) => failed[b.type] < MaxFailures)
  BY <1>1, <1>6 DEF MachineAllowed
<1>9. c.light \in BOOLEAN /\ goes \in BOOLEAN
  BY <1>1, <1>6, <1>8 DEF Calls
<1>10. where \in PCs /\ todo \in Seq(SessionStateName)
  BY <1>9, States DEF PCs
<1>11. \/ where = "remediate" /\ ~c.light /\ failed[b.type] < MaxFailures
          /\ todo = <<"REMEDIATION_DECIDE", "TASK_CREATE">>
       \/ where \in {"ask", "gate"} /\ todo = <<>>
  BY <1>8
<1>12. <<"REMEDIATION_DECIDE", "TASK_CREATE">> \in Seq(Quiet)
  BY QuietStates DEF Executing
<1>13. staged' = staged \/ b.type = "source_blocker"
  BY <1>5
<1>14. PICK model \in BOOLEAN : run' = [run EXCEPT ![r] = D(model)]
  BY <1>4
<1> DEFINE d == D(model)
<1> HIDE DEF where, todo, goes, quarantine
<1>15. d \in Calls
  BY <1>1, <1>3, <1>8, <1>10 DEF Calls, Verdicts
<1>16. /\ d.pc = where /\ d.todo = todo /\ d.blocker = b
       /\ d.installReady = c.installReady /\ d.transport = c.transport /\ d.assess = c.assess
       /\ Keeps(c, d)
  BY <1>1 DEF Calls, Keeps
<1>17. Takes(r, d)
  BY <1>14, <1>15 DEF Takes
<1> HIDE DEF d
<1>18. d.blocker.type = "source_blocker" /\ d.ready => ~Candidate(d)
  BY <1>3, <1>16 DEF Candidate, Keeps
<1>19. \/ /\ d.pc = "remediate" /\ ~d.light /\ d.todo \in Seq(Quiet)
          /\ failed[d.blocker.type] < MaxFailures
       \/ d.pc \in {"ask", "gate"} /\ d.todo = <<>>
  BY <1>11, <1>12, <1>16 DEF Keeps
<1>20. Len(d.todo) \in {0, 2}
  <2>1. Len(<<"REMEDIATION_DECIDE", "TASK_CREATE">>) = 2 /\ Len(<<>>) = 0
    OBVIOUS
  <2>2. QED BY <1>11, <1>16, <2>1
<1>21. staged' = staged \/ d.blocker.type = "source_blocker"
  BY <1>13, <1>16
<1>22. QED BY <1>7, <1>16, <1>17, <1>18, <1>19, <1>20, <1>21

\* The steps between the classification and the gate neither drop staged files nor
\* touch what the gate decides from.
Stays(c, d) ==
  /\ Keeps(c, d) /\ d.installReady = c.installReady
  /\ d.transport = c.transport /\ d.assess = c.assess /\ d.blocker = c.blocker

\* A blocker that is the operator's leads to the question gate.
LEMMA AskEffect ==
  ASSUME TypeOK, NEW r \in Runners, Ask(r)
  PROVE  /\ staged' \in Kinds /\ (staged # "none" => staged' # "none")
         /\ \E d : Takes(r, d) /\ Stays(run[r], d) /\ d.pc = "gate" /\ d.todo \in Seq(Calm)
<1> DEFINE c == run[r]
           D(todo) == [c EXCEPT !.pc = "gate", !.todo = todo]
<1>1. c \in Calls /\ c.todo = <<>> /\ staged \in Kinds
  BY DEF TypeOK, Ask, At, Kinds
<1>2. staged' \in Kinds /\ (staged # "none" => staged' # "none")
  BY SMTT(30), <1>1 DEF Ask, Kinds
<1>3. \E todo \in Seq(Calm) : run' = [run EXCEPT ![r] = D(todo)]
  <2>1. <<"QUESTION_GATE">> \in Seq(Calm) /\ <<>> \in Seq(Calm)
    BY CalmStates
  <2>2. [c EXCEPT !.pc = "gate"] = D(<<>>)
    BY <1>1 DEF Calls
  <2>3. CASE run' = [run EXCEPT ![r].pc = "gate", ![r].todo = <<"QUESTION_GATE">>]
    <3>1. run' = [run EXCEPT ![r] = D(<<"QUESTION_GATE">>)]
      BY <2>3 DEF TypeOK
    <3>2. QED BY <2>1, <3>1
  <2>4. CASE run' = [run EXCEPT ![r].pc = "gate"]
    <3>1. run' = [run EXCEPT ![r] = [c EXCEPT !.pc = "gate"]]
      BY <2>4 DEF TypeOK
    <3>2. QED BY <2>1, <2>2, <3>1
  <2>5. QED BY <2>3, <2>4 DEF Ask
<1>4. PICK todo \in Seq(Calm) : run' = [run EXCEPT ![r] = D(todo)]
  BY <1>3
<1>5. todo \in Seq(SessionStateName)
  BY <1>4, CalmStates, Wider
<1>6. D(todo) \in Calls
  BY <1>1, <1>5 DEF Calls, PCs
<1>7. Stays(c, D(todo)) /\ D(todo).pc = "gate" /\ D(todo).todo = todo
  BY <1>1 DEF Calls, Stays, Keeps
<1> HIDE DEF D
<1>8. QED BY <1>2, <1>4, <1>6, <1>7 DEF Takes

\* The writing of an artifact is the plan of a full cycle.
LEMMA RemediateEffect ==
  ASSUME TypeOK, NEW r \in Runners, Remediate(r)
  PROVE  /\ session' \in Sessions /\ session'.state = session.state
         /\ \E d : Takes(r, d) /\ Stays(run[r], d) /\ d.pc = "execute" /\ d.todo \in Seq(Quiet)
<1> DEFINE c == run[r]
           todo == <<"CODEGEN_WRITE", "PATCH_APPLY", "EXECUTE_ARTIFACT">>
           d == [c EXCEPT !.pc = "execute", !.todo = todo]
<1>1. c \in Calls /\ session \in Sessions
  BY DEF TypeOK, Sessions
<1>2. session' \in Sessions /\ session'.state = session.state
  BY <1>1 DEF Remediate, Sessions, RemediationCap
<1>3. todo \in Seq(Quiet) /\ todo \in Seq(SessionStateName)
  BY QuietStates DEF Executing
<1>4. run' = [run EXCEPT ![r] = d]
  BY DEF TypeOK, Remediate
<1> HIDE DEF todo
<1>5. d \in Calls
  BY <1>1, <1>3 DEF Calls, PCs
<1>6. Stays(c, d) /\ d.pc = "execute" /\ d.todo = todo
  BY <1>1 DEF Calls, Stays, Keeps
<1> HIDE DEF d
<1>7. QED BY <1>2, <1>3, <1>4, <1>5, <1>6 DEF Takes

\* The run of an artifact may change profile and assessment.
LEMMA ExecuteEffect ==
  ASSUME TypeOK, NEW r \in Runners, Execute(r)
  PROVE  /\ staged' \in Kinds /\ (staged # "none" => staged' # "none")
         /\ \E d : /\ Takes(r, d) /\ Stays(run[r], d) /\ d.pc = "inspect"
                   /\ d.todo \in Seq(Quiet) /\ Len(d.todo) = 1
<1> DEFINE c == run[r]
           D(o, e) == [c EXCEPT !.pc = "inspect", !.outcome = o, !.engage = e,
                                !.todo = <<"INSPECT_RESULT">>]
<1>1. c \in Calls /\ staged \in Kinds
  BY DEF TypeOK, Kinds
<1>2. staged' \in Kinds /\ (staged # "none" => staged' # "none")
  BY <1>1 DEF Execute, Kinds
<1>3. c.engage \in Engagements
  BY SMTT(30), <1>1 DEF Calls
<1>4. \E o \in Outcomes, e \in Engagements : run' = [run EXCEPT ![r] = D(o, e)]
  <2>1. ASSUME NEW o \in Outcomes,
               run' = [run EXCEPT ![r].pc = "inspect", ![r].outcome = o,
                                  ![r].todo = <<"INSPECT_RESULT">>]
        PROVE  run' = [run EXCEPT ![r] = D(o, c.engage)]
    BY ZenonT(40), <1>1, <2>1 DEF TypeOK, Calls
  <2>2. CASE \E o \in {"artifact_failed", "policy_blocked", "solved", "partial"} :
               run' = [run EXCEPT ![r].pc = "inspect", ![r].outcome = o,
                                  ![r].todo = <<"INSPECT_RESULT">>]
    <3>1. PICK o \in Outcomes : run' = [run EXCEPT ![r].pc = "inspect", ![r].outcome = o,
                                                   ![r].todo = <<"INSPECT_RESULT">>]
      BY <2>2 DEF Outcomes
    <3>2. QED BY <1>3, <2>1, <3>1
  <2>3. CASE run' = [run EXCEPT ![r].pc = "inspect",
                                ![r].outcome = IF device.mode = "adb" THEN "solved"
                                               ELSE "needs_user_action",
                                ![r].engage = IF device.mode = "adb" THEN "adb_connected"
                                              ELSE IF device.mode = "unauthorized"
                                                THEN "awaiting_user_approval" ELSE @,
                                ![r].todo = <<"INSPECT_RESULT">>]
    <3> DEFINE o == IF device.mode = "adb" THEN "solved" ELSE "needs_user_action"
               e == IF device.mode = "adb" THEN "adb_connected"
                    ELSE IF device.mode = "unauthorized" THEN "awaiting_user_approval"
                    ELSE c.engage
    <3>1. run' = [run EXCEPT ![r] = D(o, e)]
      BY <2>3 DEF TypeOK
    <3>2. o \in Outcomes /\ e \in Engagements
      BY <1>3 DEF Outcomes, Engagements
    <3> HIDE DEF o, e, D
    <3>3. QED BY <3>1, <3>2
  <2>4. QED BY <2>2, <2>3 DEF Execute
<1>5. PICK o \in Outcomes, e \in Engagements : run' = [run EXCEPT ![r] = D(o, e)]
  BY <1>4
<1>6. <<"INSPECT_RESULT">> \in Seq(Quiet) /\ <<"INSPECT_RESULT">> \in Seq(SessionStateName)
  BY QuietStates DEF Executing
<1>7. D(o, e) \in Calls
  BY <1>1, <1>6 DEF Calls, PCs
<1>8. Stays(c, D(o, e)) /\ D(o, e).pc = "inspect" /\ D(o, e).todo = <<"INSPECT_RESULT">>
  BY <1>1 DEF Calls, Stays, Keeps
<1>9. Len(D(o, e).todo) = 1
  <2>1. Len(<<"INSPECT_RESULT">>) = 1
    OBVIOUS
  <2> HIDE DEF D
  <2>2. QED BY <1>8, <2>1
<1> HIDE DEF D
<1>10. QED BY <1>2, <1>5, <1>6, <1>7, <1>8, <1>9 DEF Takes

\* The experiment is counted against its kind of blocker.
LEMMA InspectEffect ==
  ASSUME TypeOK, NEW r \in Runners, Inspect(r)
  PROVE  /\ session' \in Sessions /\ session'.state = session.state
         /\ session'.remediation = session.remediation
         /\ profile' \in Profiles
         /\ \E n \in {0, failed[run[r].blocker.type] + 1} :
              failed' = [failed EXCEPT ![run[r].blocker.type] = n]
         /\ \E d : /\ Takes(r, d) /\ Keeps(run[r], d) /\ d.installReady = run[r].installReady
                   /\ d.pc = "gate" /\ d.todo \in Seq(Calm) /\ d.transport = profile'.transport
                   /\ run[r].blocker.type = "source_blocker" =>
                        profile' = profile /\ d.assess = run[r].assess
<1> DEFINE c     == run[r]
           prof  == IF Upgraded(c) THEN [transport |-> "usb-adb", serial |-> "real"] ELSE profile
           a     == IF Upgraded(c) THEN [support |-> "actionable", restore |-> TRUE, path |-> "install"]
                    ELSE c.assess
           after == Classify(prof.transport, c.engage, a.support, c.outcome, c.ready,
                             session.remediation)
           todo  == IF after.type # "none" THEN <<"BLOCKER_CLASSIFY">> ELSE <<>>
           strat == IF a.support # session.support THEN SelectStrategy(a) ELSE session.strategy
           d     == [c EXCEPT !.assess = a, !.transport = prof.transport, !.blocker = after,
                              !.pc = "gate", !.todo = todo]
<1>1. c \in Calls /\ session \in Sessions /\ profile \in Profiles
      /\ failed \in [Blockers -> Nat]
  BY DEF TypeOK, Sessions, Profiles
<1>2. c.assess \in Assessments /\ c.blocker.type \in Blockers
  BY <1>1 DEF Calls
<1>3. prof \in Profiles /\ a \in Assessments
  BY <1>1, <1>2 DEF Profiles, Assessments, Supports, Transports
<1>4. c.blocker.type = "source_blocker" => prof = profile /\ a = c.assess
  BY SMTT(30) DEF Upgraded
<1>5. /\ profile' = prof
      /\ session' = [session EXCEPT !.blocker = after.type, !.strategy = strat]
      /\ \E n \in {0, failed[c.blocker.type] + 1} :
           failed' = [failed EXCEPT ![c.blocker.type] = n]
      /\ run' = [run EXCEPT ![r] = d]
  BY DEF Inspect, TrailingFailures
<1>6. after \in Verdicts
  BY <1>1, ClassifyType DEF Sessions
<1>7. strat \in Strategies
  BY <1>1, <1>3, StrategyType DEF Sessions
<1> HIDE DEF prof, a, after, strat
<1>8. todo \in Seq(Calm) /\ todo \in Seq(SessionStateName)
  BY CalmStates
<1> HIDE DEF todo
<1>9. session' \in Sessions /\ session'.state = session.state
      /\ session'.remediation = session.remediation
  BY <1>1, <1>5, <1>6, <1>7 DEF Sessions, Verdicts, BlockerLabels
<1>10. d \in Calls
  BY <1>1, <1>3, <1>6, <1>8 DEF Calls, PCs, Profiles, Verdicts
<1>11. /\ Keeps(c, d) /\ d.installReady = c.installReady /\ d.pc = "gate" /\ d.todo = todo
       /\ d.transport = prof.transport /\ d.assess = a
  BY <1>1 DEF Calls, Keeps
<1>12. Takes(r, d)
  BY <1>5, <1>10 DEF Takes
<1> HIDE DEF d
<1>13. c.blocker.type = "source_blocker" => profile' = profile /\ d.assess = c.assess
  BY <1>4, <1>5, <1>11
<1>14. d.transport = profile'.transport /\ d.todo \in Seq(Calm) /\ profile' \in Profiles
  BY <1>3, <1>5, <1>8, <1>11
<1>15. QED BY <1>5, <1>9, <1>11, <1>12, <1>13, <1>14

\* The gate offers the install only with files and a transport to manage.
LEMMA GateEffect ==
  ASSUME TypeOK, NEW r \in Runners, Gate(r)
  PROVE  /\ staged' \in Kinds /\ (staged # "none" => staged' # "none")
         /\ \E d : /\ Takes(r, d) /\ Keeps(run[r], d) /\ d.pc = "finish"
                   /\ d.transport = run[r].transport /\ d.assess = run[r].assess
                   /\ \/ d.todo \in Seq(Calm) /\ ~d.installReady
                      \/ Candidate(run[r]) /\ ~run[r].light
<1> DEFINE c == run[r]
           verify == Previews(c) /\ c.feasible
           todo == <<"BACKUP_READY">> \o (IF Previews(c) THEN PreviewStages ELSE <<>>)
                                      \o (IF verify THEN VerifyStages ELSE <<>>)
           d == [c EXCEPT !.pc = "finish", !.installReady = verify, !.todo = todo]
<1>1. c \in Calls /\ staged \in Kinds
  BY DEF TypeOK, Kinds
<1>2. staged' \in Kinds /\ (staged # "none" => staged' # "none")
  BY <1>1 DEF Gate, Kinds
<1>3. run' = [run EXCEPT ![r] = d]
  BY DEF Gate
<1>4. verify \in BOOLEAN
  BY DEF Previews, Candidate
<1>5. todo \in Seq(SessionStateName)
  BY States DEF PreviewStages, VerifyStages
<1>6. CASE Previews(c)
  <2>1. Candidate(c) /\ ~c.light
    BY <1>6 DEF Previews
  <2> HIDE DEF todo, verify
  <2>2. d \in Calls
    BY <1>1, <1>4, <1>5 DEF Calls, PCs
  <2>3. Keeps(c, d) /\ d.pc = "finish" /\ d.transport = c.transport /\ d.assess = c.assess
    BY <1>1 DEF Calls, Keeps
  <2> HIDE DEF d
  <2>4. QED BY <1>2, <1>3, <2>1, <2>2, <2>3 DEF Takes
<1>7. CASE ~Previews(c)
  <2>1. todo = <<"BACKUP_READY">> /\ verify = FALSE
    BY <1>7
  <2>2. <<"BACKUP_READY">> \in Seq(Calm)
    BY CalmStates
  <2> HIDE DEF todo, verify
  <2>3. d \in Calls
    BY <1>1, <1>4, <1>5 DEF Calls, PCs
  <2>4. Keeps(c, d) /\ d.pc = "finish" /\ d.transport = c.transport /\ d.assess = c.assess /\ d.todo = todo
        /\ d.installReady = verify
    BY <1>1 DEF Calls, Keeps
  <2> HIDE DEF d
  <2>5. d.todo \in Seq(Calm) /\ ~d.installReady
    BY <2>1, <2>2, <2>4
  <2>6. QED BY <1>2, <1>3, <2>3, <2>4, <2>5 DEF Takes
<1>8. QED BY <1>6, <1>7

\* The end of a cycle.
LEMMA FinishEffect ==
  ASSUME TypeOK, NEW r \in Runners, Finish(r)
  PROVE  /\ session' \in Sessions /\ session'.state = session.state
         /\ session'.remediation = session.remediation
         /\ \E d : /\ Takes(r, d) /\ Stays(run[r], d) /\ d.pc \in {"iterate", "report"}
                   /\ \/ d.todo \in Seq(Calm)
                      \/ /\ d.todo = <<"BUILD_GENERIC">>
                         /\ run[r].installReady \/ Candidate(run[r])
<1> DEFINE c == run[r]
           clean == c.blocker.type = "none"
           built == c.installReady \/ Candidate(c)
           where == IF clean /\ ~built THEN "iterate" ELSE "report"
           todo  == IF clean /\ ~built THEN <<"ITERATE">>
                    ELSE IF clean /\ c.light THEN <<"BUILD_GENERIC">>
                    ELSE IF ~clean /\ ~c.blocker.solvable THEN <<"QUESTION_GATE">>
                    ELSE <<>>
           d == [c EXCEPT !.pc = where, !.todo = todo]
<1>1. c \in Calls /\ session \in Sessions
  BY DEF TypeOK, Sessions
<1>2. session' \in Sessions /\ session'.state = session.state
      /\ session'.remediation = session.remediation
  BY <1>1 DEF Finish, Sessions, MaxIterate
<1>3. run' = [run EXCEPT ![r] = d]
  BY DEF Finish
<1>4. todo \in Seq(Calm) \/ (todo = <<"BUILD_GENERIC">> /\ (c.installReady \/ Candidate(c)))
  BY CalmStates
<1>5. todo \in Seq(SessionStateName) /\ where \in {"iterate", "report"}
  BY States
<1> HIDE DEF where, todo
<1>6. d \in Calls
  BY <1>1, <1>5 DEF Calls, PCs
<1>7. Stays(c, d) /\ d.pc = where /\ d.todo = todo
  BY <1>1 DEF Calls, Stays, Keeps
<1> HIDE DEF d
<1>8. QED BY <1>2, <1>3, <1>4, <1>5, <1>6, <1>7 DEF Takes

\* Another iteration of a cycle.
LEMMA IterateEffect ==
  ASSUME TypeOK, NEW r \in Runners, Iterate(r)
  PROVE  /\ session' \in Sessions /\ session'.state = session.state
         /\ session'.remediation = session.remediation
         /\ \E d : /\ Takes(r, d) /\ Stays(run[r], d) /\ d.pc \in {"rescan", "report"}
                   /\ d.todo \in Seq(Calm)
<1> DEFINE c == run[r]
           again == session.iterate + 1 >= MaxIterate
           where == IF again THEN "rescan" ELSE "report"
           todo  == IF again THEN <<"DEEP_SCAN">> ELSE <<>>
           d == [c EXCEPT !.pc = where, !.todo = todo]
<1>1. c \in Calls /\ session \in Sessions
  BY DEF TypeOK, Sessions
<1>2. session' \in Sessions /\ session'.state = session.state
      /\ session'.remediation = session.remediation
  BY <1>1 DEF Iterate, Sessions, MaxIterate
<1>3. run' = [run EXCEPT ![r] = d]
  BY DEF TypeOK, Iterate
<1>4. todo \in Seq(Calm) /\ todo \in Seq(SessionStateName) /\ where \in {"rescan", "report"}
  BY CalmStates
<1> HIDE DEF where, todo
<1>5. d \in Calls
  BY <1>1, <1>4 DEF Calls, PCs
<1>6. Stays(c, d) /\ d.pc = where /\ d.todo = todo
  BY <1>1 DEF Calls, Stays, Keeps
<1> HIDE DEF d
<1>7. QED BY <1>2, <1>3, <1>4, <1>5, <1>6 DEF Takes

\* A rescan at the end of a cycle.
LEMMA RescanEffect ==
  ASSUME TypeOK, NEW r \in Runners, Rescan(r)
  PROVE  /\ profile' \in Profiles
         /\ \E d : Takes(r, d) /\ Stays(run[r], d) /\ d.pc = "report" /\ d.todo = <<>>
<1> DEFINE c == run[r]
           d == [c EXCEPT !.pc = "report"]
<1>1. c \in Calls /\ c.todo = <<>> /\ profile \in Profiles
  BY DEF TypeOK, Profiles, Rescan, At
<1>2. profile' \in Profiles
  BY <1>1, ScanType DEF Rescan
<1>3. run' = [run EXCEPT ![r] = d]
  BY DEF TypeOK, Rescan
<1>4. d \in Calls
  BY <1>1 DEF Calls, PCs
<1>5. Stays(c, d) /\ d.pc = "report" /\ d.todo = <<>>
  BY <1>1 DEF Calls, Stays, Keeps
<1> HIDE DEF d
<1>6. QED BY <1>2, <1>3, <1>4, <1>5 DEF Takes

-----------------------------------------------------------------------------
(* The calls begin with the locals of an idle thread.                      *)

Begins(d) ==
  /\ ~d.lawful /\ d.path = "research_only_path" /\ d.deferred /\ ~d.ready /\ ~d.installReady
  /\ d.todo \in Seq(Calm)

\* A thread outside a call has planned nothing.
LEMMA IdleBegins == Begins(Idle)
BY IdleType DEF Begins

\* A device event begins a call with nothing planned but calm stages.
LEMMA AttachEffect ==
  ASSUME TypeOK, NEW r \in Runners, NEW t \in Events, Attach(r, t)
  PROVE  /\ profile' \in Profiles /\ seen' \subseteq Transports /\ birth' \in Transports
         /\ \E d : Takes(r, d) /\ Begins(d) /\ d.pc = "assess" /\ ~d.light /\ d.event \in Transports
<1> DEFINE todo == <<"DEVICE_ATTACHED", "DISCOVER", "PROFILE_SYNTHESIS", "ASSESS">>
           d == [Idle EXCEPT !.pc = "assess", !.event = t, !.todo = todo]
<1>1. t \in Transports
  BY EventsAssumption
<1>2. todo \in Seq(Calm) /\ todo \in Seq(SessionStateName)
  BY CalmStates
<1>3. run' = [run EXCEPT ![r] = d]
  BY DEF Attach
<1> HIDE DEF todo
<1>4. d \in Calls
  BY <1>1, <1>2, IdleType DEF Calls, PCs
<1>5. Begins(d) /\ d.pc = "assess" /\ ~d.light /\ d.event = t
  BY <1>2, IdleType DEF Calls, Begins
<1>6. profile' \in Profiles /\ seen' \subseteq Transports /\ birth' \in Transports
  BY <1>1, SerialType DEF TypeOK, Attach, Published, Profiles
<1> HIDE DEF d
<1>7. QED BY <1>1, <1>3, <1>4, <1>5, <1>6 DEF Takes

\* A resumed session begins a call with nothing planned but calm stages.
LEMMA ResumeWaitingEffect ==
  ASSUME TypeOK, NEW r \in Runners, NEW t \in Events, ResumeWaiting(r, t)
  PROVE  /\ profile' \in Profiles /\ seen' \subseteq Transports
         /\ \E d : Takes(r, d) /\ Begins(d) /\ d.pc = "load" /\ ~d.light
<1> DEFINE todo == <<"BLOCKER_CLASSIFY">>
           d == [Idle EXCEPT !.pc = "load", !.todo = todo]
<1>1. t \in Transports
  BY EventsAssumption
<1>2. todo \in Seq(Calm) /\ todo \in Seq(SessionStateName)
  BY CalmStates
<1>3. run' = [run EXCEPT ![r] = d]
  BY DEF ResumeWaiting
<1> HIDE DEF todo
<1>4. d \in Calls
  BY <1>2, IdleType DEF Calls, PCs
<1>5. Begins(d) /\ d.pc = "load" /\ ~d.light
  BY <1>2, IdleType DEF Calls, Begins
<1>6. profile' \in Profiles /\ seen' \subseteq Transports
  BY <1>1, SerialType DEF TypeOK, ResumeWaiting, Published, Profiles
<1> HIDE DEF d
<1>7. QED BY <1>3, <1>4, <1>5, <1>6 DEF Takes

\* A background cycle begins with nothing planned.
LEMMA RunNowEffect ==
  ASSUME TypeOK, NEW r \in Runners, RunNow(r)
  PROVE  \E d : Takes(r, d) /\ Begins(d) /\ d.pc = "load" /\ ~d.light
<1> DEFINE d == [Idle EXCEPT !.pc = "load"]
<1>1. d \in Calls
  BY IdleType DEF Calls, PCs
<1>2. Begins(d) /\ d.pc = "load" /\ ~d.light
  BY IdleType DEF Calls, Begins
<1>3. run' = [run EXCEPT ![r] = d]
  BY DEF RunNow
<1> HIDE DEF d
<1>4. QED BY <1>1, <1>2, <1>3 DEF Takes

\* A lightweight refresh begins with nothing planned.
LEMMA LightLoad ==
  LET d == [Idle EXCEPT !.pc = "load", !.light = TRUE]
  IN  d \in Calls /\ Begins(d) /\ d.pc = "load" /\ d.light
<1> DEFINE d == [Idle EXCEPT !.pc = "load", !.light = TRUE]
<1>1. d \in Calls
  BY IdleType DEF Calls, PCs
<1>2. Begins(d) /\ d.pc = "load" /\ d.light
  BY IdleType DEF Calls, Begins
<1>3. QED BY <1>1, <1>2

\* Saving the form begins a lightweight refresh.
LEMMA SaveProfileEffect ==
  ASSUME TypeOK, NEW r \in Runners, NEW lawful \in BOOLEAN, SaveProfile(r, lawful)
  PROVE  /\ session' \in Sessions /\ session'.state = session.state
         /\ session'.remediation = session.remediation
         /\ \E d : Takes(r, d) /\ Begins(d) /\ d.pc = "load" /\ d.light
<1>1. session \in Sessions /\ report.assess \in Assessments
  BY DEF TypeOK, Sessions
<1>2. SelectStrategy(report.assess) \in Strategies
  BY <1>1, StrategyType
<1>3. session' \in Sessions /\ session'.state = session.state
      /\ session'.remediation = session.remediation
  BY <1>1, <1>2 DEF SaveProfile, Sessions
<1> DEFINE d == [Idle EXCEPT !.pc = "load", !.light = TRUE]
<1>4. run' = [run EXCEPT ![r] = d]
  BY DEF SaveProfile
<1>5. d \in Calls /\ Begins(d) /\ d.pc = "load" /\ d.light
  BY LightLoad
<1> HIDE DEF d
<1>6. QED BY <1>3, <1>4, <1>5 DEF Takes

\* Syncing the evidence begins a lightweight refresh.
LEMMA SyncEvidenceEffect ==
  ASSUME TypeOK, NEW r \in Runners, SyncEvidence(r)
  PROVE  /\ session' \in Sessions /\ session'.state = session.state
         /\ session'.remediation = session.remediation
         /\ profile' \in Profiles
         /\ report' \in [assess : Assessments, engage : Engagements, present : BOOLEAN]
         /\ \/ run' = run
            \/ \E d : Takes(r, d) /\ Begins(d) /\ d.pc = "load" /\ d.light
<1> DEFINE a == Assess("usb-adb", "real", device.locked)
           stalled == session.blocker = "physical_action_blocker"
           d == [Idle EXCEPT !.pc = "load", !.light = TRUE]
<1>1. session \in Sessions /\ profile \in Profiles /\ device.locked \in BOOLEAN
  BY DEF TypeOK, Sessions, Profiles
<1>2. a \in Assessments
  BY <1>1, AssessType DEF Transports
<1>3. /\ report' = [assess |-> a, engage |-> "adb_connected", present |-> TRUE]
      /\ session' = [session EXCEPT !.support = a.support,
                       !.blocker = IF stalled THEN "approval_or_external_artifact" ELSE @]
      /\ profile' = [profile EXCEPT !.transport = "usb-adb"]
      /\ run' = run \/ run' = [run EXCEPT ![r] = d]
  BY DEF SyncEvidence
<1>4. d \in Calls /\ Begins(d) /\ d.pc = "load" /\ d.light
  BY LightLoad
<1> HIDE DEF a, d
<1>5. a.support \in Supports
  BY <1>2 DEF Assessments
<1>6. session' \in Sessions /\ session'.state = session.state
      /\ session'.remediation = session.remediation
  BY <1>1, <1>3, <1>5 DEF Sessions, BlockerLabels
<1>7. profile' \in Profiles
  BY <1>1, <1>3 DEF Profiles, Transports
<1>8. report' \in [assess : Assessments, engage : Engagements, present : BOOLEAN]
  BY <1>2, <1>3 DEF Engagements
<1>9. QED BY <1>3, <1>4, <1>6, <1>7, <1>8 DEF Takes

-----------------------------------------------------------------------------
(* Types.  A call that assesses carries the event it was made with.        *)

Attached == \A r \in Runners : run[r].pc = "assess" => run[r].event \in Transports

Types == TypeOK /\ Attached

\* TypeOK without the calls.
FilesOK ==
  /\ session \in Sessions /\ profile \in Profiles /\ birth \in Transports \cup {"none"}
  /\ report \in [assess : Assessments, engage : Engagements, present : BOOLEAN]
  /\ attested \in BOOLEAN /\ everAttested \in BOOLEAN /\ staged \in Kinds
  /\ failed \in [Blockers -> Nat] /\ repoMissing \in BOOLEAN /\ planned \in BOOLEAN
  /\ device \in [mode : AllModes, locked : BOOLEAN] /\ seen \subseteq Transports
  /\ disturbances \in Nat

\* The types of the files and those of the locals.
LEMMA TypeSplit == TypeOK <=> FilesOK /\ run \in [Runners -> Calls]
BY DEF TypeOK, FilesOK, Sessions, Profiles, Kinds

\* A step of one thread over typed files is typed.
LEMMA Retyped ==
  ASSUME Types, NEW r \in Runners, NEW d, Takes(r, d), FilesOK',
         d.pc = "assess" => d.event \in Transports
  PROVE  Types'
<1>1. /\ run' \in [Runners -> Calls] /\ run'[r] = d
      /\ \A s \in Runners \ {r} : run'[s] = run[s]
  BY TakesRun DEF Types
<1>2. TypeOK'
  BY <1>1 DEF TypeOK, FilesOK, Sessions, Profiles, Kinds
<1>3. QED BY <1>1, <1>2 DEF Types, Attached

\* The initial state is typed.
LEMMA TypeInit == Init => Types
<1> SUFFICES ASSUME Init PROVE Types
  OBVIOUS
<1>1. run \in [Runners -> Calls] /\ Attached
  BY IdleType DEF Init, Attached
<1>2. session \in Sessions
  BY States DEF Init, Sessions, FreshSession, Supports, Strategies, BlockerLabels, MaxIterate,
                RemediationCap
<1>3. profile \in Profiles
  BY DEF Init, Profiles, Transports
<1>4. report \in [assess : Assessments, engage : Engagements, present : BOOLEAN]
  BY DEF Init, NoReport, Assessments, Supports, Engagements
<1>5. device \in [mode : AllModes, locked : BOOLEAN]
  BY ModesAssumption DEF Init
<1>6. FilesOK
  BY <1>2, <1>3, <1>4, <1>5 DEF Init, FilesOK, Kinds
<1>7. QED BY <1>1, <1>6, TypeSplit DEF Types

\* Every step of a call keeps the types.
LEMMA TypeStep == ASSUME Types, NEW r \in Runners, Step(r) PROVE Types'
<1>1. FilesOK /\ TypeOK
  BY TypeSplit DEF Types
<1>2. CASE Move(r)
  <2>1. PICK d : Takes(r, d) /\ d.pc = run[r].pc /\ d.event = run[r].event
    BY <1>1, <1>2, MoveEffect
  <2>2. session' \in Sessions
    <3>1. Head(run[r].todo) \in SessionStateName
      BY <1>1, <1>2, MoveEffect
    <3>2. session.state \in SessionStateName
      BY <1>1 DEF FilesOK, Sessions
    <3>3. safe_transition(session.state, Head(run[r].todo)) \in SessionStateName
      BY <3>1, <3>2, SafeTransition
    <3>4. session' = [session EXCEPT !.state = safe_transition(session.state, Head(run[r].todo))]
      BY <1>2 DEF Move
    <3>5. QED BY <1>1, <3>3, <3>4 DEF FilesOK, Sessions
  <2>3. FilesOK'
    BY <1>1, <1>2, <2>2 DEF FilesOK, Move
  <2>4. QED BY <2>1, <2>3, Retyped DEF Types, Attached
<1>3. CASE AssessDevice(r)
  <2>1. PICK d : Takes(r, d) /\ d.pc = "select"
    BY <1>1, <1>3, AssessDeviceEffect DEF Types, Attached, AssessDevice, At
  <2>2. FilesOK'
    BY <1>1, <1>3 DEF FilesOK, AssessDevice, files
  <2>3. QED BY <2>1, <2>2, Retyped
<1>4. CASE SelectPath(r)
  <2>1. PICK d : Takes(r, d) /\ d.pc = "start"
    BY <1>1, <1>4, SelectPathEffect
  <2>2. FilesOK'
    BY <1>1, <1>4, SelectPathEffect DEF FilesOK, SelectPath
  <2>3. QED BY <2>1, <2>2, Retyped
<1>5. CASE LoadReports(r)
  <2>1. PICK d : Takes(r, d) /\ d.pc = "start"
    BY <1>1, <1>5, LoadReportsEffect
  <2>2. FilesOK'
    BY <1>1, <1>5 DEF FilesOK, LoadReports, files
  <2>3. QED BY <2>1, <2>2, Retyped
<1>6. CASE StartCycle(r)
  <2>1. PICK d : Takes(r, d) /\ d.pc = "classify"
    BY <1>1, <1>6, StartCycleEffect
  <2>2. profile' \in Profiles /\ staged' \in Kinds /\ repoMissing' \in BOOLEAN
    BY <1>1, <1>6, StartCycleEffect DEF Kinds
  <2>3. FilesOK'
    BY <1>1, <1>6, <2>2 DEF FilesOK, StartCycle
  <2>4. QED BY <2>1, <2>3, Retyped
<1>7. CASE ClassifyBlocker(r)
  <2>1. PICK d : Takes(r, d) /\ d.pc \in {"remediate", "ask", "gate"}
    BY <1>1, <1>7, ClassifyBlockerEffect
  <2>2. session' \in Sessions /\ staged' \in Kinds
    BY <1>1, <1>7, ClassifyBlockerEffect
  <2>3. FilesOK'
    BY <1>1, <1>7, <2>2 DEF FilesOK, ClassifyBlocker
  <2>4. QED BY <2>1, <2>3, Retyped
<1>8. CASE Ask(r)
  <2>1. PICK d : Takes(r, d) /\ d.pc = "gate"
    BY <1>1, <1>8, AskEffect
  <2>2. FilesOK'
    BY <1>1, <1>8, AskEffect DEF FilesOK, Ask
  <2>3. QED BY <2>1, <2>2, Retyped
<1>9. CASE Remediate(r)
  <2>1. PICK d : Takes(r, d) /\ d.pc = "execute"
    BY <1>1, <1>9, RemediateEffect
  <2>2. FilesOK'
    BY <1>1, <1>9, RemediateEffect DEF FilesOK, Remediate
  <2>3. QED BY <2>1, <2>2, Retyped
<1>10. CASE Execute(r)
  <2>1. PICK d : Takes(r, d) /\ d.pc = "inspect"
    BY <1>1, <1>10, ExecuteEffect
  <2>2. FilesOK'
    BY <1>1, <1>10, ExecuteEffect DEF FilesOK, Execute
  <2>3. QED BY <2>1, <2>2, Retyped
<1>11. CASE Inspect(r)
  <2>1. PICK d : Takes(r, d) /\ d.pc = "gate"
    BY <1>1, <1>11, InspectEffect
  <2>2. session' \in Sessions /\ profile' \in Profiles
    BY <1>1, <1>11, InspectEffect
  <2>3. failed' \in [Blockers -> Nat]
    <3>1. run[r].blocker.type \in Blockers
      BY <1>1 DEF TypeOK, Calls
    <3>2. PICK n \in {0, failed[run[r].blocker.type] + 1} :
            failed' = [failed EXCEPT ![run[r].blocker.type] = n]
      BY SMTT(30), <1>1, <1>11, InspectEffect
    <3>3. QED BY <1>1, <3>1, <3>2 DEF FilesOK
  <2>4. FilesOK'
    BY <1>1, <1>11, <2>2, <2>3 DEF FilesOK, Inspect
  <2>5. QED BY <2>1, <2>4, Retyped
<1>12. CASE Gate(r)
  <2>1. PICK d : Takes(r, d) /\ d.pc = "finish"
    BY <1>1, <1>12, GateEffect
  <2>2. FilesOK'
    BY <1>1, <1>12, GateEffect DEF FilesOK, Gate
  <2>3. QED BY <2>1, <2>2, Retyped
<1>13. CASE Finish(r)
  <2>1. PICK d : Takes(r, d) /\ d.pc \in {"iterate", "report"}
    BY <1>1, <1>13, FinishEffect
  <2>2. FilesOK'
    BY <1>1, <1>13, FinishEffect DEF FilesOK, Finish
  <2>3. QED BY <2>1, <2>2, Retyped
<1>14. CASE Iterate(r)
  <2>1. PICK d : Takes(r, d) /\ d.pc \in {"rescan", "report"}
    BY <1>1, <1>14, IterateEffect
  <2>2. FilesOK'
    BY <1>1, <1>14, IterateEffect DEF FilesOK, Iterate
  <2>3. QED BY <2>1, <2>2, Retyped
<1>15. CASE Rescan(r)
  <2>1. PICK d : Takes(r, d) /\ d.pc = "report"
    BY <1>1, <1>15, RescanEffect
  <2>2. FilesOK'
    BY <1>1, <1>15, RescanEffect DEF FilesOK, Rescan
  <2>3. QED BY <2>1, <2>2, Retyped
<1>16. CASE WriteReports(r)
  <2>1. Takes(r, Idle)
    BY <1>16, IdleType DEF Takes, WriteReports
  <2>2. report' \in [assess : Assessments, engage : Engagements, present : BOOLEAN]
    BY <1>1, <1>16 DEF WriteReports, TypeOK, Calls
  <2>3. FilesOK'
    BY <1>1, <1>16, <2>2 DEF FilesOK, WriteReports
  <2>4. QED BY <2>1, <2>3, Retyped, IdleType
<1>17. QED
  BY <1>2, <1>3, <1>4, <1>5, <1>6, <1>7, <1>8, <1>9, <1>10, <1>11, <1>12, <1>13, <1>14, <1>15,
     <1>16 DEF Step

\* The begin of every call keeps the types.
LEMMA TypeCall == ASSUME Types, NEW r \in Runners, Call(r) PROVE Types'
<1>1. FilesOK /\ TypeOK
  BY TypeSplit DEF Types
<1>2. ASSUME NEW t \in Events, Attach(r, t) PROVE Types'
  <2>1. PICK d : Takes(r, d) /\ d.event \in Transports
    BY <1>1, <1>2, AttachEffect
  <2>2. FilesOK'
    BY <1>1, <1>2, AttachEffect DEF FilesOK, Attach
  <2>3. QED BY <2>1, <2>2, Retyped
<1>3. ASSUME NEW t \in Events, ResumeWaiting(r, t) PROVE Types'
  <2>1. PICK d : Takes(r, d) /\ d.pc = "load"
    BY <1>1, <1>3, ResumeWaitingEffect
  <2>2. FilesOK'
    BY <1>1, <1>3, ResumeWaitingEffect DEF FilesOK, ResumeWaiting
  <2>3. QED BY <2>1, <2>2, Retyped
<1>4. CASE RunNow(r)
  <2>1. PICK d : Takes(r, d) /\ d.pc = "load"
    BY <1>1, <1>4, RunNowEffect
  <2>2. FilesOK'
    BY <1>1, <1>4 DEF FilesOK, RunNow, files
  <2>3. QED BY <2>1, <2>2, Retyped
<1>5. ASSUME NEW lawful \in BOOLEAN, SaveProfile(r, lawful) PROVE Types'
  <2>1. PICK d : Takes(r, d) /\ d.pc = "load"
    BY <1>1, <1>5, SaveProfileEffect
  <2>2. session' \in Sessions
    BY <1>1, <1>5, SaveProfileEffect
  <2>3. FilesOK'
    BY <1>1, <1>5, <2>2 DEF FilesOK, SaveProfile, Disturb
  <2>4. QED BY <2>1, <2>3, Retyped
<1>6. CASE SyncEvidence(r)
  <2>1. session' \in Sessions /\ profile' \in Profiles
        /\ report' \in [assess : Assessments, engage : Engagements, present : BOOLEAN]
    BY <1>1, <1>6, SyncEvidenceEffect
  <2>2. FilesOK'
    BY <1>1, <1>6, <2>1 DEF FilesOK, SyncEvidence
  <2>3. CASE run' = run
    BY <2>2, <2>3 DEF Types, Attached, TypeOK, FilesOK, Sessions, Profiles, Kinds
  <2>4. CASE run' # run
    <3>1. PICK d : Takes(r, d) /\ d.pc = "load"
      BY <1>1, <1>6, <2>4, SyncEvidenceEffect
    <3>2. QED BY <2>2, <3>1, Retyped
  <2>5. QED BY <2>3, <2>4
<1>7. QED BY <1>2, <1>3, <1>4, <1>5, <1>6 DEF Call

\* Device, operator and crashes keep the types.
LEMMA TypeEnvironment == ASSUME Types, Environment PROVE Types'
<1>1. FilesOK /\ run \in [Runners -> Calls]
  BY TypeSplit DEF Types
<1>2. ASSUME NEW mode \in Modes, DeviceChanges(mode) PROVE Types'
  <2>1. FilesOK' /\ run' = run
    BY <1>1, <1>2, ModesAssumption DEF FilesOK, DeviceChanges, files, Disturb
  <2>2. QED BY <2>1 DEF Types, Attached, TypeOK, FilesOK, Sessions, Profiles, Kinds
<1>3. ASSUME NEW kind \in {"usable", "rejected"}, OperatorStages(kind) PROVE Types'
  <2>1. FilesOK' /\ run' = run
    BY <1>1, <1>3 DEF FilesOK, OperatorStages, Disturb, Kinds
  <2>2. QED BY <2>1 DEF Types, Attached, TypeOK, FilesOK, Sessions, Profiles, Kinds
<1>4. CASE Crash
  <2>1. FilesOK' /\ run' = [r \in Runners |-> Idle]
    BY <1>1, <1>4 DEF FilesOK, Crash, files, Disturb
  <2>2. run' \in [Runners -> Calls] /\ Attached'
    BY <2>1, IdleType DEF Attached
  <2>3. QED BY <2>1, <2>2 DEF Types, TypeOK, FilesOK, Sessions, Profiles, Kinds
<1>5. QED BY <1>2, <1>3, <1>4 DEF Environment

\* Every step keeps the types.
LEMMA TypeNext == Types /\ [Next]_vars => Types'
<1> SUFFICES ASSUME Types, [Next]_vars PROVE Types'
  OBVIOUS
<1>1. CASE UNCHANGED vars
  BY <1>1 DEF Types, TypeOK, Attached, vars, files
<1>2. QED BY <1>1, TypeStep, TypeCall, TypeEnvironment DEF Next

\* The inductive form of TypeCorrect: an assessing call also has its event
\* (orchestrator.py, handle_device_event).
THEOREM TypeInvariant == Spec => []Types
BY TypeInit, TypeNext, PTL DEF Spec

\* The session's files and the locals of every call keep their types
\* (orchestrator.py, session_manager.py), however many calls overlap.
THEOREM TypeCorrect == Spec => []TypeOK
<1>1. Types => TypeOK
  BY DEF Types
<1>2. QED BY <1>1, TypeInvariant, PTL

-----------------------------------------------------------------------------
(* Lawful use.  Until the operator has attested once, no call has read an  *)
(* attestation, so every plan is research only and asks for no install     *)
(* stage: the plan a call computed earlier is as harmless as the files.    *)

Lawless(c) ==
  /\ ~c.lawful /\ c.path = "research_only_path" /\ ~c.installReady /\ c.todo \in Seq(Quiet)

Unlawful ==
  ~everAttested => /\ ~attested
                   /\ session.state \in Quiet
                   /\ \A r \in Runners : Lawless(run[r])

\* A plan of calm stages holds no install stage.
LEMMA CalmIsQuiet == \A q \in Seq(Calm) : q \in Seq(Quiet)
BY QuietStates, Wider

\* A call begins without an attestation.
LEMMA BeginsLawless == \A d : Begins(d) => Lawless(d)
BY CalmIsQuiet DEF Begins, Lawless

\* A call without an attestation is no candidate for an install.
LEMMA LawlessIsNoCandidate == \A c : Lawless(c) => ~Candidate(c)
BY DEF Lawless, Candidate

\* A step that makes no transition and reads no attestation.
LEMMA UnlawfulTakes ==
  ASSUME TypeOK, Unlawful, NEW r \in Runners, NEW d, Takes(r, d),
         everAttested' = everAttested, attested' = attested,
         session'.state = session.state,
         ~everAttested => Lawless(d)
  PROVE  Unlawful'
<1>1. run'[r] = d /\ \A s \in Runners \ {r} : run'[s] = run[s]
  BY TakesRun
<1>2. QED BY <1>1 DEF Unlawful, Lawless

\* No step of a call moves towards an install without an attestation.
LEMMA UnlawfulStep == ASSUME Types, Unlawful, NEW r \in Runners, Step(r) PROVE Unlawful'
<1>1. TypeOK /\ Types
  BY DEF Types
<1>2. ~everAttested => ~attested /\ Lawless(run[r]) /\ ~Candidate(run[r])
  BY LawlessIsNoCandidate DEF Unlawful
<1>3. CASE Move(r)
  <2>1. PICK d : /\ Takes(r, d) /\ Keeps(run[r], d) /\ d.todo = Tail(run[r].todo)
                 /\ d.installReady = run[r].installReady
    BY <1>1, <1>3, MoveEffect
  <2>2. run[r].todo # <<>> /\ Head(run[r].todo) \in SessionStateName
    BY <1>1, <1>3, MoveEffect
  <2>3. everAttested' = everAttested /\ attested' = attested
        /\ session'.state = safe_transition(session.state, Head(run[r].todo))
    BY <1>1, <1>3 DEF Move, TypeOK
  <2>4. session.state \in SessionStateName
    BY <1>1 DEF TypeOK
  <2>5. session'.state \in {session.state, Head(run[r].todo)}
    BY <2>2, <2>3, <2>4, SafeTransition
  <2>6. ~everAttested => session'.state \in Quiet /\ Lawless(d)
    <3>1. SUFFICES ASSUME ~everAttested PROVE session'.state \in Quiet /\ Lawless(d)
      OBVIOUS
    <3>2. run[r].todo \in Seq(Quiet) /\ session.state \in Quiet
      BY <1>2, <3>1 DEF Unlawful, Lawless
    <3>3. Head(run[r].todo) \in Quiet /\ Tail(run[r].todo) \in Seq(Quiet)
      BY <2>2, <3>2
    <3>4. QED BY <1>2, <2>1, <2>5, <3>1, <3>2, <3>3 DEF Lawless, Keeps
  <2>7. run'[r] = d /\ \A s \in Runners \ {r} : run'[s] = run[s]
    BY <1>1, <2>1, TakesRun
  <2>8. QED BY <2>3, <2>6, <2>7 DEF Unlawful, Lawless
<1>4. CASE AssessDevice(r)
  <2>1. PICK d : /\ Takes(r, d) /\ Keeps(run[r], d) /\ d.todo \in Seq(Calm)
                 /\ d.installReady = run[r].installReady
    BY <1>1, <1>4, AssessDeviceEffect DEF Types, Attached, AssessDevice, At
  <2>2. ~everAttested => Lawless(d)
    BY <1>2, <2>1, CalmIsQuiet DEF Lawless, Keeps
  <2>3. QED BY <1>1, <1>4, <2>1, <2>2, UnlawfulTakes DEF AssessDevice, files
<1>5. CASE SelectPath(r)
  <2>1. PICK d : /\ Takes(r, d) /\ d.lawful = attested /\ d.todo \in Seq(Calm)
                 /\ d.path = run[r].path /\ d.installReady = run[r].installReady
    BY <1>1, <1>5, SelectPathEffect
  <2>2. ~everAttested => Lawless(d)
    BY <1>2, <2>1, CalmIsQuiet DEF Lawless
  <2>3. session'.state = session.state
    BY <1>1, <1>5, SelectPathEffect
  <2>4. QED BY <1>1, <1>5, <2>1, <2>2, <2>3, UnlawfulTakes DEF SelectPath
<1>6. CASE LoadReports(r)
  <2>1. PICK d : /\ Takes(r, d) /\ d.lawful = attested /\ d.todo = <<>>
                 /\ d.path = run[r].path /\ d.installReady = run[r].installReady
    BY <1>1, <1>6, LoadReportsEffect
  <2>2. ~everAttested => Lawless(d)
    BY <1>2, <2>1 DEF Lawless
  <2>3. QED BY <1>1, <1>6, <2>1, <2>2, UnlawfulTakes DEF LoadReports, files
<1>7. CASE StartCycle(r)
  <2>1. PICK d : /\ Takes(r, d) /\ d.todo \in Seq(Calm)
                 /\ d.path = OsPath(d.lawful, d.assess.support, session.strategy)
                 /\ d.lawful = run[r].lawful /\ d.installReady = run[r].installReady
    BY <1>1, <1>7, StartCycleEffect
  <2>2. ~d.lawful => d.path = "research_only_path"
    BY <2>1 DEF OsPath
  <2>3. ~everAttested => Lawless(d)
    BY <1>2, <2>1, <2>2, CalmIsQuiet DEF Lawless
  <2>4. QED BY <1>1, <1>7, <2>1, <2>3, UnlawfulTakes DEF StartCycle
<1>8. CASE ClassifyBlocker(r)
  <2>1. PICK d : /\ Takes(r, d) /\ Keeps(run[r], d) /\ d.todo \in Seq(Quiet)
                 /\ d.installReady = run[r].installReady
    <3>1. <<>> \in Seq(Quiet)
      OBVIOUS
    <3>2. QED BY <1>1, <1>8, <3>1, ClassifyBlockerEffect
  <2>2. ~everAttested => Lawless(d)
    BY <1>2, <2>1 DEF Lawless, Keeps
  <2>3. session'.state = session.state
    BY <1>1, <1>8, ClassifyBlockerEffect
  <2>4. QED BY <1>1, <1>8, <2>1, <2>2, <2>3, UnlawfulTakes DEF ClassifyBlocker
<1>9. CASE Ask(r)
  <2>1. PICK d : Takes(r, d) /\ Stays(run[r], d) /\ d.todo \in Seq(Calm)
    BY <1>1, <1>9, AskEffect
  <2>2. ~everAttested => Lawless(d)
    BY <1>2, <2>1, CalmIsQuiet DEF Lawless, Stays, Keeps
  <2>3. QED BY <1>1, <1>9, <2>1, <2>2, UnlawfulTakes DEF Ask
<1>10. CASE Remediate(r)
  <2>1. PICK d : Takes(r, d) /\ Stays(run[r], d) /\ d.todo \in Seq(Quiet)
    BY <1>1, <1>10, RemediateEffect
  <2>2. ~everAttested => Lawless(d)
    BY <1>2, <2>1 DEF Lawless, Stays, Keeps
  <2>3. session'.state = session.state
    BY <1>1, <1>10, RemediateEffect
  <2>4. QED BY <1>1, <1>10, <2>1, <2>2, <2>3, UnlawfulTakes DEF Remediate
<1>11. CASE Execute(r)
  <2>1. PICK d : Takes(r, d) /\ Stays(run[r], d) /\ d.todo \in Seq(Quiet)
    BY <1>1, <1>11, ExecuteEffect
  <2>2. ~everAttested => Lawless(d)
    BY <1>2, <2>1 DEF Lawless, Stays, Keeps
  <2>3. QED BY <1>1, <1>11, <2>1, <2>2, UnlawfulTakes DEF Execute
<1>12. CASE Inspect(r)
  <2>1. PICK d : /\ Takes(r, d) /\ Keeps(run[r], d) /\ d.todo \in Seq(Calm)
                 /\ d.installReady = run[r].installReady
    BY <1>1, <1>12, InspectEffect
  <2>2. ~everAttested => Lawless(d)
    BY <1>2, <2>1, CalmIsQuiet DEF Lawless, Keeps
  <2>3. session'.state = session.state
    BY <1>1, <1>12, InspectEffect
  <2>4. QED BY <1>1, <1>12, <2>1, <2>2, <2>3, UnlawfulTakes DEF Inspect
<1>13. CASE Gate(r)
  <2>1. PICK d : /\ Takes(r, d) /\ Keeps(run[r], d)
                 /\ \/ d.todo \in Seq(Calm) /\ ~d.installReady
                    \/ Candidate(run[r])
    BY <1>1, <1>13, GateEffect
  <2>2. ~everAttested => Lawless(d)
    BY <1>2, <2>1, CalmIsQuiet DEF Lawless, Keeps
  <2>3. QED BY <1>1, <1>13, <2>1, <2>2, UnlawfulTakes DEF Gate
<1>14. CASE Finish(r)
  <2>1. PICK d : /\ Takes(r, d) /\ Stays(run[r], d)
                 /\ \/ d.todo \in Seq(Calm)
                    \/ run[r].installReady \/ Candidate(run[r])
    BY <1>1, <1>14, FinishEffect
  <2>2. ~everAttested => Lawless(d)
    BY <1>2, <2>1, CalmIsQuiet DEF Lawless, Stays, Keeps
  <2>3. session'.state = session.state
    BY <1>1, <1>14, FinishEffect
  <2>4. QED BY <1>1, <1>14, <2>1, <2>2, <2>3, UnlawfulTakes DEF Finish
<1>15. CASE Iterate(r)
  <2>1. PICK d : Takes(r, d) /\ Stays(run[r], d) /\ d.todo \in Seq(Calm)
    BY <1>1, <1>15, IterateEffect
  <2>2. ~everAttested => Lawless(d)
    BY <1>2, <2>1, CalmIsQuiet DEF Lawless, Stays, Keeps
  <2>3. session'.state = session.state
    BY <1>1, <1>15, IterateEffect
  <2>4. QED BY <1>1, <1>15, <2>1, <2>2, <2>3, UnlawfulTakes DEF Iterate
<1>16. CASE Rescan(r)
  <2>1. PICK d : Takes(r, d) /\ Stays(run[r], d) /\ d.todo = <<>>
    BY <1>1, <1>16, RescanEffect
  <2>2. ~everAttested => Lawless(d)
    BY <1>2, <2>1 DEF Lawless, Stays, Keeps
  <2>3. QED BY <1>1, <1>16, <2>1, <2>2, UnlawfulTakes DEF Rescan
<1>17. CASE WriteReports(r)
  <2>1. Takes(r, Idle)
    BY <1>17, IdleType DEF Takes, WriteReports
  <2>2. Lawless(Idle)
    BY IdleBegins, BeginsLawless
  <2>3. QED BY <1>1, <1>17, <2>1, <2>2, UnlawfulTakes DEF WriteReports
<1>18. QED
  BY <1>3, <1>4, <1>5, <1>6, <1>7, <1>8, <1>9, <1>10, <1>11, <1>12, <1>13, <1>14, <1>15, <1>16,
     <1>17 DEF Step

\* No call begins with an attestation that was never given.
LEMMA UnlawfulCall == ASSUME Types, Unlawful, NEW r \in Runners, Call(r) PROVE Unlawful'
<1>1. TypeOK
  BY DEF Types
<1>2. ASSUME NEW t \in Events, Attach(r, t) PROVE Unlawful'
  <2>1. PICK d : Takes(r, d) /\ Lawless(d)
    BY <1>1, <1>2, AttachEffect, BeginsLawless
  <2>2. QED BY <1>1, <1>2, <2>1, UnlawfulTakes DEF Attach
<1>3. ASSUME NEW t \in Events, ResumeWaiting(r, t) PROVE Unlawful'
  <2>1. PICK d : Takes(r, d) /\ Lawless(d)
    BY <1>1, <1>3, ResumeWaitingEffect, BeginsLawless
  <2>2. QED BY <1>1, <1>3, <2>1, UnlawfulTakes DEF ResumeWaiting
<1>4. CASE RunNow(r)
  <2>1. PICK d : Takes(r, d) /\ Lawless(d)
    BY <1>1, <1>4, RunNowEffect, BeginsLawless
  <2>2. QED BY <1>1, <1>4, <2>1, UnlawfulTakes DEF RunNow, files
<1>5. ASSUME NEW lawful \in BOOLEAN, SaveProfile(r, lawful) PROVE Unlawful'
  <2>1. PICK d : Takes(r, d) /\ Lawless(d)
    BY <1>1, <1>5, SaveProfileEffect, BeginsLawless
  <2>2. session'.state = session.state
    BY <1>1, <1>5, SaveProfileEffect
  <2>3. attested' = lawful /\ everAttested' = (everAttested \/ lawful)
    BY <1>5 DEF SaveProfile
  <2>4. run'[r] = d /\ \A s \in Runners \ {r} : run'[s] = run[s]
    BY <1>1, <2>1, TakesRun
  <2>5. QED BY <2>1, <2>2, <2>3, <2>4 DEF Unlawful, Lawless
<1>6. CASE SyncEvidence(r)
  <2>1. session'.state = session.state
    BY <1>1, <1>6, SyncEvidenceEffect
  <2>2. everAttested' = everAttested /\ attested' = attested
    BY <1>6 DEF SyncEvidence
  <2>3. CASE run' = run
    BY <2>1, <2>2, <2>3 DEF Unlawful, Lawless
  <2>4. CASE run' # run
    <3>1. PICK d : Takes(r, d) /\ Lawless(d)
      BY <1>1, <1>6, <2>4, SyncEvidenceEffect, BeginsLawless
    <3>2. QED BY <1>1, <2>1, <2>2, <3>1, UnlawfulTakes
  <2>5. QED BY <2>3, <2>4
<1>7. QED BY <1>2, <1>3, <1>4, <1>5, <1>6 DEF Call

\* Every step keeps unattested sessions away from an install.
LEMMA UnlawfulNext == Types /\ Unlawful /\ [Next]_vars => Unlawful'
<1> SUFFICES ASSUME Types, Unlawful, [Next]_vars PROVE Unlawful'
  OBVIOUS
<1>1. CASE UNCHANGED vars
  BY <1>1 DEF Unlawful, Lawless, vars, files
<1>2. CASE Environment
  <2>1. everAttested' = everAttested /\ attested' = attested /\ session' = session
        /\ (run' = run \/ run' = [r \in Runners |-> Idle])
    BY <1>2 DEF Environment, DeviceChanges, OperatorStages, Crash, files
  <2>2. Lawless(Idle)
    BY IdleBegins, BeginsLawless
  <2>3. QED BY <2>1, <2>2 DEF Unlawful, Lawless
<1>3. QED BY <1>1, <1>2, UnlawfulStep, UnlawfulCall DEF Next

\* A new session is in no install stage.
LEMMA UnlawfulInit == Init => Unlawful
<1>1. "DEVICE_ATTACHED" \in Quiet
  BY CalmStates, QuietStates
<1>2. Lawless(Idle)
  BY IdleBegins, BeginsLawless
<1>3. QED BY <1>1, <1>2 DEF Init, FreshSession, Unlawful

\* While the operator has never attested lawful use, no number of overlapping events,
\* cycles, GUI actions and crashes brings the session into an install stage
\* (build_resolver.py, orchestrator.py).
THEOREM LawfulTheorem == Spec => []LawfulUse
<1>1. Unlawful => LawfulUse
  BY DEF Unlawful, LawfulUse, Quiet
<1>2. Spec => []Unlawful
  BY UnlawfulInit, UnlawfulNext, TypeInvariant, PTL DEF Spec
<1>3. QED BY <1>1, <1>2, PTL

-----------------------------------------------------------------------------
(* Lightweight cycles.  The GUI thread only runs lightweight cycles, and   *)
(* such a cycle neither remediates nor asks for a loud stage.              *)

Remediating == {"remediate", "execute", "inspect"}

Meek(r, c) ==
  /\ c.pc = "idle" => c.todo = <<>>
  /\ r = "gui" /\ c.pc # "idle" => c.light
  /\ c.light => c.pc \notin Remediating /\ c.todo \in Seq(SessionStateName \ Loud)

Passive == \A r \in Runners : Meek(r, run[r])

\* A plan of calm stages holds no loud one.
LEMMA CalmIsSoft == \A q \in Seq(Calm) : q \in Seq(SessionStateName \ Loud)
BY QuietStates, Wider

\* A thread outside a call does nothing.
LEMMA MeekIdle == \A r : Meek(r, Idle)
BY IdleType DEF Meek

\* A step of a meek call.
LEMMA PassiveTakes ==
  ASSUME TypeOK, Passive, NEW r \in Runners, NEW d, Takes(r, d), Meek(r, d)
  PROVE  Passive'
<1>1. run'[r] = d /\ \A s \in Runners \ {r} : run'[s] = run[s]
  BY TakesRun
<1>2. QED BY <1>1 DEF Passive, Meek

\* A lightweight cycle stays meek in every step.
LEMMA PassiveStep == ASSUME Types, Passive, NEW r \in Runners, Step(r) PROVE Passive'
<1>1. TypeOK /\ Types /\ Meek(r, run[r])
  BY DEF Types, Passive
<1>2. CASE Move(r)
  <2>1. PICK d : /\ Takes(r, d) /\ Keeps(run[r], d) /\ d.todo = Tail(run[r].todo)
                 /\ d.pc = run[r].pc
    BY <1>1, <1>2, MoveEffect
  <2>2. run[r].todo # <<>> /\ run[r].pc # "idle"
    BY <1>1, <1>2, MoveEffect DEF Meek
  <2>3. run[r].light => Tail(run[r].todo) \in Seq(SessionStateName \ Loud)
    <3>1. ASSUME NEW q \in Seq(SessionStateName \ Loud), q # <<>>
          PROVE  Tail(q) \in Seq(SessionStateName \ Loud)
      BY <3>1
    <3>2. QED BY <1>1, <2>2, <3>1 DEF Meek
  <2>4. Meek(r, d)
    BY <1>1, <2>1, <2>2, <2>3 DEF Meek, Keeps
  <2>5. QED BY <1>1, <2>1, <2>4, PassiveTakes
<1>3. CASE AssessDevice(r)
  <2>1. PICK d : Takes(r, d) /\ Keeps(run[r], d) /\ d.todo \in Seq(Calm) /\ d.pc = "select"
    BY <1>1, <1>3, AssessDeviceEffect DEF Types, Attached, AssessDevice, At
  <2>2. Meek(r, d)
    BY <1>1, <1>3, <2>1, CalmIsSoft DEF Meek, Keeps, Remediating, AssessDevice, At
  <2>3. QED BY <1>1, <2>1, <2>2, PassiveTakes
<1>4. CASE SelectPath(r)
  <2>1. PICK d : /\ Takes(r, d) /\ d.light = run[r].light /\ d.todo \in Seq(Calm)
                 /\ d.pc = "start"
    BY <1>1, <1>4, SelectPathEffect
  <2>2. Meek(r, d)
    BY <1>1, <1>4, <2>1, CalmIsSoft DEF Meek, Remediating, SelectPath, At
  <2>3. QED BY <1>1, <2>1, <2>2, PassiveTakes
<1>5. CASE LoadReports(r)
  <2>1. PICK d : Takes(r, d) /\ d.light = run[r].light /\ d.todo = <<>> /\ d.pc = "start"
    BY <1>1, <1>5, LoadReportsEffect
  <2>2. Meek(r, d)
    BY <1>1, <1>5, <2>1 DEF Meek, Remediating, LoadReports, At
  <2>3. QED BY <1>1, <2>1, <2>2, PassiveTakes
<1>6. CASE StartCycle(r)
  <2>1. PICK d : /\ Takes(r, d) /\ d.light = run[r].light /\ d.todo \in Seq(Calm)
                 /\ d.pc = "classify"
    BY <1>1, <1>6, StartCycleEffect
  <2>2. Meek(r, d)
    BY <1>1, <1>6, <2>1, CalmIsSoft DEF Meek, Remediating, StartCycle, At
  <2>3. QED BY <1>1, <2>1, <2>2, PassiveTakes
<1>7. CASE ClassifyBlocker(r)
  <2>1. PICK d : /\ Takes(r, d) /\ Keeps(run[r], d)
                 /\ \/ d.pc = "remediate" /\ ~d.light
                    \/ d.pc \in {"ask", "gate"} /\ d.todo = <<>>
    BY <1>1, <1>7, ClassifyBlockerEffect
  <2>2. Meek(r, d)
    BY <1>1, <1>7, <2>1 DEF Meek, Keeps, Remediating, ClassifyBlocker, At
  <2>3. QED BY <1>1, <2>1, <2>2, PassiveTakes
<1>8. CASE Ask(r)
  <2>1. PICK d : Takes(r, d) /\ Stays(run[r], d) /\ d.todo \in Seq(Calm) /\ d.pc = "gate"
    BY <1>1, <1>8, AskEffect
  <2>2. Meek(r, d)
    BY <1>1, <1>8, <2>1, CalmIsSoft DEF Meek, Stays, Keeps, Remediating, Ask, At
  <2>3. QED BY <1>1, <2>1, <2>2, PassiveTakes
<1>9. CASE Remediate(r)
  <2>1. PICK d : Takes(r, d) /\ Stays(run[r], d) /\ d.pc = "execute"
    BY <1>1, <1>9, RemediateEffect
  <2>2. Meek(r, d)
    BY <1>1, <1>9, <2>1 DEF Meek, Stays, Keeps, Remediating, Remediate, At
  <2>3. QED BY <1>1, <2>1, <2>2, PassiveTakes
<1>10. CASE Execute(r)
  <2>1. PICK d : Takes(r, d) /\ Stays(run[r], d) /\ d.pc = "inspect"
    BY <1>1, <1>10, ExecuteEffect
  <2>2. Meek(r, d)
    BY <1>1, <1>10, <2>1 DEF Meek, Stays, Keeps, Remediating, Execute, At
  <2>3. QED BY <1>1, <2>1, <2>2, PassiveTakes
<1>11. CASE Inspect(r)
  <2>1. PICK d : Takes(r, d) /\ Keeps(run[r], d) /\ d.todo \in Seq(Calm) /\ d.pc = "gate"
    BY <1>1, <1>11, InspectEffect
  <2>2. Meek(r, d)
    BY <1>1, <1>11, <2>1, CalmIsSoft DEF Meek, Keeps, Remediating, Inspect, At
  <2>3. QED BY <1>1, <2>1, <2>2, PassiveTakes
<1>12. CASE Gate(r)
  <2>1. PICK d : /\ Takes(r, d) /\ Keeps(run[r], d) /\ d.pc = "finish"
                 /\ d.todo \in Seq(Calm) \/ ~run[r].light
    BY <1>1, <1>12, GateEffect
  <2>2. Meek(r, d)
    BY <1>1, <1>12, <2>1, CalmIsSoft DEF Meek, Keeps, Remediating, Gate, At
  <2>3. QED BY <1>1, <2>1, <2>2, PassiveTakes
<1>13. CASE Finish(r)
  <2>1. PICK d : /\ Takes(r, d) /\ Stays(run[r], d) /\ d.pc \in {"iterate", "report"}
                 /\ d.todo \in Seq(Calm) \/ d.todo = <<"BUILD_GENERIC">>
    BY <1>1, <1>13, FinishEffect
  <2>2. <<"BUILD_GENERIC">> \in Seq(SessionStateName \ Loud)
    BY States DEF Loud, Executing
  <2>3. Meek(r, d)
    BY <1>1, <1>13, <2>1, <2>2, CalmIsSoft DEF Meek, Stays, Keeps, Remediating, Finish, At
  <2>4. QED BY <1>1, <2>1, <2>3, PassiveTakes
<1>14. CASE Iterate(r)
  <2>1. PICK d : /\ Takes(r, d) /\ Stays(run[r], d) /\ d.pc \in {"rescan", "report"}
                 /\ d.todo \in Seq(Calm)
    BY <1>1, <1>14, IterateEffect
  <2>2. Meek(r, d)
    BY <1>1, <1>14, <2>1, CalmIsSoft DEF Meek, Stays, Keeps, Remediating, Iterate, At
  <2>3. QED BY <1>1, <2>1, <2>2, PassiveTakes
<1>15. CASE Rescan(r)
  <2>1. PICK d : Takes(r, d) /\ Stays(run[r], d) /\ d.pc = "report" /\ d.todo = <<>>
    BY <1>1, <1>15, RescanEffect
  <2>2. Meek(r, d)
    BY <1>1, <1>15, <2>1 DEF Meek, Stays, Keeps, Remediating, Rescan, At
  <2>3. QED BY <1>1, <2>1, <2>2, PassiveTakes
<1>16. CASE WriteReports(r)
  <2>1. Takes(r, Idle)
    BY <1>16, IdleType DEF Takes, WriteReports
  <2>2. QED BY <1>1, <2>1, MeekIdle, PassiveTakes
<1>17. QED
  BY <1>2, <1>3, <1>4, <1>5, <1>6, <1>7, <1>8, <1>9, <1>10, <1>11, <1>12, <1>13, <1>14, <1>15,
     <1>16 DEF Step

\* A call begins busy, and a full one is never the GUI's.
LEMMA CallBegins ==
  ASSUME TypeOK, NEW r \in Runners, Call(r)
  PROVE  \/ run' = run /\ r = "gui"
         \/ \E d : /\ Takes(r, d) /\ Begins(d) /\ d.pc \in {"assess", "load"}
                   /\ (r = "gui" => d.light)
<1>1. ASSUME NEW t \in Events, Attach(r, t)
      PROVE  \E d : /\ Takes(r, d) /\ Begins(d) /\ d.pc \in {"assess", "load"}
                    /\ (r = "gui" => d.light)
  BY <1>1, AttachEffect DEF Attach
<1>2. ASSUME NEW t \in Events, ResumeWaiting(r, t)
      PROVE  \E d : /\ Takes(r, d) /\ Begins(d) /\ d.pc \in {"assess", "load"}
                    /\ (r = "gui" => d.light)
  BY <1>2, ResumeWaitingEffect DEF ResumeWaiting
<1>3. CASE RunNow(r)
  BY <1>3, RunNowEffect DEF RunNow
<1>4. ASSUME NEW lawful \in BOOLEAN, SaveProfile(r, lawful)
      PROVE  \E d : /\ Takes(r, d) /\ Begins(d) /\ d.pc \in {"assess", "load"}
                    /\ (r = "gui" => d.light)
  BY <1>4, SaveProfileEffect
<1>5. CASE SyncEvidence(r)
  <2>1. r = "gui"
    BY <1>5 DEF SyncEvidence
  <2>2. QED BY <1>5, <2>1, SyncEvidenceEffect
<1>6. QED BY <1>1, <1>2, <1>3, <1>4, <1>5 DEF Call

\* The GUI thread begins lightweight cycles only.
LEMMA PassiveCall == ASSUME Types, Passive, NEW r \in Runners, Call(r) PROVE Passive'
<1>1. TypeOK
  BY DEF Types
<1>2. CASE run' = run
  BY <1>2 DEF Passive, Meek
<1>3. CASE run' # run
  <2>1. PICK d : /\ Takes(r, d) /\ Begins(d) /\ d.pc \in {"assess", "load"}
                 /\ (r = "gui" => d.light)
    BY <1>1, <1>3, CallBegins
  <2>2. Meek(r, d)
    BY <2>1, CalmIsSoft DEF Meek, Begins, Remediating
  <2>3. QED BY <1>1, <2>1, <2>2, PassiveTakes
<1>4. QED BY <1>2, <1>3

\* Every step keeps lightweight cycles meek.
LEMMA PassiveNext == Types /\ Passive /\ [Next]_vars => Passive'
<1> SUFFICES ASSUME Types, Passive, [Next]_vars PROVE Passive'
  OBVIOUS
<1>1. CASE UNCHANGED vars
  BY <1>1 DEF Passive, Meek, vars
<1>2. CASE Environment
  <2>1. run' = run \/ run' = [r \in Runners |-> Idle]
    BY <1>2 DEF Environment, DeviceChanges, OperatorStages, Crash
  <2>2. QED BY <2>1, MeekIdle DEF Passive, Meek
<1>3. QED BY <1>1, <1>2, PassiveStep, PassiveCall DEF Next

\* A lightweight call never stands in a remediation step nor has asked for a loud stage
\* (orchestrator.py, _run_runtime_cycle with execute_workers off).
THEOREM PassiveInvariant == Spec => []Passive
<1>1. Init => Passive
  BY MeekIdle DEF Init, Passive
<1>2. QED BY <1>1, PassiveNext, TypeInvariant, PTL DEF Spec

\* What a step may leave alone when no full cycle is in flight.
LeavesWork ==
  /\ session'.remediation = session.remediation
  /\ failed' = failed
  /\ session'.state # session.state => session'.state \notin Loud

\* The begin of a call counts no remediation and enters no loud stage.
LEMMA CallLeavesWork == ASSUME TypeOK, NEW r \in Runners, Call(r) PROVE LeavesWork
<1>1. ASSUME NEW lawful \in BOOLEAN, SaveProfile(r, lawful) PROVE LeavesWork
  BY <1>1, SaveProfileEffect DEF SaveProfile, LeavesWork
<1>2. CASE SyncEvidence(r)
  BY <1>2, SyncEvidenceEffect DEF SyncEvidence, LeavesWork
<1>3. CASE RunNow(r)
  BY <1>3 DEF RunNow, files, LeavesWork
<1>4. ASSUME NEW t \in Events, Attach(r, t) \/ ResumeWaiting(r, t) PROVE LeavesWork
  BY <1>4 DEF Attach, ResumeWaiting, LeavesWork
<1>5. QED BY <1>1, <1>2, <1>3, <1>4 DEF Call

\* A step of a lightweight cycle counts no remediation and enters no loud stage.
LEMMA LightLeavesWork ==
  ASSUME TypeOK, NEW r \in Runners, Meek(r, run[r]), run[r].light, Step(r)
  PROVE  LeavesWork
<1>1. run[r].pc \notin Remediating /\ run[r].todo \in Seq(SessionStateName \ Loud)
  BY DEF Meek
<1>2. CASE Move(r)
  <2>1. run[r].todo # <<>> /\ Head(run[r].todo) \in SessionStateName
    BY <1>2, MoveEffect
  <2>2. Head(run[r].todo) \notin Loud
    BY <1>1, <2>1
  <2>3. /\ session'.state = safe_transition(session.state, Head(run[r].todo))
        /\ session'.remediation = session.remediation /\ failed' = failed
        /\ session.state \in SessionStateName
    BY SMTT(30), <1>2 DEF TypeOK, Move
  <2>4. QED BY <2>1, <2>2, <2>3, SafeTransition DEF LeavesWork
<1>3. CASE Remediate(r) \/ Execute(r) \/ Inspect(r)
  BY <1>1, <1>3 DEF Remediate, Execute, Inspect, At, Remediating
<1>4. CASE SelectPath(r)
  BY ZenonT(40), <1>4, SelectPathEffect DEF SelectPath, LeavesWork
<1>5. CASE ClassifyBlocker(r)
  BY ZenonT(40), <1>5, ClassifyBlockerEffect DEF ClassifyBlocker, LeavesWork
<1>6. CASE Finish(r)
  BY <1>6, FinishEffect DEF Finish, LeavesWork
<1>7. CASE Iterate(r)
  BY <1>7, IterateEffect DEF Iterate, LeavesWork
<1>8. CASE AssessDevice(r) \/ LoadReports(r)
  BY <1>8 DEF AssessDevice, LoadReports, files, LeavesWork
<1>9. CASE StartCycle(r)
  BY <1>9 DEF StartCycle, LeavesWork
<1>10. CASE Ask(r) \/ Gate(r) \/ Rescan(r) \/ WriteReports(r)
  BY <1>10 DEF Ask, Gate, Rescan, WriteReports, LeavesWork
<1>11. QED
  BY <1>2, <1>3, <1>4, <1>5, <1>6, <1>7, <1>8, <1>9, <1>10 DEF Step

\* A thread that steps is busy.
LEMMA StepIsBusy == ASSUME NEW r \in Runners, Meek(r, run[r]), Step(r) PROVE run[r].pc # "idle"
<1>1. CASE Move(r)
  BY <1>1 DEF Move, Meek
<1>2. CASE ~Move(r)
  BY ZenonT(40), <1>2 DEF Step, AssessDevice, SelectPath, LoadReports, StartCycle, ClassifyBlocker, Ask,
     Remediate, Execute, Inspect, Gate, Finish, Iterate, Rescan, WriteReports, At
<1>3. QED BY <1>1, <1>2

\* A lightweight refresh of the GUI never runs an artifact, whatever overlaps it: with no
\* full cycle in flight no remediation is counted and no loud stage entered
\* (orchestrator.py: execute_workers and execute_runtime_pipelines are off).
THEOREM PassiveTheorem == Spec => LightweightIsPassive
<1> DEFINE NoFullCycle == \A r \in FullRunners : run[r].pc = "idle" /\ run'[r].pc = "idle"
<1>1. Types /\ Passive /\ [Next]_vars => (NoFullCycle => LeavesWork)
  <2> SUFFICES ASSUME Types, Passive, [Next]_vars, NoFullCycle PROVE LeavesWork
    OBVIOUS
  <2>1. TypeOK
    BY DEF Types
  <2>2. CASE UNCHANGED vars
    BY <2>2 DEF vars, files, LeavesWork
  <2>3. CASE Environment
    <3>1. session' = session /\ failed' = failed
      BY <2>3 DEF Environment, DeviceChanges, OperatorStages, Crash, files
    <3>2. QED BY <3>1 DEF LeavesWork
  <2>4. ASSUME NEW r \in Runners, Step(r) PROVE LeavesWork
    <3>1. Meek(r, run[r])
      BY DEF Passive
    <3>2. run[r].pc # "idle"
      BY <2>4, <3>1, StepIsBusy
    <3>3. r = "gui"
      BY <3>2 DEF FullRunners
    <3>4. run[r].light
      BY <3>1, <3>2, <3>3 DEF Meek
    <3>5. QED BY <2>1, <2>4, <3>1, <3>4, LightLeavesWork
  <2>5. QED BY <2>1, <2>2, <2>3, <2>4, CallLeavesWork DEF Next
<1>2. Types /\ Passive /\ [Next]_vars
        => [(\A r \in FullRunners : run[r].pc = "idle" /\ run'[r].pc = "idle")
              => /\ session'.remediation = session.remediation
                 /\ failed' = failed
                 /\ session'.state # session.state
                      => session'.state \notin Executing \cup {"PREVIEW_BUILD", "INSTALL_APPROVAL"}]_vars
  BY <1>1 DEF LeavesWork, Loud
<1>3. QED BY <1>2, TypeInvariant, PassiveInvariant, PTL DEF Spec, LightweightIsPassive

-----------------------------------------------------------------------------
(* Failures.  A thread that passed the check is counted before it fails:   *)
(* recorded failures and remediations in flight stay within the bound.     *)

Rem(b) == {r \in Runners : run[r].pc \in Remediating /\ run[r].blocker.type = b}

Limit == MaxFailures + Cardinality(FullRunners) - 1

Bounded == \A b \in Blockers : failed[b] + Cardinality(Rem(b)) <= Limit

\* There are finitely many roles.
LEMMA RolesFinite == IsFiniteSet(Roles)
<1>1. Roles = {"watcher"} \cup ({"gui"} \cup {"background"})
  BY DEF Roles
<1>2. IsFiniteSet({"watcher"}) /\ IsFiniteSet({"gui"}) /\ IsFiniteSet({"background"})
  BY FS_Singleton
<1>3. QED BY <1>1, <1>2, FS_Union

\* There are finitely many threads.
LEMMA FullFinite == IsFiniteSet(FullRunners) /\ Cardinality(FullRunners) \in Nat
<1>1. FullRunners \subseteq Roles
  BY RunnersAssumption DEF FullRunners
<1>2. QED BY <1>1, RolesFinite, FS_Subset, FS_CardinalityType

\* Only threads that run full cycles remediate.
LEMMA RemFull ==
  ASSUME Passive, NEW b
  PROVE  /\ Rem(b) \subseteq FullRunners /\ IsFiniteSet(Rem(b)) /\ Cardinality(Rem(b)) \in Nat
         /\ Cardinality(Rem(b)) <= Cardinality(FullRunners)
<1>1. Rem(b) \subseteq FullRunners
  BY DEF Passive, Meek, Rem, FullRunners, Remediating
<1>2. QED BY <1>1, FullFinite, FS_Subset, FS_CardinalityType

\* Fewer remediations in flight and no more failures stay within the bound.
LEMMA BoundedLess ==
  ASSUME Types, Bounded, Passive, Passive', failed' = failed,
         \A b \in Blockers : Rem(b)' \subseteq Rem(b)
  PROVE  Bounded'
<1> SUFFICES ASSUME NEW b \in Blockers PROVE failed[b] + Cardinality(Rem(b)') <= Limit
  BY DEF Bounded, Limit, FullRunners
<1>1. Rem(b)' \subseteq Rem(b) /\ failed[b] \in Nat /\ failed[b] + Cardinality(Rem(b)) <= Limit
  BY DEF Types, TypeOK, Bounded
<1>2. IsFiniteSet(Rem(b)) /\ Cardinality(Rem(b)) \in Nat
  BY RemFull
<1>3. Cardinality(Rem(b)') <= Cardinality(Rem(b)) /\ Cardinality(Rem(b)') \in Nat
  BY <1>1, <1>2, FS_Subset, FS_CardinalityType
<1>4. Limit \in Int
  BY FullFinite DEF Limit, MaxFailures
<1>5. QED BY <1>1, <1>2, <1>3, <1>4

\* A step that begins no remediation.
LEMMA RemTakes ==
  ASSUME TypeOK, NEW r \in Runners, NEW d, Takes(r, d),
         d.pc \in Remediating => run[r].pc \in Remediating /\ d.blocker = run[r].blocker
  PROVE  \A b \in Blockers : Rem(b)' \subseteq Rem(b)
<1>1. run'[r] = d /\ \A s \in Runners \ {r} : run'[s] = run[s]
  BY TakesRun
<1>2. QED BY <1>1 DEF Rem

\* A remediation begins only while the failures are below the limit.
LEMMA BoundedClassify ==
  ASSUME Types, Passive, Passive', Bounded, NEW r \in Runners, ClassifyBlocker(r)
  PROVE  Bounded'
<1>1. TypeOK /\ failed' = failed
  BY DEF Types, ClassifyBlocker
<1>2. PICK d : /\ Takes(r, d)
               /\ \/ d.pc = "remediate" /\ failed[d.blocker.type] < MaxFailures
                  \/ d.pc \in {"ask", "gate"}
  BY <1>1, ClassifyBlockerEffect
<1>3. run'[r] = d /\ \A s \in Runners \ {r} : run'[s] = run[s]
  BY <1>1, <1>2, TakesRun
<1>4. CASE d.pc \in {"ask", "gate"}
  <2>1. d.pc \notin Remediating
    BY <1>4 DEF Remediating
  <2>2. QED BY <1>1, <1>2, <2>1, RemTakes, BoundedLess
<1>5. CASE failed[d.blocker.type] < MaxFailures
  <2> SUFFICES ASSUME NEW b \in Blockers PROVE failed[b] + Cardinality(Rem(b)') <= Limit
    BY <1>1 DEF Bounded, Limit, FullRunners
  <2>1. /\ failed[b] \in Nat /\ failed[b] + Cardinality(Rem(b)) <= Limit /\ Limit \in Int
        /\ Cardinality(FullRunners) \in Nat
    BY <1>1, FullFinite DEF TypeOK, Bounded, Limit, MaxFailures
  <2>2. /\ IsFiniteSet(Rem(b)) /\ Cardinality(Rem(b)) \in Nat
    BY RemFull
  <2>3. CASE b = d.blocker.type
    <3>1. Rem(b)' \subseteq FullRunners
      BY <1>3 DEF Passive, Meek, Rem, FullRunners, Remediating
    <3>2. Cardinality(Rem(b)') \in Nat /\ Cardinality(Rem(b)') <= Cardinality(FullRunners)
      BY <3>1, FullFinite, FS_Subset, FS_CardinalityType
    <3>3. failed[b] < MaxFailures
      BY <1>5, <2>3
    <3>4. QED BY <2>1, <3>2, <3>3 DEF Limit, MaxFailures
  <2>4. CASE b # d.blocker.type
    <3>1. Rem(b)' \subseteq Rem(b)
      BY <1>3, <2>4 DEF Rem
    <3>2. Cardinality(Rem(b)') \in Nat /\ Cardinality(Rem(b)') <= Cardinality(Rem(b))
      BY <2>2, <3>1, FS_Subset, FS_CardinalityType
    <3>3. QED BY <2>1, <2>2, <3>2
  <2>5. QED BY <2>3, <2>4
<1>6. QED BY <1>2, <1>4, <1>5

\* A remediation in flight becomes at most one failure.
LEMMA BoundedInspect ==
  ASSUME Types, Passive, Bounded, NEW r \in Runners, Inspect(r)
  PROVE  Bounded'
<1> DEFINE k == run[r].blocker.type
<1>1. TypeOK /\ run[r].pc = "inspect"
  BY DEF Types, Inspect, At
<1>2. PICK n \in {0, failed[k] + 1} : failed' = [failed EXCEPT ![k] = n]
  BY <1>1, InspectEffect
<1>3. PICK d : Takes(r, d) /\ d.pc = "gate"
  BY <1>1, InspectEffect
<1>4. run'[r] = d /\ \A s \in Runners \ {r} : run'[s] = run[s]
  BY <1>1, <1>3, TakesRun
<1>5. k \in Blockers /\ failed \in [Blockers -> Nat]
  BY <1>1 DEF TypeOK, Calls
<1> SUFFICES ASSUME NEW b \in Blockers PROVE failed'[b] + Cardinality(Rem(b)') <= Limit
  BY DEF Bounded, Limit, FullRunners
<1>6. Rem(b)' = Rem(b) \ {r}
  BY <1>3, <1>4 DEF Rem, Remediating
<1>7. /\ failed[b] \in Nat /\ failed[b] + Cardinality(Rem(b)) <= Limit /\ Limit \in Int
      /\ IsFiniteSet(Rem(b)) /\ Cardinality(Rem(b)) \in Nat
  BY <1>5, FullFinite, RemFull DEF Bounded, Limit, MaxFailures
<1>8. Cardinality(Rem(b)') \in Nat
      /\ Cardinality(Rem(b)') = IF r \in Rem(b) THEN Cardinality(Rem(b)) - 1
                                ELSE Cardinality(Rem(b))
  BY <1>6, <1>7, FS_RemoveElement, FS_CardinalityType
<1> HIDE DEF k
<1>9. CASE b = k
  <2>1. r \in Rem(b)
    BY <1>1, <1>9 DEF Rem, Remediating, k
  <2>2. failed'[b] = n /\ n \in Nat /\ n <= failed[b] + 1
    BY <1>2, <1>5, <1>9
  <2>3. QED BY <1>7, <1>8, <2>1, <2>2
<1>10. CASE b # k
  <2>1. failed'[b] = failed[b]
    BY <1>2, <1>5, <1>10
  <2>2. QED BY <1>7, <1>8, <2>1
<1>11. QED BY <1>9, <1>10

\* Every step of a call stays within the bound.
LEMMA BoundedStep ==
  ASSUME Types, Passive, Passive', Bounded, NEW r \in Runners, Step(r) PROVE Bounded'
<1>1. TypeOK /\ Types
  BY DEF Types
<1> DEFINE Tame(d) == d.pc \in Remediating => run[r].pc \in Remediating /\ d.blocker = run[r].blocker
<1>2. SUFFICES ASSUME ~ClassifyBlocker(r), ~Inspect(r)
               PROVE  failed' = failed /\ \E d : Takes(r, d) /\ Tame(d)
  BY <1>1, RemTakes, BoundedLess, BoundedClassify, BoundedInspect
<1>3. CASE Move(r)
  <2>1. PICK d : Takes(r, d) /\ d.pc = run[r].pc /\ d.blocker = run[r].blocker
    BY <1>1, <1>3, MoveEffect
  <2>2. QED BY <1>3, <2>1 DEF Move
<1>4. CASE AssessDevice(r)
  <2>1. PICK d : Takes(r, d) /\ d.pc = "select"
    BY <1>1, <1>4, AssessDeviceEffect DEF Types, Attached, AssessDevice, At
  <2>2. QED BY <1>4, <2>1 DEF AssessDevice, files, Remediating
<1>5. CASE SelectPath(r)
  <2>1. PICK d : Takes(r, d) /\ d.pc = "start"
    BY <1>1, <1>5, SelectPathEffect
  <2>2. QED BY <1>5, <2>1 DEF SelectPath, Remediating
<1>6. CASE LoadReports(r)
  <2>1. PICK d : Takes(r, d) /\ d.pc = "start"
    BY <1>1, <1>6, LoadReportsEffect
  <2>2. QED BY <1>6, <2>1 DEF LoadReports, files, Remediating
<1>7. CASE StartCycle(r)
  <2>1. PICK d : Takes(r, d) /\ d.pc = "classify"
    BY <1>1, <1>7, StartCycleEffect
  <2>2. QED BY <1>7, <2>1 DEF StartCycle, Remediating
<1>8. CASE Ask(r)
  <2>1. PICK d : Takes(r, d) /\ d.pc = "gate"
    BY <1>1, <1>8, AskEffect
  <2>2. QED BY <1>8, <2>1 DEF Ask, Remediating
<1>9. CASE Remediate(r)
  <2>1. PICK d : Takes(r, d) /\ Stays(run[r], d)
    BY <1>1, <1>9, RemediateEffect
  <2>2. QED BY <1>9, <2>1 DEF Remediate, At, Stays, Remediating
<1>10. CASE Execute(r)
  <2>1. PICK d : Takes(r, d) /\ Stays(run[r], d)
    BY <1>1, <1>10, ExecuteEffect
  <2>2. QED BY <1>10, <2>1 DEF Execute, At, Stays, Remediating
<1>11. CASE Gate(r)
  <2>1. PICK d : Takes(r, d) /\ d.pc = "finish"
    BY <1>1, <1>11, GateEffect
  <2>2. QED BY <1>11, <2>1 DEF Gate, Remediating
<1>12. CASE Finish(r)
  <2>1. PICK d : Takes(r, d) /\ d.pc \in {"iterate", "report"}
    BY <1>1, <1>12, FinishEffect
  <2>2. QED BY <1>12, <2>1 DEF Finish, Remediating
<1>13. CASE Iterate(r)
  <2>1. PICK d : Takes(r, d) /\ d.pc \in {"rescan", "report"}
    BY <1>1, <1>13, IterateEffect
  <2>2. QED BY <1>13, <2>1 DEF Iterate, Remediating
<1>14. CASE Rescan(r)
  <2>1. PICK d : Takes(r, d) /\ d.pc = "report"
    BY <1>1, <1>14, RescanEffect
  <2>2. QED BY <1>14, <2>1 DEF Rescan, Remediating
<1>15. CASE WriteReports(r)
  <2>1. Takes(r, Idle) /\ Idle.pc = "idle"
    BY <1>15, IdleType DEF Takes, WriteReports
  <2>2. QED BY <1>15, <2>1 DEF WriteReports, Remediating
<1>16. QED
  BY <1>2, <1>3, <1>4, <1>5, <1>6, <1>7, <1>8, <1>9, <1>10, <1>11, <1>12, <1>13, <1>14, <1>15
     DEF Step

\* Every step stays within the bound.
LEMMA BoundedNext == Types /\ Passive /\ Passive' /\ Bounded /\ [Next]_vars => Bounded'
<1> SUFFICES ASSUME Types, Passive, Passive', Bounded, [Next]_vars PROVE Bounded'
  OBVIOUS
<1>1. TypeOK
  BY DEF Types
<1>2. CASE UNCHANGED vars
  <2>1. failed' = failed /\ run' = run
    BY <1>2 DEF vars, files
  <2>2. QED BY <2>1, BoundedLess DEF Rem
<1>3. CASE Environment
  <2>1. failed' = failed /\ (run' = run \/ run' = [r \in Runners |-> Idle])
    BY <1>3 DEF Environment, DeviceChanges, OperatorStages, Crash, files
  <2>2. \A b \in Blockers : Rem(b)' \subseteq Rem(b)
    BY <2>1, IdleType DEF Rem, Remediating
  <2>3. QED BY <2>1, <2>2, BoundedLess
<1>4. ASSUME NEW r \in Runners, Call(r) PROVE Bounded'
  <2>1. failed' = failed
    BY <1>1, <1>4, CallLeavesWork DEF LeavesWork
  <2>2. CASE run' = run
    BY <2>1, <2>2, BoundedLess DEF Rem
  <2>3. CASE run' # run
    <3>1. PICK d : Takes(r, d) /\ d.pc \in {"assess", "load"}
      BY <1>1, <1>4, <2>3, CallBegins
    <3>2. d.pc \notin Remediating
      BY <3>1 DEF Remediating
    <3>3. QED BY <1>1, <2>1, <3>1, <3>2, RemTakes, BoundedLess
  <2>4. QED BY <2>2, <2>3
<1>5. QED BY <1>2, <1>3, <1>4, BoundedStep DEF Next

\* Non-advancing remediations of one kind of blocker stop after MaxFailures, but for one
\* more per thread that had passed the check before the last of them was recorded
\* (deliberation.py): for any set of threads.
THEOREM FailuresTheorem == Spec => []BoundedFailures
<1>1. Init => Bounded
  <2> SUFFICES ASSUME Init, NEW b \in Blockers PROVE failed[b] + Cardinality(Rem(b)) <= Limit
    BY DEF Bounded
  <2>1. Rem(b) = {} /\ failed[b] = 0
    BY IdleType DEF Init, Rem, Remediating
  <2>2. Cardinality(Rem(b)) = 0
    BY <2>1, FS_EmptySet
  <2>3. QED BY <2>1, <2>2, FullFinite DEF Limit, MaxFailures
<1>2. Spec => []Bounded
  BY <1>1, BoundedNext, TypeInvariant, PassiveInvariant, PTL DEF Spec
<1>3. Types /\ Passive /\ Bounded => BoundedFailures
  <2> SUFFICES ASSUME Types, Passive, Bounded, NEW b \in Blockers
               PROVE  failed[b] <= MaxFailures + Cardinality(FullRunners) - 1
    BY DEF BoundedFailures
  <2>1. failed[b] \in Nat /\ Cardinality(Rem(b)) \in Nat
    BY RemFull DEF Types, TypeOK
  <2>2. failed[b] + Cardinality(Rem(b)) <= Limit /\ Limit \in Int
    BY FullFinite DEF Bounded, Limit, MaxFailures
  <2>3. QED BY <2>1, <2>2 DEF Limit
<1>4. QED BY <1>2, <1>3, TypeInvariant, PassiveInvariant, PTL

-----------------------------------------------------------------------------
(* Install approval.  While calls do not overlap, the plan a cycle works   *)
(* from still describes the files: its transport is the profile's, and if  *)
(* it found sources and could go to the gate they are still staged.        *)

Plain == SessionStateName \ {"INSTALL_APPROVAL"}

Planned == {"classify", "ask", "remediate", "execute", "inspect", "gate"}

\* A plan past its classification that lost its sources, and so cannot be approved.
Dropped(c) == /\ c.pc # "classify" /\ ~Candidate(c)
              /\ c.pc = "gate" \/ c.blocker.type = "source_blocker"

Backed(c) ==
  /\ ~c.deferred => c.ready
  /\ c.pc \in Planned => c.transport = profile.transport
  /\ c.pc \in Planned /\ c.ready => staged # "none" \/ Dropped(c)
  /\ \/ c.todo \in Seq(Plain)
     \/ c.pc = "finish" /\ profile.transport \in MANAGEABLE_TRANSPORTS /\ staged # "none"

Evidence == \A r \in Runners : Backed(run[r])

Single == \A r, s \in Runners : run[r].pc # "idle" /\ run[s].pc # "idle" => r = s

\* A plan without install stages offers no install.
LEMMA QuietIsPlain == /\ \A q \in Seq(Quiet) : q \in Seq(Plain)
                      /\ \A q \in Seq(Calm) : q \in Seq(Plain)
<1>1. Quiet \subseteq Plain /\ Calm \subseteq Plain
  BY QuietStates DEF Plain
<1>2. QED BY <1>1, Wider

\* A call that begins offers no install.
LEMMA BeginsBacked ==
  /\ \A d : Begins(d) /\ d.pc \notin Planned => Backed(d)
  /\ Backed(Idle)
<1>1. ASSUME NEW d, Begins(d), d.pc \notin Planned PROVE Backed(d)
  BY <1>1, QuietIsPlain DEF Begins, Backed
<1>2. Backed(Idle)
  BY <1>1, IdleBegins, IdleType DEF Planned
<1>3. QED BY <1>1, <1>2

\* The step of the only busy thread.
LEMMA EvidenceTakes ==
  ASSUME TypeOK, Evidence, NEW r \in Runners, NEW d, Takes(r, d), Backed(d)',
         \A s \in Runners \ {r} : run[s].pc = "idle"
  PROVE  Evidence' /\ Single'
<1>1. run'[r] = d /\ \A s \in Runners \ {r} : run'[s] = run[s]
  BY TakesRun
<1>2. \A s \in Runners \ {r} : Backed(run[s])'
  <2> SUFFICES ASSUME NEW s \in Runners \ {r} PROVE Backed(run[s])'
    OBVIOUS
  <2>1. run[s].pc = "idle" /\ run'[s] = run[s] /\ Backed(run[s])
    BY <1>1 DEF Evidence
  <2>2. QED BY <2>1 DEF Backed, Planned, Dropped, Candidate
<1>3. Backed(run[r])'
  BY <1>1 DEF Backed, Dropped, Candidate
<1>4. Evidence'
  BY <1>2, <1>3 DEF Evidence
<1>5. Single'
  BY <1>1 DEF Single
<1>6. QED BY <1>4, <1>5

\* Every step of the only call keeps the evidence for what it plans.
LEMMA EvidenceStep ==
  ASSUME Types, Passive, Single, Evidence, NEW r \in Runners, Step(r)
  PROVE  Evidence' /\ Single'
<1>1. TypeOK /\ Types /\ Backed(run[r]) /\ Meek(r, run[r])
  BY DEF Types, Evidence, Passive
<1>2. run[r].pc # "idle"
  BY <1>1, StepIsBusy
<1>3. \A s \in Runners \ {r} : run[s].pc = "idle"
  BY <1>2 DEF Single
<1>4. SUFFICES \E d : Takes(r, d) /\ Backed(d)'
  BY <1>1, <1>3, EvidenceTakes
<1>5. CASE Move(r)
  <2>1. PICK d : /\ Takes(r, d) /\ Keeps(run[r], d) /\ d.pc = run[r].pc
                 /\ d.todo = Tail(run[r].todo) /\ d.blocker = run[r].blocker
                 /\ d.assess = run[r].assess /\ d.transport = run[r].transport
    BY <1>1, <1>5, MoveEffect
  <2>2. run[r].todo # <<>>
    BY <1>5 DEF Move
  <2>3. run[r].todo \in Seq(Plain) => Tail(run[r].todo) \in Seq(Plain)
    BY <2>2
  <2>4. profile' = profile /\ staged' = staged
    BY <1>5 DEF Move
  <2>5. Backed(d)'
    BY <1>1, <2>1, <2>3, <2>4 DEF Backed, Keeps, Dropped, Candidate
  <2>6. QED BY <2>1, <2>5
<1>6. CASE AssessDevice(r)
  <2>1. PICK d : Takes(r, d) /\ Keeps(run[r], d) /\ d.pc = "select" /\ d.todo \in Seq(Calm)
    BY <1>1, <1>6, AssessDeviceEffect DEF Types, Attached, AssessDevice, At
  <2>2. Backed(d)'
    BY <1>1, <2>1, QuietIsPlain DEF Backed, Keeps, Planned
  <2>3. QED BY <2>1, <2>2
<1>7. CASE SelectPath(r)
  <2>1. PICK d : /\ Takes(r, d) /\ d.pc = "start" /\ d.todo \in Seq(Calm)
                 /\ d.ready = run[r].ready /\ d.deferred = run[r].deferred
    BY <1>1, <1>7, SelectPathEffect
  <2>2. Backed(d)'
    BY <1>1, <2>1, QuietIsPlain DEF Backed, Planned
  <2>3. QED BY <2>1, <2>2
<1>8. CASE LoadReports(r)
  <2>1. PICK d : /\ Takes(r, d) /\ d.pc = "start" /\ d.todo = <<>>
                 /\ d.ready = run[r].ready /\ d.deferred = run[r].deferred
    BY <1>1, <1>8, LoadReportsEffect
  <2>2. Backed(d)'
    BY <1>1, <2>1 DEF Backed, Planned
  <2>3. QED BY <2>1, <2>2
<1>9. CASE StartCycle(r)
  <2>1. PICK d : /\ Takes(r, d) /\ d.pc = "classify" /\ d.todo \in Seq(Calm)
                 /\ d.transport = profile'.transport
                 /\ (d.ready => staged' # "none") /\ (~d.deferred => d.ready)
    BY <1>1, <1>9, StartCycleEffect
  <2>2. Backed(d)'
    BY <2>1, QuietIsPlain DEF Backed, Planned
  <2>3. QED BY <2>1, <2>2
<1>10. CASE ClassifyBlocker(r)
  <2>1. PICK d : /\ Takes(r, d) /\ Keeps(run[r], d)
                 /\ d.transport = run[r].transport /\ d.assess = run[r].assess
                 /\ \/ d.pc = "remediate" /\ d.todo \in Seq(Quiet)
                    \/ d.pc \in {"ask", "gate"} /\ d.todo = <<>>
                 /\ (staged' = staged \/ d.blocker.type = "source_blocker")
                 /\ (d.blocker.type = "source_blocker" /\ d.ready => ~Candidate(d))
    BY <1>1, <1>10, ClassifyBlockerEffect
  <2>2. profile' = profile /\ run[r].pc = "classify"
    BY <1>10 DEF ClassifyBlocker, At
  <2>3. d.todo \in Seq(Plain) /\ d.pc \in Planned \ {"classify"}
    <3>1. <<>> \in Seq(Plain)
      OBVIOUS
    <3>2. QED BY <2>1, <3>1, QuietIsPlain DEF Planned
  <2>4. d.transport = profile'.transport /\ (~d.deferred => d.ready)
    BY <1>1, <2>1, <2>2 DEF Backed, Keeps, Planned
  <2>5. d.ready => staged' # "none" \/ Dropped(d)
    <3>1. d.ready => staged # "none"
      BY <1>1, <2>1, <2>2 DEF Backed, Keeps, Planned, Dropped
    <3>2. QED BY <2>1, <2>3, <3>1 DEF Dropped
  <2>6. Backed(d)'
    BY <2>3, <2>4, <2>5 DEF Backed, Dropped, Candidate
  <2>7. QED BY <2>1, <2>6
<1>11. CASE Ask(r)
  <2>1. PICK d : Takes(r, d) /\ Stays(run[r], d) /\ d.pc = "gate" /\ d.todo \in Seq(Calm)
    BY <1>1, <1>11, AskEffect
  <2>2. profile' = profile /\ run[r].pc = "ask" /\ (staged # "none" => staged' # "none")
    BY <1>1, <1>11, AskEffect DEF Ask, At
  <2>3. Backed(d)'
    BY <1>1, <2>1, <2>2, QuietIsPlain DEF Backed, Stays, Keeps, Planned, Dropped, Candidate
  <2>4. QED BY <2>1, <2>3
<1>12. CASE Remediate(r)
  <2>1. PICK d : Takes(r, d) /\ Stays(run[r], d) /\ d.pc = "execute" /\ d.todo \in Seq(Quiet)
    BY <1>1, <1>12, RemediateEffect
  <2>2. profile' = profile /\ run[r].pc = "remediate" /\ staged' = staged
    BY <1>12 DEF Remediate, At
  <2>3. Backed(d)'
    BY <1>1, <2>1, <2>2, QuietIsPlain DEF Backed, Stays, Keeps, Planned, Dropped, Candidate
  <2>4. QED BY <2>1, <2>3
<1>13. CASE Execute(r)
  <2>1. PICK d : Takes(r, d) /\ Stays(run[r], d) /\ d.pc = "inspect" /\ d.todo \in Seq(Quiet)
    BY SMTT(30), <1>1, <1>13, ExecuteEffect
  <2>2. profile' = profile /\ run[r].pc = "execute" /\ (staged # "none" => staged' # "none")
    BY <1>1, <1>13, ExecuteEffect DEF Execute, At
  <2>3. Backed(d)'
    BY <1>1, <2>1, <2>2, QuietIsPlain DEF Backed, Stays, Keeps, Planned, Dropped, Candidate
  <2>4. QED BY <2>1, <2>3
<1>14. CASE Inspect(r)
  <2>1. PICK d : /\ Takes(r, d) /\ Keeps(run[r], d) /\ d.pc = "gate" /\ d.todo \in Seq(Calm)
                 /\ d.transport = profile'.transport
                 /\ (run[r].blocker.type = "source_blocker" =>
                       profile' = profile /\ d.assess = run[r].assess)
    BY <1>1, <1>14, InspectEffect
  <2>2. run[r].pc = "inspect" /\ staged' = staged
    BY <1>14 DEF Inspect, At
  <2>3. d.ready => staged # "none" \/ Dropped(d)
    BY <1>1, <2>1, <2>2 DEF Backed, Keeps, Planned, Dropped, Candidate
  <2>4. Backed(d)'
    BY <1>1, <2>1, <2>2, <2>3, QuietIsPlain DEF Backed, Keeps, Planned, Dropped, Candidate
  <2>5. QED BY <2>1, <2>4
<1>15. CASE Gate(r)
  <2>1. PICK d : /\ Takes(r, d) /\ Keeps(run[r], d) /\ d.pc = "finish"
                 /\ d.todo \in Seq(Calm) \/ Candidate(run[r])
    BY <1>1, <1>15, GateEffect
  <2>2. profile' = profile /\ run[r].pc = "gate" /\ (staged # "none" => staged' # "none")
    BY <1>1, <1>15, GateEffect DEF Gate, At
  <2>3. Candidate(run[r]) => /\ profile.transport \in MANAGEABLE_TRANSPORTS
                             /\ staged # "none"
    BY <1>1, <2>2 DEF Backed, Planned, Dropped, Candidate
  <2>4. Backed(d)'
    BY <1>1, <2>1, <2>2, <2>3, QuietIsPlain DEF Backed, Keeps, Planned
  <2>5. QED BY <2>1, <2>4
<1>16. CASE Finish(r)
  <2>1. PICK d : /\ Takes(r, d) /\ Stays(run[r], d) /\ d.pc \in {"iterate", "report"}
                 /\ d.todo \in Seq(Calm) \/ d.todo = <<"BUILD_GENERIC">>
    BY <1>1, <1>16, FinishEffect
  <2>2. <<"BUILD_GENERIC">> \in Seq(Plain)
    BY States DEF Plain
  <2>3. Backed(d)'
    BY <1>1, <2>1, <2>2, QuietIsPlain DEF Backed, Stays, Keeps, Planned
  <2>4. QED BY <2>1, <2>3
<1>17. CASE Iterate(r)
  <2>1. PICK d : /\ Takes(r, d) /\ Stays(run[r], d) /\ d.pc \in {"rescan", "report"}
                 /\ d.todo \in Seq(Calm)
    BY <1>1, <1>17, IterateEffect
  <2>2. Backed(d)'
    BY <1>1, <2>1, QuietIsPlain DEF Backed, Stays, Keeps, Planned
  <2>3. QED BY <2>1, <2>2
<1>18. CASE Rescan(r)
  <2>1. PICK d : Takes(r, d) /\ Stays(run[r], d) /\ d.pc = "report" /\ d.todo = <<>>
    BY <1>1, <1>18, RescanEffect
  <2>2. Backed(d)'
    BY <1>1, <2>1 DEF Backed, Stays, Keeps, Planned
  <2>3. QED BY <2>1, <2>2
<1>19. CASE WriteReports(r)
  <2>1. Takes(r, Idle)
    BY <1>19, IdleType DEF Takes, WriteReports
  <2>2. Backed(Idle)'
    BY BeginsBacked, IdleType DEF Backed, Planned
  <2>3. QED BY <2>1, <2>2
<1>20. QED
  BY <1>5, <1>6, <1>7, <1>8, <1>9, <1>10, <1>11, <1>12, <1>13, <1>14, <1>15, <1>16, <1>17, <1>18,
     <1>19 DEF Step

\* With one call at a time, a call begins only when there is none.
LEMMA FreeIsAlone ==
  ASSUME MaxInFlight = 1, NEW r \in Runners, Free(r)
  PROVE  \A s \in Runners : run[s].pc = "idle"
<1>1. Cardinality(InFlight) < 1
  BY DEF Free
<1>2. IsFiniteSet(InFlight)
  BY RolesFinite, FS_Subset, RunnersAssumption DEF InFlight
<1>3. InFlight = {}
  BY <1>1, <1>2, FS_EmptySet, FS_CardinalityType
<1>4. QED BY <1>3 DEF InFlight

\* The begin of a call plans no install.
LEMMA EvidenceCall ==
  ASSUME MaxInFlight = 1, Types, Single, Evidence, NEW r \in Runners, Call(r)
  PROVE  Evidence' /\ Single'
<1>1. TypeOK
  BY DEF Types
<1>2. Free(r)
  BY DEF Call, Attach, ResumeWaiting, RunNow, SaveProfile, SyncEvidence
<1>3. \A s \in Runners : run[s].pc = "idle"
  BY <1>2, FreeIsAlone
<1>4. CASE run' = run
  <2>1. \A s \in Runners : Backed(run[s])'
    BY <1>3, <1>4 DEF Evidence, Backed, Planned, Dropped, Candidate
  <2>2. QED BY <1>4, <2>1 DEF Evidence, Single
<1>5. CASE run' # run
  <2>1. PICK d : Takes(r, d) /\ Begins(d) /\ d.pc \in {"assess", "load"}
    BY <1>1, <1>5, CallBegins
  <2>2. Backed(d)'
    BY <2>1, QuietIsPlain DEF Begins, Backed, Planned
  <2>3. QED BY <1>1, <1>3, <2>1, <2>2, EvidenceTakes
<1>6. QED BY <1>4, <1>5

\* Every step keeps the evidence.
LEMMA EvidenceNext ==
  ASSUME MaxInFlight = 1
  PROVE  Types /\ Passive /\ Single /\ Evidence /\ [Next]_vars => Evidence' /\ Single'
<1> SUFFICES ASSUME Types, Passive, Single, Evidence, [Next]_vars PROVE Evidence' /\ Single'
  OBVIOUS
<1>1. CASE UNCHANGED vars
  BY <1>1 DEF vars, files, Evidence, Single, Backed, Dropped, Candidate
<1>2. CASE \E mode \in Modes : DeviceChanges(mode)
  BY <1>2 DEF DeviceChanges, files, Evidence, Single, Backed, Dropped, Candidate
<1>3. CASE \E kind \in {"usable", "rejected"} : OperatorStages(kind)
  <2>1. staged' # "none" /\ profile' = profile /\ run' = run
    BY <1>3 DEF OperatorStages
  <2>2. QED BY <2>1 DEF Evidence, Single, Backed, Dropped, Candidate
<1>4. CASE Crash
  <2>1. run' = [r \in Runners |-> Idle]
    BY <1>4 DEF Crash
  <2>2. Backed(Idle)'
    BY BeginsBacked, IdleType DEF Backed, Planned
  <2>3. \A r \in Runners : Backed(run[r])'
    BY <2>1, <2>2 DEF Backed, Dropped, Candidate
  <2>4. Single'
    BY <2>1, IdleType DEF Single
  <2>5. QED BY <2>3, <2>4 DEF Evidence
<1>5. QED BY <1>1, <1>2, <1>3, <1>4, EvidenceStep, EvidenceCall DEF Next, Environment

\* Only the transitions of a plan change the state of the session.
LEMMA OnlyMoveOffers ==
  ASSUME TypeOK, NEW r \in Runners, Step(r), ~Move(r)
  PROVE  session'.state = session.state
<1>1. CASE SelectPath(r)
  BY <1>1, SelectPathEffect
<1>2. CASE ClassifyBlocker(r)
  BY <1>2, ClassifyBlockerEffect
<1>3. CASE Remediate(r)
  BY <1>3, RemediateEffect
<1>4. CASE Inspect(r)
  BY <1>4, InspectEffect
<1>5. CASE Finish(r)
  BY <1>5, FinishEffect
<1>6. CASE Iterate(r)
  BY <1>6, IterateEffect
<1>7. CASE AssessDevice(r) \/ LoadReports(r)
  BY <1>7 DEF AssessDevice, LoadReports, files
<1>8. CASE StartCycle(r)
  BY <1>8 DEF StartCycle
<1>9. CASE Ask(r) \/ Execute(r) \/ Gate(r) \/ Rescan(r) \/ WriteReports(r)
  BY <1>9 DEF Ask, Execute, Gate, Rescan, WriteReports
<1>10. QED BY <1>1, <1>2, <1>3, <1>4, <1>5, <1>6, <1>7, <1>8, <1>9 DEF Step

\* While no two calls overlap, the session is offered for install approval only when its
\* profile shows a transport that can be managed and flashable files are staged
\* (orchestrator.py, install_ready), though the plan it moves on was made long before.
THEOREM ApprovalTheorem == ASSUME MaxInFlight = 1 PROVE Spec => ApprovalHasEvidence
<1>1. Init => Single /\ Evidence
  BY BeginsBacked, IdleType DEF Init, Single, Evidence
<1>2. Spec => [](Single /\ Evidence)
  BY <1>1, EvidenceNext, TypeInvariant, PassiveInvariant, PTL DEF Spec
<1>3. Types /\ Evidence /\ [Next]_vars
        => [session.state # "INSTALL_APPROVAL" /\ session'.state = "INSTALL_APPROVAL"
              => profile.transport \in MANAGEABLE_TRANSPORTS /\ staged # "none"]_vars
  <2> SUFFICES ASSUME Types, Evidence, [Next]_vars,
                      session.state # "INSTALL_APPROVAL", session'.state = "INSTALL_APPROVAL"
               PROVE  profile.transport \in MANAGEABLE_TRANSPORTS /\ staged # "none"
    OBVIOUS
  <2>1. TypeOK
    BY DEF Types
  <2>2. ~UNCHANGED vars /\ ~Environment
    <3>1. session' # session
      OBVIOUS
    <3>2. QED BY <3>1 DEF vars, files, Environment, DeviceChanges, OperatorStages, Crash
  <2>3. PICK r \in Runners : Step(r) \/ Call(r)
    BY <2>2 DEF Next
  <2>4. ~Call(r)
    BY <2>1, CallLeavesWork DEF LeavesWork, Loud
  <2>5. Move(r)
    BY <2>1, <2>3, <2>4, OnlyMoveOffers
  <2>6. run[r].todo # <<>> /\ Head(run[r].todo) \in SessionStateName
    BY <2>1, <2>5, MoveEffect
  <2>7. session'.state = safe_transition(session.state, Head(run[r].todo))
        /\ session.state \in SessionStateName
    BY <2>1, <2>5 DEF TypeOK, Move
  <2>8. Head(run[r].todo) = "INSTALL_APPROVAL"
    BY <2>6, <2>7, SafeTransition
  <2>9. run[r].todo \notin Seq(Plain)
    BY <2>6, <2>8 DEF Plain
  <2>10. QED BY <2>9 DEF Evidence, Backed
<1>4. QED BY <1>2, <1>3, TypeInvariant, PTL DEF Spec, ApprovalHasEvidence

-----------------------------------------------------------------------------
(* Entitlement.  Whatever overlaps, the call that brings the session into  *)
(* an install stage has found the grounds for it itself.                   *)

Early == {"assess", "select", "load"}
Late  == {"finish", "iterate", "rescan", "report"}

\* The call has read an attested form, has planned with sources staged, and knows the
\* device as actionable over a transport that can be managed.
Entitled(c) == Candidate(c) /\ c.lawful /\ c.ready

Earned(c) ==
  /\ c.path # "research_only_path" => c.lawful /\ c.pc \notin Early
  /\ ~c.deferred => c.ready
  /\ c.installReady => Candidate(c) /\ c.pc \in Late
  /\ c.todo \in Seq(Quiet) \/ Candidate(c)

Deserved == \A r \in Runners : Earned(run[r])

\* A candidate that earned its plan is entitled.
LEMMA EarnedEntitles == \A c : Earned(c) /\ Candidate(c) => Entitled(c)
BY DEF Earned, Candidate, Entitled

\* A call that begins has planned no install.
LEMMA BeginsEarned == /\ \A d : Begins(d) => Earned(d)
                      /\ Earned(Idle)
<1>1. ASSUME NEW d, Begins(d) PROVE Earned(d)
  BY <1>1, CalmIsQuiet DEF Begins, Earned
<1>2. QED BY <1>1, IdleBegins

\* Plans that are empty or calm hold no install stage.
LEMMA NoInstall == \A q \in Seq(Calm) \cup {<<>>} : q \in Seq(Quiet)
<1>1. <<>> \in Seq(Quiet)
  OBVIOUS
<1>2. QED BY <1>1, CalmIsQuiet

\* Every step of a call plans an install only on grounds of its own.
LEMMA EarnedStep ==
  ASSUME Types, Deserved, NEW r \in Runners, Step(r)
  PROVE  \E d : Takes(r, d) /\ Earned(d)
<1>1. TypeOK /\ Types /\ Earned(run[r])
  BY DEF Types, Deserved
<1>2. CASE Move(r)
  <2>1. PICK d : /\ Takes(r, d) /\ Keeps(run[r], d) /\ d.pc = run[r].pc
                 /\ d.todo = Tail(run[r].todo) /\ d.installReady = run[r].installReady
                 /\ d.assess = run[r].assess /\ d.transport = run[r].transport
    BY <1>1, <1>2, MoveEffect
  <2>2. run[r].todo # <<>>
    BY <1>2 DEF Move
  <2>3. run[r].todo \in Seq(Quiet) => Tail(run[r].todo) \in Seq(Quiet)
    BY <2>2
  <2>4. Earned(d)
    BY <1>1, <2>1, <2>3 DEF Earned, Keeps, Candidate
  <2>5. QED BY <2>1, <2>4
<1>3. CASE AssessDevice(r)
  <2>1. PICK d : /\ Takes(r, d) /\ Keeps(run[r], d) /\ d.pc = "select" /\ d.todo \in Seq(Calm)
                 /\ d.installReady = run[r].installReady
    BY <1>1, <1>3, AssessDeviceEffect DEF Types, Attached, AssessDevice, At
  <2>2. run[r].pc = "assess"
    BY <1>3 DEF AssessDevice, At
  <2>3. Earned(d)
    BY <1>1, <2>1, <2>2, CalmIsQuiet DEF Earned, Keeps, Early, Late
  <2>4. QED BY <2>1, <2>3
<1>4. CASE SelectPath(r) \/ LoadReports(r)
  <2>1. PICK d : /\ Takes(r, d) /\ d.pc = "start" /\ d.todo \in Seq(Calm) \cup {<<>>}
                 /\ d.path = run[r].path /\ d.ready = run[r].ready
                 /\ d.deferred = run[r].deferred /\ d.installReady = run[r].installReady
    BY <1>1, <1>4, SelectPathEffect, LoadReportsEffect
  <2>2. run[r].pc \in Early
    BY <1>4 DEF SelectPath, LoadReports, At, Early
  <2>3. d.todo \in Seq(Quiet)
    BY <2>1, NoInstall
  <2>4. Earned(d)
    BY <1>1, <2>1, <2>2, <2>3 DEF Earned, Early, Late
  <2>5. QED BY <2>1, <2>4
<1>5. CASE StartCycle(r)
  <2>1. PICK d : /\ Takes(r, d) /\ d.pc = "classify" /\ d.todo \in Seq(Calm)
                 /\ d.path = OsPath(d.lawful, d.assess.support, session.strategy)
                 /\ (~d.deferred => d.ready) /\ d.installReady = run[r].installReady
    BY <1>1, <1>5, StartCycleEffect
  <2>2. d.path # "research_only_path" => d.lawful
    BY <2>1 DEF OsPath
  <2>3. run[r].pc = "start"
    BY <1>5 DEF StartCycle, At
  <2>4. Earned(d)
    BY <1>1, <2>1, <2>2, <2>3, CalmIsQuiet DEF Earned, Early, Late
  <2>5. QED BY <2>1, <2>4
<1>6. CASE ClassifyBlocker(r)
  <2>1. PICK d : /\ Takes(r, d) /\ Keeps(run[r], d) /\ d.installReady = run[r].installReady
                 /\ \/ d.pc = "remediate" /\ d.todo \in Seq(Quiet)
                    \/ d.pc \in {"ask", "gate"} /\ d.todo = <<>>
    BY <1>1, <1>6, ClassifyBlockerEffect
  <2>2. run[r].pc = "classify" /\ d.todo \in Seq(Quiet) /\ d.pc \notin Early
    BY <1>6, <2>1, NoInstall DEF ClassifyBlocker, At, Early
  <2>3. Earned(d)
    BY <1>1, <2>1, <2>2 DEF Earned, Keeps, Late
  <2>4. QED BY <2>1, <2>3
<1>7. CASE Ask(r) \/ Remediate(r) \/ Execute(r)
  <2>1. PICK d : /\ Takes(r, d) /\ Stays(run[r], d) /\ d.pc \in {"gate", "execute", "inspect"}
                 /\ d.todo \in Seq(Calm) \cup Seq(Quiet)
    BY <1>1, <1>7, AskEffect, RemediateEffect, ExecuteEffect
  <2>2. run[r].pc \notin Late /\ d.pc \notin Early
    BY <1>7, <2>1 DEF Ask, Remediate, Execute, At, Early, Late
  <2>3. Earned(d)
    BY <1>1, <2>1, <2>2, CalmIsQuiet DEF Earned, Stays, Keeps
  <2>4. QED BY <2>1, <2>3
<1>8. CASE Inspect(r)
  <2>1. PICK d : /\ Takes(r, d) /\ Keeps(run[r], d) /\ d.pc = "gate" /\ d.todo \in Seq(Calm)
                 /\ d.installReady = run[r].installReady
    BY <1>1, <1>8, InspectEffect
  <2>2. run[r].pc = "inspect"
    BY <1>8 DEF Inspect, At
  <2>3. Earned(d)
    BY <1>1, <2>1, <2>2, CalmIsQuiet DEF Earned, Keeps, Early, Late
  <2>4. QED BY <2>1, <2>3
<1>9. CASE Gate(r)
  <2>1. PICK d : /\ Takes(r, d) /\ Keeps(run[r], d) /\ d.pc = "finish"
                 /\ d.transport = run[r].transport /\ d.assess = run[r].assess
                 /\ (d.todo \in Seq(Calm) /\ ~d.installReady) \/ Candidate(run[r])
    BY <1>1, <1>9, GateEffect
  <2>2. Earned(d)
    BY <1>1, <2>1, CalmIsQuiet DEF Earned, Keeps, Early, Late, Candidate
  <2>3. QED BY <2>1, <2>2
<1>10. CASE Finish(r)
  <2>1. PICK d : /\ Takes(r, d) /\ Stays(run[r], d) /\ d.pc \in {"iterate", "report"}
                 /\ d.todo \in Seq(Calm) \/ run[r].installReady \/ Candidate(run[r])
    BY <1>1, <1>10, FinishEffect
  <2>2. Earned(d)
    BY <1>1, <2>1, CalmIsQuiet DEF Earned, Stays, Keeps, Early, Late, Candidate
  <2>3. QED BY <2>1, <2>2
<1>11. CASE Iterate(r) \/ Rescan(r)
  <2>1. PICK d : /\ Takes(r, d) /\ Stays(run[r], d) /\ d.pc \in {"rescan", "report"}
                 /\ d.todo \in Seq(Calm) \cup {<<>>}
    BY <1>1, <1>11, IterateEffect, RescanEffect
  <2>2. d.todo \in Seq(Quiet)
    BY <2>1, NoInstall
  <2>3. Earned(d)
    BY <1>1, <2>1, <2>2 DEF Earned, Stays, Keeps, Early, Late, Candidate
  <2>4. QED BY <2>1, <2>3
<1>12. CASE WriteReports(r)
  <2>1. Takes(r, Idle)
    BY <1>12, IdleType DEF Takes, WriteReports
  <2>2. QED BY <2>1, BeginsEarned
<1>13. QED BY <1>2, <1>3, <1>4, <1>5, <1>6, <1>7, <1>8, <1>9, <1>10, <1>11, <1>12 DEF Step

\* Every step keeps the plans deserved.
LEMMA DeservedNext == Types /\ Deserved /\ [Next]_vars => Deserved'
<1> SUFFICES ASSUME Types, Deserved, [Next]_vars PROVE Deserved'
  OBVIOUS
<1>1. TypeOK
  BY DEF Types
<1>2. ASSUME NEW r \in Runners, NEW d, Takes(r, d), Earned(d) PROVE Deserved'
  <2>1. run'[r] = d /\ \A s \in Runners \ {r} : run'[s] = run[s]
    BY <1>1, <1>2, TakesRun
  <2>2. \A s \in Runners : Earned(run'[s])
    BY <1>2, <2>1 DEF Deserved
  <2>3. QED BY <2>2 DEF Deserved, Earned, Candidate
<1>3. CASE UNCHANGED vars \/ Environment
  <2>1. run' = run \/ run' = [r \in Runners |-> Idle]
    BY <1>3 DEF vars, Environment, DeviceChanges, OperatorStages, Crash
  <2>2. \A s \in Runners : Earned(run'[s])
    BY <2>1, BeginsEarned DEF Deserved
  <2>3. QED BY <2>2 DEF Deserved, Earned, Candidate
<1>4. ASSUME NEW r \in Runners, Step(r) PROVE Deserved'
  BY <1>2, <1>4, EarnedStep
<1>5. ASSUME NEW r \in Runners, Call(r) PROVE Deserved'
  <2>1. CASE run' = run
    BY <2>1 DEF Deserved, Earned, Candidate
  <2>2. CASE run' # run
    BY <1>1, <1>2, <1>5, <2>2, CallBegins, BeginsEarned
  <2>3. QED BY <2>1, <2>2
<1>6. QED BY <1>3, <1>4, <1>5 DEF Next

\* The begin of a call does not move the session.
LEMMA CallKeepsState == ASSUME TypeOK, NEW r \in Runners, Call(r) PROVE session'.state = session.state
<1>1. session \in Sessions
  BY DEF TypeOK, Sessions
<1>2. ASSUME NEW lawful \in BOOLEAN, SaveProfile(r, lawful) PROVE session'.state = session.state
  BY <1>1, <1>2 DEF SaveProfile, Sessions
<1>3. CASE SyncEvidence(r)
  BY <1>1, <1>3 DEF SyncEvidence, Sessions
<1>4. ASSUME NEW t \in Events, Attach(r, t) \/ ResumeWaiting(r, t) PROVE session'.state = session.state
  BY <1>4 DEF Attach, ResumeWaiting
<1>5. CASE RunNow(r)
  BY <1>5 DEF RunNow, files
<1>6. QED BY <1>2, <1>3, <1>4, <1>5 DEF Call

\* A step into an install stage is the transition of a call that is entitled to it.
EntersEntitled ==
  session'.state # session.state /\ session'.state \in InstallStages
    => \E r \in Runners : /\ run[r].todo # <<>> /\ Head(run[r].todo) = session'.state
                          /\ Entitled(run[r])

\* Under any overlap of events, cycles, GUI actions and crashes the session enters an
\* install stage only by a call that has itself read an attested form, planned with its
\* sources staged, and knows the device as actionable over a transport that can be
\* managed: no call rides on the grounds of another (orchestrator.py, _run_runtime_cycle).
THEOREM EntitledTheorem == Spec => [][EntersEntitled]_vars
<1>1. Init => Deserved
  BY BeginsEarned DEF Init, Deserved
<1>2. Spec => []Deserved
  BY <1>1, DeservedNext, TypeInvariant, PTL DEF Spec
<1>3. Types /\ Deserved /\ [Next]_vars => [EntersEntitled]_vars
  <2> SUFFICES ASSUME Types, Deserved, Next,
                      session'.state # session.state, session'.state \in InstallStages
               PROVE  \E r \in Runners : /\ run[r].todo # <<>> /\ Head(run[r].todo) = session'.state
                                         /\ Entitled(run[r])
    BY DEF EntersEntitled
  <2>1. TypeOK
    BY DEF Types
  <2>2. ~Environment
    <3>1. session' # session
      OBVIOUS
    <3>2. QED BY <3>1 DEF files, Environment, DeviceChanges, OperatorStages, Crash
  <2>3. PICK r \in Runners : Step(r) \/ Call(r)
    BY <2>2 DEF Next
  <2>4. Move(r)
    BY <2>1, <2>3, CallKeepsState, OnlyMoveOffers
  <2>5. run[r].todo # <<>> /\ Head(run[r].todo) \in SessionStateName
    BY <2>1, <2>4, MoveEffect
  <2>6. session'.state = safe_transition(session.state, Head(run[r].todo))
        /\ session.state \in SessionStateName
    BY <2>1, <2>4 DEF TypeOK, Move
  <2>7. Head(run[r].todo) = session'.state
    BY <2>5, <2>6, SafeTransition
  <2>8. run[r].todo \notin Seq(Quiet)
    BY <2>5, <2>7 DEF Quiet
  <2>9. Earned(run[r])
    BY DEF Deserved
  <2>10. Entitled(run[r])
    BY <2>8, <2>9, EarnedEntitles DEF Earned
  <2>11. QED BY <2>5, <2>7, <2>10
<1>4. QED BY <1>2, <1>3, TypeInvariant, PTL DEF Spec

-----------------------------------------------------------------------------
(* Ends.  What a call has still to do is a number that its own steps make  *)
(* smaller and no step of another thread changes.                          *)

\* The stages of a cycle that may still follow.
Ahead(pc) ==
  CASE pc = "assess" -> 12 [] pc \in {"select", "load"} -> 11 [] pc = "start" -> 10
    [] pc = "classify" -> 9 [] pc \in {"remediate", "ask"} -> 8 [] pc = "execute" -> 7
    [] pc = "inspect" -> 6 [] pc = "gate" -> 5 [] pc = "finish" -> 4 [] pc = "iterate" -> 3
    [] pc = "rescan" -> 2 [] pc = "report" -> 1 [] pc = "idle" -> 0

\* No stage asks for more than five transitions (the gate, with preview and verification).
MaxTodo == 5

Left(c) == (MaxTodo + 1) * Ahead(c.pc) + Len(c.todo)

\* What a device event, the longest of the calls, begins with.
MaxLeft == (MaxTodo + 1) * 12 + 4

\* Every stage but the end has one ahead.
LEMMA AheadType ==
  \A pc \in PCs : Ahead(pc) \in Nat /\ (pc # "idle" => Ahead(pc) >= 1)
<1>1. \A pc \in PCs \ {"idle"} : Ahead(pc) \in 1 .. 12
  BY DEF PCs, Ahead
<1>2. Ahead("idle") = 0
  BY DEF Ahead
<1>3. QED BY <1>1, <1>2

\* What is left is a natural number, and nothing is left of no call.
LEMMA LeftType == /\ \A c \in Calls : Left(c) \in Nat /\ (c.pc # "idle" => Left(c) > 0)
                  /\ Left(Idle) = 0
<1>1. ASSUME NEW c \in Calls PROVE Left(c) \in Nat /\ (c.pc # "idle" => Left(c) > 0)
  <2>1. c.pc \in PCs /\ Len(c.todo) \in Nat
    BY DEF Calls
  <2>2. Ahead(c.pc) \in Nat /\ (c.pc # "idle" => Ahead(c.pc) >= 1)
    BY <2>1, AheadType
  <2>3. QED BY <2>1, <2>2 DEF Left, MaxTodo
<1>2. Left(Idle) = 0
  BY DEF Left, Idle, Ahead, MaxTodo
<1>3. QED BY <1>1, <1>2

\* A call that goes to a later stage has less left, whatever it has to ask for there.
LEMMA LaterStage ==
  ASSUME NEW r \in Runners, NEW pc \in PCs, At(r, pc), NEW next \in PCs, NEW n \in 0 .. MaxTodo,
         run'[r].pc = next, Len(run'[r].todo) = n, Ahead(next) < Ahead(pc)
  PROVE  Left(run'[r]) < Left(run[r])
<1>1. Left(run[r]) = 6 * Ahead(pc)
  <2>1. Len(run[r].todo) = 0 /\ run[r].pc = pc
    BY DEF At
  <2>2. QED BY <2>1, AheadType DEF Left, MaxTodo
<1>2. Left(run'[r]) = 6 * Ahead(next) + n
  BY DEF Left, MaxTodo
<1>3. Ahead(pc) \in Nat /\ Ahead(next) \in Nat /\ n <= 5 /\ n \in Nat
  BY AheadType DEF MaxTodo
<1>4. QED BY <1>1, <1>2, <1>3

\* Each step of a call leaves it less to do.
LEMMA StepShrinks ==
  ASSUME TypeOK, NEW r \in Runners, Step(r)
  PROVE  Left(run'[r]) < Left(run[r])
<1>1. run \in [Runners -> Calls] /\ run[r] \in Calls
  BY DEF TypeOK
<1>2. CASE Move(r)
  <2>1. run'[r].todo = Tail(run[r].todo) /\ run'[r].pc = run[r].pc
    BY <1>1, <1>2 DEF Move, Calls
  <2>2. run[r].todo \in Seq(SessionStateName) /\ run[r].todo # <<>> /\ run[r].pc \in PCs
    BY <1>1, <1>2 DEF Move, Calls
  <2>3. Len(Tail(run[r].todo)) = Len(run[r].todo) - 1 /\ Len(run[r].todo) \in Nat
    BY <2>2
  <2>4. Ahead(run[r].pc) \in Nat
    BY SMTT(30), <2>2, AheadType
  <2>5. QED BY <2>1, <2>3, <2>4 DEF Left, MaxTodo
<1>3. CASE AssessDevice(r)
  <2>1. At(r, "assess") /\ run'[r].pc = "select" /\ Len(run'[r].todo) = 2
    BY SMTT(30), <1>1, <1>3 DEF AssessDevice, Calls
  <2>2. QED BY <2>1, LaterStage DEF PCs, Ahead, MaxTodo
<1>4. CASE SelectPath(r)
  <2>1. At(r, "select") /\ run'[r].pc = "start" /\ Len(run'[r].todo) = 1
    BY SMTT(30), <1>1, <1>4 DEF SelectPath, Calls
  <2>2. QED BY <2>1, LaterStage DEF PCs, Ahead, MaxTodo
<1>5. CASE LoadReports(r)
  <2>1. At(r, "load") /\ run'[r].pc = "start" /\ Len(run'[r].todo) = 0
    BY SMTT(30), <1>1, <1>5 DEF LoadReports, At, Calls
  <2>2. QED BY <2>1, LaterStage DEF PCs, Ahead, MaxTodo
<1>6. CASE StartCycle(r)
  <2>1. At(r, "start")
    BY <1>6 DEF StartCycle
  <2>2. PICK d : Takes(r, d) /\ d.pc = "classify" /\ Len(d.todo) = 2
    BY SMTT(30), <1>6, StartCycleEffect
  <2>3. QED BY <2>1, <2>2, TakesRun, LaterStage DEF PCs, Ahead, MaxTodo
<1>7. CASE ClassifyBlocker(r)
  <2>1. At(r, "classify")
    BY <1>7 DEF ClassifyBlocker
  <2>2. PICK d : Takes(r, d) /\ d.pc \in {"remediate", "ask", "gate"} /\ Len(d.todo) \in {0, 2}
    BY SMTT(30), <1>7, ClassifyBlockerEffect
  <2>3. QED BY <2>1, <2>2, TakesRun, LaterStage DEF PCs, Ahead, MaxTodo
<1>8. CASE Ask(r)
  <2>1. At(r, "ask") /\ run'[r].pc = "gate" /\ Len(run'[r].todo) \in {0, 1}
    BY SMTT(30), <1>1, <1>8 DEF Ask, At, Calls
  <2>2. QED BY <2>1, LaterStage DEF PCs, Ahead, MaxTodo
<1>9. CASE Remediate(r)
  <2>1. At(r, "remediate") /\ run'[r].pc = "execute" /\ Len(run'[r].todo) = 3
    BY SMTT(30), <1>1, <1>9 DEF Remediate, Calls
  <2>2. QED BY <2>1, LaterStage DEF PCs, Ahead, MaxTodo
<1>10. CASE Execute(r)
  <2>1. At(r, "execute")
    BY <1>10 DEF Execute
  <2>2. PICK d : Takes(r, d) /\ d.pc = "inspect" /\ Len(d.todo) = 1
    BY SMTT(30), <1>10, ExecuteEffect
  <2>3. QED BY <2>1, <2>2, TakesRun, LaterStage DEF PCs, Ahead, MaxTodo
<1>11. CASE Inspect(r)
  <2>1. At(r, "inspect") /\ run'[r].pc = "gate" /\ Len(run'[r].todo) \in {0, 1}
    BY <1>1, <1>11 DEF Inspect, Calls
  <2>2. QED BY <2>1, LaterStage DEF PCs, Ahead, MaxTodo
<1>12. CASE Gate(r)
  <2>1. At(r, "gate")
    BY <1>12 DEF Gate
  <2>2. PICK preview \in BOOLEAN, verify \in BOOLEAN :
          /\ run'[r].pc = "finish"
          /\ run'[r].todo = <<"BACKUP_READY">> \o (IF preview THEN PreviewStages ELSE <<>>)
                                               \o (IF verify THEN VerifyStages ELSE <<>>)
    BY <1>1, <1>12 DEF Gate, Calls
  <2>3. PICK n \in {1, 3, 5} : Len(run'[r].todo) = n
    BY <2>2 DEF PreviewStages, VerifyStages
  <2>4. run'[r].pc = "finish"
    BY <2>2
  <2>5. n \in 0 .. MaxTodo
    BY DEF MaxTodo
  <2>6. "gate" \in PCs /\ "finish" \in PCs /\ Ahead("finish") < Ahead("gate")
    BY DEF PCs, Ahead
  <2>7. QED BY <2>1, <2>3, <2>4, <2>5, <2>6, LaterStage
<1>13. CASE Finish(r)
  <2>1. At(r, "finish") /\ run'[r].pc \in {"iterate", "report"} /\ Len(run'[r].todo) \in {0, 1}
    BY SMTT(30), <1>1, <1>13 DEF Finish, Calls
  <2>2. QED BY <2>1, LaterStage DEF PCs, Ahead, MaxTodo
<1>14. CASE Iterate(r)
  <2>1. At(r, "iterate") /\ run'[r].pc \in {"rescan", "report"} /\ Len(run'[r].todo) \in {0, 1}
    BY SMTT(30), <1>1, <1>14 DEF Iterate, Calls
  <2>2. QED BY <2>1, LaterStage DEF PCs, Ahead, MaxTodo
<1>15. CASE Rescan(r)
  <2>1. At(r, "rescan") /\ run'[r].pc = "report" /\ Len(run'[r].todo) = 0
    BY SMTT(30), <1>1, <1>15 DEF Rescan, At, Calls
  <2>2. QED BY <2>1, LaterStage DEF PCs, Ahead, MaxTodo
<1>16. CASE WriteReports(r)
  <2>1. At(r, "report") /\ run'[r].pc = "idle" /\ Len(run'[r].todo) = 0
    BY <1>1, <1>16 DEF WriteReports, Idle
  <2>2. QED BY <2>1, LaterStage DEF PCs, Ahead, MaxTodo
<1>17. QED BY <1>2, <1>3, <1>4, <1>5, <1>6, <1>7, <1>8, <1>9, <1>10, <1>11, <1>12, <1>13,
     <1>14, <1>15, <1>16 DEF Step

\* A call in flight changes only by getting shorter: by its own step, or by the crash that
\* ends it.
Shrinks(r) ==
  /\ Step(r) => Left(run'[r]) < Left(run[r])
  /\ run[r].pc # "idle" /\ run'[r] # run[r] => Left(run'[r]) < Left(run[r])

Short == \A r \in Runners : Left(run[r]) <= MaxLeft

\* A call begins with no more to do than an event's, on a thread that had no call, and
\* leaves the other threads alone.
LEMMA CallIsShort ==
  ASSUME TypeOK, NEW r \in Runners, Call(r)
  PROVE  /\ run[r].pc = "idle" /\ (run' = run \/ Left(run'[r]) <= MaxLeft)
         /\ \A s \in Runners \ {r} : run'[s] = run[s]
<1>1. run \in [Runners -> Calls]
  BY DEF TypeOK
<1>2. ASSUME NEW t \in Events, Attach(r, t)
      PROVE  /\ run[r].pc = "idle" /\ Left(run'[r]) <= MaxLeft
             /\ \A s \in Runners \ {r} : run'[s] = run[s]
  <2>1. run'[r].pc = "assess" /\ Len(run'[r].todo) = 4
    BY <1>1, <1>2 DEF Attach, Idle
  <2>2. QED BY <1>1, <1>2, <2>1 DEF Attach, Free, At, Left, MaxLeft, MaxTodo, Ahead
<1>3. ASSUME NEW d, d.pc = "load", NEW n \in {0, 1}, Len(d.todo) = n, run' = [run EXCEPT ![r] = d]
      PROVE  /\ Left(run'[r]) <= MaxLeft
             /\ \A s \in Runners \ {r} : run'[s] = run[s]
  <2>1. run'[r] = d
    BY <1>1, <1>3
  <2>2. Ahead("load") = 11
    BY DEF Ahead
  <2>3. Left(d) = 66 + n /\ MaxLeft = 76
    BY <1>3, <2>2 DEF Left, MaxLeft, MaxTodo
  <2>4. Left(d) <= MaxLeft
    BY <1>3, <2>3
  <2>5. QED BY <1>1, <1>3, <2>1, <2>4
<1>4. ASSUME NEW t \in Events, ResumeWaiting(r, t)
      PROVE  /\ run[r].pc = "idle" /\ Left(run'[r]) <= MaxLeft
             /\ \A s \in Runners \ {r} : run'[s] = run[s]
  <2> DEFINE d == [Idle EXCEPT !.pc = "load", !.todo = <<"BLOCKER_CLASSIFY">>]
  <2>1. d.pc = "load" /\ Len(d.todo) = 1
    BY DEF Idle
  <2>2. run' = [run EXCEPT ![r] = d] /\ run[r].pc = "idle"
    BY <1>4 DEF ResumeWaiting, Free, At
  <2>3. QED BY <1>3, <2>1, <2>2
<1>5. ASSUME NEW light \in BOOLEAN, run' = [run EXCEPT ![r] = [Idle EXCEPT !.pc = "load", !.light = light]]
      PROVE  /\ Left(run'[r]) <= MaxLeft
             /\ \A s \in Runners \ {r} : run'[s] = run[s]
  <2> DEFINE d == [Idle EXCEPT !.pc = "load", !.light = light]
  <2>1. d.pc = "load" /\ Len(d.todo) = 0
    BY DEF Idle
  <2>2. QED BY <1>3, <1>5, <2>1
<1>6. CASE RunNow(r)
  <2> DEFINE d == [Idle EXCEPT !.pc = "load"]
  <2>1. d.pc = "load" /\ Len(d.todo) = 0
    BY DEF Idle
  <2>2. run' = [run EXCEPT ![r] = d] /\ run[r].pc = "idle"
    BY <1>6 DEF RunNow, Free, At
  <2>3. QED BY <1>3, <2>1, <2>2
<1>7. ASSUME NEW lawful \in BOOLEAN, SaveProfile(r, lawful)
      PROVE  /\ run[r].pc = "idle" /\ Left(run'[r]) <= MaxLeft
             /\ \A s \in Runners \ {r} : run'[s] = run[s]
  BY <1>5, <1>7 DEF SaveProfile, Free, At
<1>8. CASE SyncEvidence(r)
  <2>1. run[r].pc = "idle"
    BY <1>8 DEF SyncEvidence, Free, At
  <2>2. run' = run \/ run' = [run EXCEPT ![r] = [Idle EXCEPT !.pc = "load", !.light = TRUE]]
    BY <1>8, Zenon DEF SyncEvidence
  <2>3. QED BY <1>5, <2>1, <2>2
<1>9. QED BY <1>2, <1>4, <1>6, <1>7, <1>8 DEF Call

\* A step of one call leaves the locals of the others alone.
LEMMA StepIsOwn ==
  ASSUME Types, NEW r \in Runners, Step(r)
  PROVE  \A s \in Runners \ {r} : run'[s] = run[s]
<1>1. run \in [Runners -> Calls]
  BY DEF Types, TypeOK
<1>2. TypeOK
  BY DEF Types
<1>3. CASE AssessDevice(r)
  <2>1. run[r].event \in Transports
    BY <1>3 DEF Types, Attached, AssessDevice, At
  <2>2. QED BY <1>2, <1>3, <2>1, AssessDeviceEffect, TakesRun
<1>4. CASE Move(r) \/ SelectPath(r) \/ LoadReports(r) \/ StartCycle(r)
  BY <1>2, <1>4, MoveEffect, SelectPathEffect, LoadReportsEffect, StartCycleEffect, TakesRun
<1>5. CASE ClassifyBlocker(r) \/ Ask(r) \/ Remediate(r) \/ Execute(r) \/ Inspect(r)
  BY <1>2, <1>5, ClassifyBlockerEffect, AskEffect, RemediateEffect, ExecuteEffect, InspectEffect,
     TakesRun
<1>6. CASE Gate(r) \/ Finish(r) \/ Iterate(r) \/ Rescan(r)
  BY <1>2, <1>6, GateEffect, FinishEffect, IterateEffect, RescanEffect, TakesRun
<1>7. CASE WriteReports(r)
  BY <1>1, <1>7 DEF WriteReports
<1>8. QED BY <1>3, <1>4, <1>5, <1>6, <1>7 DEF Step

\* Whatever the other threads, the device and the operator do, each step of a call leaves
\* it less to do, nothing but its own steps and a crash changes its locals, and there are
\* at most MaxLeft of them: no call of the orchestrator goes round in circles or is sent
\* back by a transition that was refused.
THEOREM ShrinksTheorem == Spec => [](Short) /\ [][\A r \in Runners : Shrinks(r)]_vars
<1>1. Types /\ Passive /\ [Next]_vars => [\A r \in Runners : Shrinks(r)]_vars
  <2> SUFFICES ASSUME Types, Passive, Next, NEW r \in Runners PROVE Shrinks(r)
    BY DEF vars
  <2>1. TypeOK /\ run[r] \in Calls
    BY DEF Types, TypeOK
  <2>2. Step(r) => Left(run'[r]) < Left(run[r])
    BY <2>1, StepShrinks
  <2>3. ASSUME run[r].pc # "idle", run'[r] # run[r] PROVE Left(run'[r]) < Left(run[r])
    <3>1. CASE Environment
      <4>1. run' = run \/ run' = [q \in Runners |-> Idle]
        BY <3>1 DEF Environment, DeviceChanges, OperatorStages, Crash
      <4>2. run'[r] = Idle
        BY <2>3, <4>1
      <4>3. QED BY <2>1, <2>3, <4>2, LeftType
    <3>2. ASSUME NEW q \in Runners, Step(q) PROVE q = r
      BY <2>3, <3>2, StepIsOwn
    <3>3. ASSUME NEW q \in Runners, Call(q) PROVE FALSE
      BY <2>1, <2>3, <3>3, CallIsShort
    <3>4. QED BY <2>2, <3>1, <3>2, <3>3 DEF Next
  <2>4. QED BY <2>2, <2>3 DEF Shrinks
<1>2. Init => Short
  BY LeftType DEF Init, Short, MaxLeft, MaxTodo
<1>3. Types /\ Short /\ [Next]_vars => Short'
  <2> SUFFICES ASSUME Types, Short, [Next]_vars, NEW r \in Runners PROVE Left(run'[r]) <= MaxLeft
    BY DEF Short
  <2>1. TypeOK /\ Types' /\ run[r] \in Calls /\ run'[r] \in Calls
    BY TypeNext DEF Types, TypeOK
  <2>2. Left(run[r]) \in Nat /\ Left(run'[r]) \in Nat /\ Left(run[r]) <= MaxLeft /\ MaxLeft \in Nat
    BY <2>1, LeftType DEF Short, MaxLeft, MaxTodo
  <2>3. CASE UNCHANGED vars \/ Environment
    <3>1. run' = run \/ run' = [q \in Runners |-> Idle]
      BY <2>3 DEF vars, Environment, DeviceChanges, OperatorStages, Crash
    <3>2. QED BY <2>2, <3>1, LeftType
  <2>4. ASSUME NEW q \in Runners, Step(q) PROVE Left(run'[r]) <= MaxLeft
    <3>1. CASE q = r
      BY <2>1, <2>2, <2>4, <3>1, StepShrinks
    <3>2. CASE q # r
      BY <2>2, <2>4, <3>2, StepIsOwn
    <3>3. QED BY <3>1, <3>2
  <2>5. ASSUME NEW q \in Runners, Call(q) PROVE Left(run'[r]) <= MaxLeft
    BY <2>1, <2>2, <2>5, CallIsShort
  <2>6. QED BY <2>3, <2>4, <2>5 DEF Next
<1>4. QED BY <1>1, <1>2, <1>3, TypeInvariant, PassiveInvariant, PTL DEF Spec

=============================================================================
