------------------------------ MODULE Sessiond ------------------------------
(***************************************************************************)
(* The appliance's session broker (appliance/native/sessiond.c) with the   *)
(* two scripts it runs, forge-session.sh and forge-recover.sh, and the     *)
(* packet-filter guard they share.  Broker, session, recovery and the two  *)
(* helpers of a session (panel and service) are processes of their own:    *)
(* the broker may die under its child, be restarted by init while an       *)
(* orphaned session still cleans up, and find on disk only its journal and *)
(* the lock directory.                                                     *)
(*                                                                         *)
(* A session is started in appliance mode only, so Android's services keep *)
(* running and the state of the device is the guard, the mixer and the     *)
(* helpers.  What may go wrong is listed in Faults.                        *)
(***************************************************************************)
EXTENDS Naturals

CONSTANTS Sessions,   \* pids of session scripts
          Recoveries, \* pids of recovery scripts
          None,       \* no pid
          Faults,     \* what may go wrong in this instance
          MaxFaults   \* bound on how often it does

FaultKinds == {"io",    \* a state write, fork or record of a script fails
               "crash", \* the broker is killed or terminated, the device reboots
               "env",   \* network, launcher or socket are not as recovery wants them
               "rule",  \* the deletion of the guard's rule fails
               "late"}  \* a recovery exceeds its time limit (a session always may)

ASSUME PidsAssumption   == Sessions \cap Recoveries = {} /\ None \notin Sessions \cup Recoveries
ASSUME FaultsAssumption == Faults \subseteq FaultKinds /\ MaxFaults \in Nat

VARIABLES broker,  \* memory of sessiond: state, child, stopping, and whether it runs
          journal, \* .sessiond-state
          lock,    \* .forge-session.lock and the records in it
          sess,    \* the session scripts and their helpers
          rec,     \* the recovery scripts
          guard,   \* sessions whose chain is still jumped to from OUTPUT
          loud,    \* the mixer is configured for Forge
          faults   \* how many faults have happened

device == <<guard, loud>>
vars   == <<broker, journal, lock, sess, rec, device, faults>>

-----------------------------------------------------------------------------
(* State.                                                                  *)

States  == {"IDLE", "STARTING", "RUNNING", "STOPPING", "RECOVERING", "FAILED"}
Helpers == {"service", "panel"}
Records == Helpers \cup {"session"}

\* Before its trap is set a signal kills the script; in its EXIT trap a second
\* signal may end it early.
Untrapped  == {"checks", "locked", "pidded", "recorded"}
Running    == {"trapped", "guarded", "audible", "serving", "served",
               "paneling", "panelled", "waiting"}
Cleaning   == {"cleanup", "unguard", "quieten", "unlock"}
SessionPcs == {"exec", "exited"} \cup Untrapped \cup Running \cup Cleaning

Teardown    == {"unguard", "quieten", "services", "inspect", "unlock"}
Ending      == [session |-> "end_session", panel |-> "end_panel", service |-> "end_service"]
RecoveryPcs == {"exec", "read", "check", "launcher", "exited"} \cup Teardown
                 \cup {Ending[k] : k \in Records}

NoLock       == [dir |-> FALSE, pid |-> None, recs |-> {}, ready |-> FALSE]
NoSession    == [pc |-> "exited", term |-> FALSE, audio |-> FALSE, service |-> "none", panel |-> "none"]
NoRecovery   == [pc |-> "exited", pid |-> None, sent |-> FALSE, failed |-> TRUE]

TypeOK ==
  /\ broker \in [up: BOOLEAN, state: States, stopping: BOOLEAN,
                 child: Sessions \cup Recoveries \cup {None}]
  /\ journal \in States
  /\ lock \in [dir: BOOLEAN, pid: Sessions \cup {None}, recs: SUBSET Records,
               ready: BOOLEAN]
  /\ sess \in [Sessions -> [pc: SessionPcs, term: BOOLEAN, audio: BOOLEAN,
                            service: {"none", "up", "doomed"}, panel: {"none", "up", "doomed"}]]
  /\ rec \in [Recoveries -> [pc: RecoveryPcs, pid: Sessions \cup {None},
                             sent: BOOLEAN, failed: BOOLEAN]]
  /\ guard \subseteq Sessions
  /\ loud \in BOOLEAN
  /\ faults \in 0..MaxFaults

Init ==
  /\ broker  = [up |-> FALSE, state |-> "IDLE", stopping |-> FALSE, child |-> None]
  /\ journal = "IDLE"
  /\ lock    = NoLock
  /\ sess    = [s \in Sessions |-> NoSession]
  /\ rec     = [r \in Recoveries |-> NoRecovery]
  /\ guard   = {}
  /\ loud    = FALSE
  /\ faults  = 0

Fault(kind) == kind \in Faults /\ faults < MaxFaults /\ faults' = faults + 1
Fine        == UNCHANGED faults

-----------------------------------------------------------------------------
(* Processes and signals.                                                  *)

HelpersOf(s)   == {k \in Helpers : sess[s][k] # "none"}
HelperRunning  == \E s \in Sessions : HelpersOf(s) # {}   \* pidof forge-panel forge-namespace-run
Doom(state)    == IF state = "up" THEN "doomed" ELSE state

\* A pid is free when its process is gone and nothing on the device bears it.
FreeSessions   == {s \in Sessions : /\ sess[s].pc = "exited" /\ HelpersOf(s) = {}
                                    /\ s \notin guard /\ lock.pid # s /\ broker.child # s
                                    /\ \A r \in Recoveries : rec[r].pid # s}
FreeRecoveries == {r \in Recoveries : rec[r].pc = "exited" /\ broker.child # r}

\* A helper whose parent dies gets SIGTERM (PR_SET_PDEATHSIG).
DeadSession(x) == [x EXCEPT !.pc = "exited", !.term = FALSE, !.audio = FALSE, !.service = Doom(@), !.panel = Doom(@)]
\* All locals of a script go with it; only its exit code remains.
DeadRecovery(x) == NoRecovery

\* What SIGTERM may make of a session script and of a recovery script.  Until
\* it calls exec the child still has the broker's handler, which drops it.
TermSession(x) ==
  CASE x.pc = "exited"    -> {x}
    [] x.pc = "exec"      -> {x}
    [] x.pc \in Untrapped -> {DeadSession(x)}
    [] x.pc \in Running   -> {[x EXCEPT !.term = TRUE]}
    [] x.pc \in Cleaning  -> {x, DeadSession(x)}
TermRecovery(x) ==
  CASE x.pc = "exited" -> {x}
    [] x.pc = "exec"   -> {x}
    [] OTHER           -> {DeadRecovery(x)}

\* The broker's child is terminated, or killed.
TermChild ==
  \/ /\ broker.child \in Sessions
     /\ \E x \in TermSession(sess[broker.child]) : sess' = [sess EXCEPT ![broker.child] = x]
     /\ UNCHANGED rec
  \/ /\ broker.child \in Recoveries
     /\ \E x \in TermRecovery(rec[broker.child]) : rec' = [rec EXCEPT ![broker.child] = x]
     /\ UNCHANGED sess
  \/ broker.child = None /\ UNCHANGED <<sess, rec>>
KillChild ==
  \/ /\ broker.child \in Sessions
     /\ sess' = [sess EXCEPT ![broker.child] = DeadSession(@)]
     /\ UNCHANGED rec
  \/ /\ broker.child \in Recoveries
     /\ rec' = [rec EXCEPT ![broker.child] = IF @.pc = "exited" THEN @ ELSE DeadRecovery(@)]
     /\ UNCHANGED sess

-----------------------------------------------------------------------------
(* The broker.                                                             *)

\* save_state: a write that fails leaves the journal and makes the state FAILED.
save_state(next, b) ==
  \/ broker' = [b EXCEPT !.state = next] /\ journal' = next /\ Fine
  \/ broker' = [b EXCEPT !.state = "FAILED"] /\ UNCHANGED journal /\ Fault("io")

\* launch, and the save_state("FAILED") its callers make when it fails.  The
\* state is on disk before the child may pass its gate.
LaunchFails(name, b) ==
  /\ Fault("io")
  /\ broker' = [b EXCEPT !.state = "FAILED", !.child = None]
  /\ journal' \in {journal, name, "FAILED"}
  /\ UNCHANGED <<sess, rec>>
LaunchSession(b) ==
  \/ /\ Fine
     /\ \E s \in FreeSessions :
          /\ broker' = [b EXCEPT !.state = "STARTING", !.child = s]
          /\ sess' = [sess EXCEPT ![s] = [NoSession EXCEPT !.pc = "exec"]]
     /\ journal' = "STARTING"
     /\ UNCHANGED rec
  \/ LaunchFails("STARTING", b)
LaunchRecovery(b) ==
  \/ /\ Fine
     /\ \E r \in FreeRecoveries :
          /\ broker' = [b EXCEPT !.state = "RECOVERING", !.child = r]
          /\ rec' = [rec EXCEPT ![r] = [NoRecovery EXCEPT !.pc = "exec", !.failed = FALSE]]
     /\ journal' = "RECOVERING"
     /\ UNCHANGED sess
  \/ LaunchFails("RECOVERING", b)

\* main up to its loop.
Boot ==
  /\ ~broker.up
  /\ LET b == [up |-> TRUE, state |-> "IDLE", stopping |-> FALSE, child |-> None]
     IN  \/ /\ lock.dir \/ journal # "IDLE"
            /\ LaunchRecovery(b)
         \/ /\ ~lock.dir /\ journal = "IDLE"
            /\ broker' = b
            /\ UNCHANGED <<journal, sess, rec, faults>>
  /\ UNCHANGED <<lock, device>>

Serving == broker.up /\ ~broker.stopping

RequestStart ==
  /\ Serving
  /\ broker.state = "IDLE" /\ broker.child = None
  /\ LaunchSession(broker)
  /\ UNCHANGED <<lock, device>>

\* Mutant of RequestStop: without a child STOP only replies.
RequestStop_OnlyReplies ==
  /\ Serving
  /\ \/ /\ broker.child \in Sessions /\ broker.state # "STOPPING"
        /\ save_state("STOPPING", broker)
        /\ IF broker'.state = "STOPPING" THEN TermChild ELSE UNCHANGED <<sess, rec>>
     \/ /\ broker.child = None /\ broker.state # "IDLE"
        /\ UNCHANGED <<broker, journal, sess, rec, faults>>
  /\ UNCHANGED <<lock, device>>

RequestStop ==
  /\ Serving
  /\ \/ /\ broker.child \in Sessions /\ broker.state # "STOPPING"
        /\ save_state("STOPPING", broker)
        /\ IF broker'.state = "STOPPING" THEN TermChild ELSE UNCHANGED <<sess, rec>>
     \/ /\ broker.child = None /\ broker.state # "IDLE"
        /\ LaunchRecovery(broker)
  /\ UNCHANGED <<lock, device>>

\* Mutant of SeeReady: the state is named after the file.
SeeReady_NamesFile ==
  /\ Serving
  /\ broker.child \in Sessions /\ broker.state = "STARTING"
  /\ lock.ready
  /\ save_state("READY", broker)
  /\ UNCHANGED <<lock, sess, rec, device>>

SeeReady ==
  /\ Serving
  /\ broker.child \in Sessions /\ broker.state = "STARTING"
  /\ lock.ready
  /\ save_state("RUNNING", broker)
  /\ UNCHANGED <<lock, sess, rec, device>>

\* Mutant of Reap: a session that has ended is trusted to have cleaned up.
Reap_TrustsSession ==
  /\ broker.up
  /\ LET b == [broker EXCEPT !.child = None]
     IN  \/ /\ broker.child \in Recoveries /\ rec[broker.child].pc = "exited"
            /\ save_state(IF rec[broker.child].failed THEN "FAILED" ELSE "IDLE", b)
            /\ UNCHANGED <<sess, rec>>
         \/ /\ broker.child \in Sessions /\ sess[broker.child].pc = "exited"
            /\ save_state("IDLE", b)
            /\ UNCHANGED <<sess, rec>>
  /\ UNCHANGED <<lock, device>>

\* reap: the end of a recovery decides the state, that of a session starts one.
Reap ==
  /\ broker.up
  /\ LET b == [broker EXCEPT !.child = None]
     IN  \/ /\ broker.child \in Recoveries /\ rec[broker.child].pc = "exited"
            /\ save_state(IF rec[broker.child].failed THEN "FAILED" ELSE "IDLE", b)
            /\ UNCHANGED <<sess, rec>>
         \/ /\ broker.child \in Sessions /\ sess[broker.child].pc = "exited"
            /\ LaunchRecovery(b)
  /\ UNCHANGED <<lock, device>>

\* Mutant of Limited: no limit once the operator has asked to stop.
Limited_NotStopping == broker.child \in Recoveries \/ broker.state = "STARTING"
Limited == broker.child \in Recoveries \/ broker.state \in {"STARTING", "STOPPING"}

Timeout ==
  /\ Serving /\ broker.child # None /\ Limited
  /\ broker.child \in Recoveries => "late" \in Faults
  /\ KillChild
  /\ UNCHANGED <<broker, journal, lock, device, faults>>

\* SIGTERM to the broker: it terminates its child and reaps for a while.
Terminate ==
  /\ Serving /\ Fault("crash")
  /\ broker' = [broker EXCEPT !.stopping = TRUE]
  /\ TermChild
  /\ UNCHANGED <<journal, lock, device>>

\* The broker dies: its child gets SIGTERM (PR_SET_PDEATHSIG), or init kills the
\* service's group.  A child that has not called exec drops the first; it is
\* taken to be gone by the time init starts the broker again, seconds later.
Orphan ==
  IF broker.child \in Sessions THEN (sess[broker.child].pc # "exec" /\ TermChild) \/ KillChild
  ELSE IF broker.child \in Recoveries THEN KillChild ELSE UNCHANGED <<sess, rec>>

Down == broker' = [up |-> FALSE, state |-> "IDLE", stopping |-> FALSE, child |-> None]

ShutDown ==
  /\ broker.up /\ broker.stopping   \* no child is left, or 180 seconds are over
  /\ Down /\ Orphan
  /\ UNCHANGED <<journal, lock, device, faults>>

Crash ==
  /\ broker.up /\ Fault("crash")
  /\ Down /\ Orphan
  /\ UNCHANGED <<journal, lock, device>>

\* Only the files survive.
Reboot ==
  /\ Fault("crash")
  /\ Down
  /\ sess' = [s \in Sessions |-> NoSession]
  /\ rec' = [r \in Recoveries |-> NoRecovery]
  /\ guard' = {} /\ loud' = FALSE
  /\ UNCHANGED <<journal, lock>>

-----------------------------------------------------------------------------
(* forge-session.sh                                                        *)

Others == <<broker, journal, rec>>

\* The script goes on to the next command unless a signal is pending.
At(s, pc)   == sess[s].pc = pc /\ ~sess[s].term
Goto(s, pc) == sess' = [sess EXCEPT ![s].pc = pc]
Die(s)      == sess' = [sess EXCEPT ![s] = DeadSession(@)]

Exec(s) ==
  /\ At(s, "exec") /\ Goto(s, "checks")
  /\ UNCHANGED <<Others, lock, device, faults>>

\* Prerequisites, then mkdir of the lock: exit 75 or 77 without a trace.
TakeLock(s) ==
  /\ At(s, "checks")
  /\ \/ ~HelperRunning /\ ~lock.dir /\ lock' = [NoLock EXCEPT !.dir = TRUE] /\ Goto(s, "locked")
     \/ Die(s) /\ UNCHANGED lock
  /\ UNCHANGED <<Others, device, faults>>

\* A command that writes into the lock directory.
Write(s, from, to, next) ==
  /\ At(s, from) /\ lock.dir
  /\ lock' = next /\ Goto(s, to)
  /\ UNCHANGED <<Others, device, faults>>

WritePid(s)      == Write(s, "locked", "pidded", [lock EXCEPT !.pid = s])
WriteStart(s)    == Write(s, "pidded", "recorded", [lock EXCEPT !.recs = @ \cup {"session"}])
RecordService(s) == Write(s, "serving", "served", [lock EXCEPT !.recs = @ \cup {"service"}])
RecordPanel(s)   == Write(s, "paneling", "panelled", [lock EXCEPT !.recs = @ \cup {"panel"}])
WriteReady(s)    == Write(s, "panelled", "waiting", [lock EXCEPT !.ready = TRUE])

\* set -e before the trap is set: the lock stays.
FailsEarly(s) ==
  /\ sess[s].pc \in {"locked", "pidded"}
  /\ Die(s)
  /\ IF lock.dir THEN Fault("io") ELSE Fine
  /\ UNCHANGED <<Others, lock, device>>

SetTrap(s) ==
  /\ At(s, "recorded") /\ Goto(s, "trapped")
  /\ UNCHANGED <<Others, lock, device, faults>>

\* forge_cdp_start.  A failure undoes itself, but the undoing may fail too.
forge_cdp_start(s) ==
  /\ At(s, "trapped")
  /\ \/ guard' = guard \cup {s} /\ Goto(s, "guarded") /\ Fine
     \/ guard' = guard \cup {s} /\ Goto(s, "quieten") /\ Fault("rule")
  /\ UNCHANGED <<Others, lock, loud>>

\* display.mode, then the mixer.
ConfigureAudio(s) ==
  /\ At(s, "guarded")
  /\ sess' = [sess EXCEPT ![s].pc = "audible", ![s].audio = TRUE]
  /\ loud' = TRUE
  /\ UNCHANGED <<Others, lock, guard, faults>>

Spawn(s, helper, from, to) ==
  /\ At(s, from)
  /\ sess' = [sess EXCEPT ![s].pc = to, ![s][helper] = "up"]
  /\ UNCHANGED <<Others, lock, device, faults>>
SpawnService(s) == Spawn(s, "service", "audible", "serving")
SpawnPanel(s)   == Spawn(s, "panel", "served", "paneling")

\* The EXIT trap: after a signal, a failed command, or the end of a helper.
\* Helpers are told to end and waited for.
EnterCleanup(s) ==
  /\ sess[s].pc \in Running
  /\ sess[s].pc = "waiting" => sess[s].term \/ HelpersOf(s) # Helpers
  /\ sess' = [sess EXCEPT ![s].pc = "cleanup", ![s].term = FALSE,
                          ![s].service = Doom(@), ![s].panel = Doom(@)]
  /\ UNCHANGED <<Others, lock, device, faults>>

AwaitHelpers(s) ==
  /\ At(s, "cleanup") /\ HelpersOf(s) = {}
  /\ Goto(s, "unguard")
  /\ UNCHANGED <<Others, lock, device, faults>>

\* forge_cdp_stop for the chain of session p; its errors are ignored.
forge_cdp_stop(p) ==
  \/ guard' = guard \ {p} /\ Fine
  \/ p \in guard /\ UNCHANGED guard /\ Fault("rule")

Unguard(s) ==
  /\ At(s, "unguard") /\ Goto(s, "quieten")
  /\ forge_cdp_stop(s)
  /\ UNCHANGED <<Others, lock, loud>>

\* Only a session that has configured the mixer resets it.
Quieten(s) ==
  /\ At(s, "quieten") /\ Goto(s, "unlock")
  /\ loud' = (loud /\ ~sess[s].audio)
  /\ UNCHANGED <<Others, lock, guard, faults>>

RemoveLock(s) ==
  /\ At(s, "unlock") /\ Die(s)
  /\ lock' = NoLock
  /\ UNCHANGED <<Others, device, faults>>

\* A doomed helper ends; one that is up may.
HelperEnds(s, helper) ==
  /\ sess[s][helper] # "none"
  /\ sess' = [sess EXCEPT ![s][helper] = "none"]
  /\ UNCHANGED <<Others, lock, device, faults>>

SessionStep(s) ==
  \/ Exec(s) \/ TakeLock(s) \/ WritePid(s) \/ WriteStart(s) \/ SetTrap(s) \/ FailsEarly(s)
  \/ forge_cdp_start(s) \/ ConfigureAudio(s)
  \/ SpawnService(s) \/ RecordService(s) \/ SpawnPanel(s) \/ RecordPanel(s) \/ WriteReady(s)
  \/ EnterCleanup(s) \/ AwaitHelpers(s) \/ Unguard(s) \/ Quieten(s) \/ RemoveLock(s)

-----------------------------------------------------------------------------
(* forge-recover.sh                                                        *)

RecAt(r, pc)   == rec[r].pc = pc
RecGoto(r, pc) == rec' = [rec EXCEPT ![r].pc = pc]
RecFails(r)    == rec' = [rec EXCEPT ![r] = DeadRecovery(@)]

RecExec(r) ==
  /\ RecAt(r, "exec") /\ RecGoto(r, "read")
  /\ UNCHANGED <<broker, journal, lock, sess, device, faults>>

ReadLock(r) ==
  /\ RecAt(r, "read")
  /\ rec' = [rec EXCEPT ![r].pc = "end_session", ![r].pid = lock.pid]
  /\ UNCHANGED <<broker, journal, lock, sess, device, faults>>

\* A record names a live process (pid and start time agree).
record_alive(k) ==
  /\ k \in lock.recs /\ lock.pid # None
  /\ IF k = "session" THEN sess[lock.pid].pc # "exited" ELSE sess[lock.pid][k] # "none"

\* Mutant of terminate_record: no SIGKILL after the five seconds.
terminate_record_Asks(r, k, next) ==
  /\ RecAt(r, Ending[k])
  /\ \/ /\ ~record_alive(k) \/ rec[r].sent
        /\ rec' = [rec EXCEPT ![r].pc = next, ![r].sent = FALSE]
        /\ UNCHANGED sess
     \/ /\ record_alive(k) /\ ~rec[r].sent
        /\ rec' = [rec EXCEPT ![r].sent = TRUE]
        /\ \E x \in IF k = "session" THEN TermSession(sess[lock.pid])
                    ELSE {[sess[lock.pid] EXCEPT ![k] = Doom(@)]} :
             sess' = [sess EXCEPT ![lock.pid] = x]
  /\ UNCHANGED <<broker, journal, lock, device, faults>>
\* SIGTERM; SIGKILL if the process is still there five seconds later.
terminate_record(r, k, next) ==
  /\ RecAt(r, Ending[k])
  /\ \/ /\ ~record_alive(k)
        /\ rec' = [rec EXCEPT ![r].pc = next, ![r].sent = FALSE]
        /\ UNCHANGED sess
     \/ /\ record_alive(k) /\ ~rec[r].sent
        /\ rec' = [rec EXCEPT ![r].sent = TRUE]
        /\ \E x \in IF k = "session" THEN TermSession(sess[lock.pid])
                    ELSE {[sess[lock.pid] EXCEPT ![k] = Doom(@)]} :
             sess' = [sess EXCEPT ![lock.pid] = x]
     \/ /\ record_alive(k) /\ rec[r].sent
        /\ rec' = [rec EXCEPT ![r].pc = next, ![r].sent = FALSE]
        /\ sess' = [sess EXCEPT ![lock.pid] = IF k = "session" THEN DeadSession(@)
                                             ELSE [@ EXCEPT ![k] = "none"]]
  /\ UNCHANGED <<broker, journal, lock, device, faults>>
EndSession(r) == terminate_record(r, "session", Ending["panel"])
EndPanel(r)   == terminate_record(r, "panel", Ending["service"])
EndService(r) == terminate_record(r, "service", "check")

\* Exit 70 while a Forge process is alive; then the music socket is removed.
CheckProcesses(r) ==
  /\ RecAt(r, "check")
  /\ \/ HelperRunning /\ RecFails(r) /\ Fine
     \/ ~HelperRunning /\ RecGoto(r, "unguard") /\ Fine
     \/ ~HelperRunning /\ rec' = [rec EXCEPT ![r].pc = "unguard", ![r].failed = TRUE] /\ Fault("env")
  /\ UNCHANGED <<broker, journal, lock, sess, device>>

RecUnguard(r) ==
  /\ RecAt(r, "unguard") /\ RecGoto(r, "quieten")
  /\ IF rec[r].pid = None THEN UNCHANGED guard /\ Fine ELSE forge_cdp_stop(rec[r].pid)
  /\ UNCHANGED <<broker, journal, lock, sess, loud>>

RecQuieten(r) ==
  /\ RecAt(r, "quieten") /\ RecGoto(r, "services")
  /\ loud' = FALSE
  /\ UNCHANGED <<broker, journal, lock, sess, guard, faults>>

\* The framework is restarted if the lock looks like that of a framebuffer
\* takeover; then up to 60 polls of services and network.
RestoreServices(r) ==
  /\ RecAt(r, "services")
  /\ \/ RecGoto(r, "inspect") /\ Fine
     \/ rec' = [rec EXCEPT ![r].pc = "inspect", ![r].failed = TRUE] /\ Fault("env")
  /\ UNCHANGED <<broker, journal, lock, sess, device>>

\* A rule that is left is a failure.
InspectRules(r) ==
  /\ RecAt(r, "inspect")
  /\ rec' = [rec EXCEPT ![r].pc = "unlock", ![r].failed = @ \/ guard # {}]
  /\ UNCHANGED <<broker, journal, lock, sess, device, faults>>

\* The lock goes, whether or not recovery has failed.
RecUnlock(r) ==
  /\ RecAt(r, "unlock")
  /\ lock' = NoLock
  /\ IF rec[r].failed THEN RecFails(r) ELSE RecGoto(r, "launcher")
  /\ UNCHANGED <<broker, journal, sess, device, faults>>

OpenLauncher(r) ==
  /\ RecAt(r, "launcher")
  /\ \/ rec' = [rec EXCEPT ![r] = [NoRecovery EXCEPT !.failed = FALSE]] /\ Fine
     \/ RecFails(r) /\ Fault("env")
  /\ UNCHANGED <<broker, journal, lock, sess, device>>

RecoveryStep(r) ==
  \/ RecExec(r) \/ ReadLock(r) \/ EndSession(r) \/ EndPanel(r) \/ EndService(r)
  \/ CheckProcesses(r) \/ RecUnguard(r) \/ RecQuieten(r) \/ RestoreServices(r)
  \/ InspectRules(r) \/ RecUnlock(r) \/ OpenLauncher(r)

-----------------------------------------------------------------------------
BrokerStep == Boot \/ SeeReady \/ Reap \/ Timeout \/ ShutDown
Next ==
  \/ BrokerStep \/ RequestStart \/ RequestStop \/ Terminate \/ Crash \/ Reboot
  \/ \E s \in Sessions : SessionStep(s) \/ \E k \in Helpers : HelperEnds(s, k)
  \/ \E r \in Recoveries : RecoveryStep(r)

Spec == Init /\ [][Next]_vars

\* init restarts the broker; its loop runs ten times a second.
BrokerFairness == /\ WF_vars(Boot) /\ WF_vars(Reap) /\ WF_vars(SeeReady)
                  /\ WF_vars(Timeout) /\ WF_vars(ShutDown)
BrokerSpec     == Spec /\ BrokerFairness

\* The scripts run, helpers that are told to end do, and the operator presses
\* RECOVER ANDROID for as long as the launcher shows it.
Recover == broker.state = "FAILED" /\ RequestStop
FairSpec ==
  /\ BrokerSpec
  /\ WF_vars(Recover)
  /\ \A s \in Sessions : /\ WF_vars(SessionStep(s))
                          /\ \A k \in Helpers : WF_vars(sess[s][k] = "doomed" /\ HelperEnds(s, k))
  /\ \A r \in Recoveries : WF_vars(RecoveryStep(r))

-----------------------------------------------------------------------------
(* Properties.                                                             *)

LiveSessions == {s \in Sessions : sess[s].pc # "exited"}
Restored == /\ LiveSessions = {} /\ ~HelperRunning
            /\ guard = {} /\ ~loud /\ ~lock.dir

\* What sessiond.c:217 says of the broker: "Even a graceful session must prove
\* restoration before IDLE".  Also said of the journal: IDLE on disk is what
\* makes a restarted broker skip recovery, so it must imply a restored device
\* wherever broker and scripts were interrupted.
IdleMeansRestored ==
  journal = "IDLE" \/ (broker.up /\ broker.state = "IDLE") => Restored

\* When forge-recover.sh tears the session down (lines 44-123) no session script
\* is under way that could bring it up again, also when the script outlived the
\* broker that had started it.
RecoveryIsAlone ==
  (\E r \in Recoveries : rec[r].pc \in Teardown) => LiveSessions = {} /\ ~HelperRunning

\* A state that promises progress is left, even when scripts hang: the limits
\* of sessiond.c:247 and the recovery after each session see to it.
Settles == broker.up /\ broker.state \in {"STARTING", "STOPPING", "RECOVERING"}
             ~> ~broker.up \/ broker.state \in {"IDLE", "RUNNING", "FAILED"}

\* FAILED is never the end: RECOVER ANDROID, pressed again, leads back to IDLE.
RecoverAndroid == broker.up /\ broker.state = "FAILED" ~> broker.up /\ broker.state = "IDLE"

=============================================================================
