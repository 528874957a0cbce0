---------------------------- MODULE SessiondProofs ----------------------------
(***************************************************************************)
(* Proofs about Sessiond, for any number of session and recovery pids, any *)
(* set of faults and any number of them.                                   *)
(***************************************************************************)
EXTENDS Sessiond, TLAPS

-----------------------------------------------------------------------------
(* Types.                                                                  *)

Statuses == {"none", "up", "doomed"}
Scripts  == [pc: SessionPcs, term: BOOLEAN, audio: BOOLEAN, service: Statuses, panel: Statuses]
Runs     == [pc: RecoveryPcs, pid: Sessions \cup {None}, sent: BOOLEAN, failed: BOOLEAN]
Brokers  == [up: BOOLEAN, state: States, stopping: BOOLEAN, child: Sessions \cup Recoveries \cup {None}]
Locks    == [dir: BOOLEAN, pid: Sessions \cup {None}, recs: SUBSET Records, ready: BOOLEAN]

\* The records of what is not there are typed.
LEMMA NoneTypes == NoSession \in Scripts /\ NoRecovery \in Runs /\ NoLock \in Locks
BY DEF NoSession, NoRecovery, NoLock, Scripts, Runs, Locks, Statuses, SessionPcs, RecoveryPcs

\* The commands of both scripts.
LEMMA PcNames ==
  /\ SessionPcs = {"exec", "exited", "checks", "locked", "pidded", "recorded", "trapped", "guarded",
                   "audible", "serving", "served", "paneling", "panelled", "waiting", "cleanup",
                   "unguard", "quieten", "unlock"}
  /\ RecoveryPcs = {"exec", "read", "check", "launcher", "exited", "unguard", "quieten", "services",
                    "inspect", "unlock", "end_session", "end_panel", "end_service"}
<1>1. {Ending[k] : k \in Records} = {"end_session", "end_panel", "end_service"}
  BY DEF Ending, Records, Helpers
<1>2. QED BY <1>1 DEF SessionPcs, Untrapped, Running, Cleaning, RecoveryPcs, Teardown

\* What a signal or the end of a script leaves of its record.
LEMMA DeadSessionType ==
  ASSUME NEW x \in Scripts
  PROVE  /\ DeadSession(x) \in Scripts /\ DeadSession(x).pc = "exited"
         /\ \A k \in Helpers : DeadSession(x)[k] = "none" <=> x[k] = "none"
BY DEF DeadSession, Scripts, Statuses, Doom, SessionPcs, Helpers

\* What SIGTERM makes of a session script.
LEMMA TermSessionType ==
  ASSUME NEW x \in Scripts, NEW y \in TermSession(x)
  PROVE  /\ y \in Scripts
         /\ (y.pc = x.pc /\ x.pc \notin Untrapped) \/ y.pc = "exited"
         /\ \A k \in Helpers : y[k] = "none" <=> x[k] = "none"
<1>1. x.pc \in {"exited", "exec"} \cup Untrapped \cup Running \cup Cleaning
  BY DEF Scripts, SessionPcs
<1>2. CASE x.pc \in {"exited", "exec"}
  BY <1>2 DEF TermSession, Untrapped, Running, Cleaning
<1>3. CASE x.pc \in Untrapped
  <2>1. y = DeadSession(x)
    BY <1>3 DEF TermSession, Untrapped, Running, Cleaning
  <2>2. QED BY <2>1, DeadSessionType
<1>4. CASE x.pc \in Running
  <2>1. y = [x EXCEPT !.term = TRUE]
    BY <1>4 DEF TermSession, Untrapped, Running, Cleaning
  <2>2. QED BY <1>4, <2>1 DEF Scripts, Helpers, Running, Untrapped
<1>5. CASE x.pc \in Cleaning
  <2>1. y = DeadSession(x) \/ y = x
    BY <1>5 DEF TermSession, Untrapped, Running, Cleaning
  <2>2. QED BY <1>5, <2>1, DeadSessionType DEF Cleaning, Untrapped
<1>6. QED BY <1>1, <1>2, <1>3, <1>4, <1>5

\* TypeOK, with its sets named.
LEMMA TypeMeans ==
  TypeOK <=> /\ broker \in Brokers /\ journal \in States /\ lock \in Locks
             /\ sess \in [Sessions -> Scripts] /\ rec \in [Recoveries -> Runs]
             /\ guard \subseteq Sessions /\ loud \in BOOLEAN /\ faults \in 0..MaxFaults
BY DEF TypeOK, Brokers, Locks, Scripts, Runs, Statuses

\* What the broker's child makes of a signal: no other script changes, and none
\* of its helpers ends.
Told == /\ sess' \in [Sessions -> Scripts] /\ rec' \in [Recoveries -> Runs]
        /\ \A s \in Sessions : /\ s # broker.child => sess'[s] = sess[s]
                               /\ sess'[s].pc \in {sess[s].pc, "exited"}
                               /\ \A k \in Helpers : sess'[s][k] = "none" <=> sess[s][k] = "none"
        /\ \A r \in Recoveries : rec'[r] = rec[r] \/ (r = broker.child /\ rec'[r] = NoRecovery)

\* SIGTERM to the child is told to the child only.
LEMMA TermTells == ASSUME TypeOK, TermChild PROVE Told
<1>1. /\ broker \in Brokers /\ sess \in [Sessions -> Scripts] /\ rec \in [Recoveries -> Runs]
  BY TypeMeans
<1>2. CASE broker.child \in Sessions
  <2>1. PICK x \in TermSession(sess[broker.child]) : sess' = [sess EXCEPT ![broker.child] = x] /\ rec' = rec
    BY <1>2, PidsAssumption DEF TermChild
  <2>2. /\ x \in Scripts /\ x.pc \in {sess[broker.child].pc, "exited"}
        /\ \A k \in Helpers : x[k] = "none" <=> sess[broker.child][k] = "none"
    BY <1>1, <1>2, <2>1, TermSessionType
  <2>3. QED BY <1>1, <1>2, <2>1, <2>2 DEF Told
<1>3. CASE broker.child \in Recoveries
  <2>1. PICK x \in TermRecovery(rec[broker.child]) : rec' = [rec EXCEPT ![broker.child] = x] /\ sess' = sess
    BY <1>3, PidsAssumption DEF TermChild
  <2>2. x = rec[broker.child] \/ x = NoRecovery
    BY <2>1 DEF TermRecovery, DeadRecovery
  <2>3. QED BY <1>1, <1>3, <2>1, <2>2, NoneTypes DEF Told
<1>4. CASE broker.child = None
  BY <1>1, <1>4, PidsAssumption DEF TermChild, Told
<1>5. QED BY <1>1, <1>2, <1>3, <1>4 DEF Brokers

\* SIGKILL ends the child.
LEMMA KillTells ==
  ASSUME TypeOK, KillChild
  PROVE  /\ Told
         /\ broker.child \in Sessions => sess'[broker.child].pc = "exited"
         /\ broker.child \in Recoveries => rec'[broker.child].pc = "exited"
<1>1. /\ broker \in Brokers /\ sess \in [Sessions -> Scripts] /\ rec \in [Recoveries -> Runs]
  BY TypeMeans
<1>2. CASE broker.child \in Sessions
  <2>1. sess' = [sess EXCEPT ![broker.child] = DeadSession(@)] /\ rec' = rec
    BY <1>2, PidsAssumption DEF KillChild
  <2>2. /\ DeadSession(sess[broker.child]) \in Scripts /\ DeadSession(sess[broker.child]).pc = "exited"
        /\ \A k \in Helpers : DeadSession(sess[broker.child])[k] = "none" <=> sess[broker.child][k] = "none"
    BY <1>1, <1>2, DeadSessionType
  <2>3. QED BY <1>1, <1>2, <2>1, <2>2, PidsAssumption DEF Told
<1>3. CASE broker.child \in Recoveries
  <2>1. sess' = sess /\ \E x \in {rec[broker.child], NoRecovery} :
          rec' = [rec EXCEPT ![broker.child] = x] /\ x.pc = "exited"
    BY <1>1, <1>3, PidsAssumption DEF KillChild, DeadRecovery, NoRecovery
  <2>2. QED BY <1>1, <1>3, <2>1, NoneTypes, PidsAssumption DEF Told
<1>4. QED BY <1>2, <1>3 DEF KillChild

\* When the broker dies no recovery survives, and no session that could not
\* clean up after itself.
LEMMA OrphanTells ==
  ASSUME TypeOK, Orphan
  PROVE  /\ Told
         /\ broker.child \in Sessions => sess'[broker.child].pc \in {"exited"} \cup Running \cup Cleaning
         /\ broker.child \in Recoveries => rec'[broker.child].pc = "exited"
<1>1. /\ broker \in Brokers /\ sess \in [Sessions -> Scripts] /\ rec \in [Recoveries -> Runs]
  BY TypeMeans
<1>2. CASE broker.child \in Sessions /\ KillChild
  BY <1>2, KillTells, PidsAssumption
<1>3. CASE broker.child \in Sessions /\ sess[broker.child].pc # "exec" /\ TermChild
  <2>1. PICK x \in TermSession(sess[broker.child]) : sess' = [sess EXCEPT ![broker.child] = x]
    BY <1>3, PidsAssumption DEF TermChild
  <2>2. x.pc = "exited" \/ (x.pc = sess[broker.child].pc /\ x.pc \notin Untrapped)
    BY <1>1, <1>3, <2>1, TermSessionType
  <2>3. sess'[broker.child] = x /\ sess[broker.child].pc \in SessionPcs
    BY <1>1, <1>3, <2>1 DEF Scripts
  <2>4. QED BY <1>3, <2>2, <2>3, TermTells, PidsAssumption DEF SessionPcs
<1>4. CASE broker.child \in Recoveries
  BY <1>4, KillTells, PidsAssumption DEF Orphan
<1>5. CASE broker.child = None
  <2>1. sess' = sess /\ rec' = rec
    BY <1>5, PidsAssumption DEF Orphan
  <2>2. QED BY <1>1, <1>5, <2>1, PidsAssumption DEF Told
<1>6. QED BY <1>1, <1>2, <1>3, <1>4, <1>5 DEF Orphan, Brokers

\* The number of faults stays within its bound.
LEMMA FaultTypes == \A kind : faults \in 0..MaxFaults /\ (Fault(kind) \/ Fine) => faults' \in 0..MaxFaults
BY FaultsAssumption DEF Fault, Fine

\* save_state either writes both or is FAILED.
LEMMA SaveTypes ==
  ASSUME TypeOK, NEW next \in States, NEW b \in Brokers, save_state(next, b)
  PROVE  /\ broker' \in Brokers /\ journal' \in States /\ faults' \in 0..MaxFaults
         /\ broker' = [b EXCEPT !.state = broker'.state]
         /\ \/ broker'.state = next /\ journal' = next
            \/ broker'.state = "FAILED" /\ journal' = journal
BY SMTT(30), TypeMeans, FaultTypes DEF save_state, Brokers, States

\* Every launch of a script: it is the broker's child once the journal says so,
\* or it is not started.
Launches(name, b, pids) ==
  /\ broker' \in Brokers /\ broker'.up = b.up /\ broker'.stopping = b.stopping
  /\ \/ journal' = name /\ broker'.state = name /\ broker'.child \in pids
     \/ /\ journal' \in {journal, name, "FAILED"} /\ broker'.state = "FAILED" /\ broker'.child = None
        /\ UNCHANGED <<sess, rec>>

\* The launch of a session script.
LEMMA LaunchSessionTypes ==
  ASSUME TypeOK, NEW b \in Brokers, LaunchSession(b)
  PROVE  /\ sess' \in [Sessions -> Scripts] /\ rec' = rec /\ faults' \in 0..MaxFaults
         /\ journal' \in States
         /\ Launches("STARTING", b, FreeSessions)
         /\ broker'.child # None => sess' = [sess EXCEPT ![broker'.child] = [NoSession EXCEPT !.pc = "exec"]]
<1>1. /\ journal \in States /\ sess \in [Sessions -> Scripts]
  BY TypeMeans
<1>2. faults' \in 0..MaxFaults
  BY TypeMeans, FaultTypes DEF LaunchSession, LaunchFails
<1>3. CASE \E s \in FreeSessions :
          /\ broker' = [b EXCEPT !.state = "STARTING", !.child = s]
          /\ sess' = [sess EXCEPT ![s] = [NoSession EXCEPT !.pc = "exec"]]
          /\ journal' = "STARTING" /\ rec' = rec
  <2>1. PICK s \in FreeSessions :
          /\ broker' = [b EXCEPT !.state = "STARTING", !.child = s]
          /\ sess' = [sess EXCEPT ![s] = [NoSession EXCEPT !.pc = "exec"]]
          /\ journal' = "STARTING" /\ rec' = rec
    BY <1>3
  <2>2. s \in Sessions /\ [NoSession EXCEPT !.pc = "exec"] \in Scripts
    BY NoneTypes DEF FreeSessions, Scripts, SessionPcs
  <2>3. /\ broker' \in Brokers /\ broker'.child = s /\ broker'.state = "STARTING"
        /\ broker'.up = b.up /\ broker'.stopping = b.stopping
    BY <2>1, <2>2 DEF Brokers, States
  <2>4. QED BY <1>1, <1>2, <2>1, <2>2, <2>3 DEF Launches, States
<1>4. CASE LaunchFails("STARTING", b)
  BY <1>1, <1>2, <1>4 DEF LaunchFails, Launches, Brokers, States
<1>5. QED BY <1>3, <1>4 DEF LaunchSession

\* The launch of a recovery script.
LEMMA LaunchRecoveryTypes ==
  ASSUME TypeOK, NEW b \in Brokers, LaunchRecovery(b)
  PROVE  /\ rec' \in [Recoveries -> Runs] /\ sess' = sess /\ faults' \in 0..MaxFaults
         /\ journal' \in States
         /\ Launches("RECOVERING", b, FreeRecoveries)
         /\ broker'.child # None =>
              rec' = [rec EXCEPT ![broker'.child] = [NoRecovery EXCEPT !.pc = "exec", !.failed = FALSE]]
<1>1. /\ journal \in States /\ rec \in [Recoveries -> Runs]
  BY TypeMeans
<1>2. faults' \in 0..MaxFaults
  BY TypeMeans, FaultTypes DEF LaunchRecovery, LaunchFails
<1>3. CASE \E r \in FreeRecoveries :
          /\ broker' = [b EXCEPT !.state = "RECOVERING", !.child = r]
          /\ rec' = [rec EXCEPT ![r] = [NoRecovery EXCEPT !.pc = "exec", !.failed = FALSE]]
          /\ journal' = "RECOVERING" /\ sess' = sess
  <2>1. PICK r \in FreeRecoveries :
          /\ broker' = [b EXCEPT !.state = "RECOVERING", !.child = r]
          /\ rec' = [rec EXCEPT ![r] = [NoRecovery EXCEPT !.pc = "exec", !.failed = FALSE]]
          /\ journal' = "RECOVERING" /\ sess' = sess
    BY <1>3
  <2>2. r \in Recoveries /\ [NoRecovery EXCEPT !.pc = "exec", !.failed = FALSE] \in Runs
    BY NoneTypes DEF FreeRecoveries, Runs, RecoveryPcs
  <2>3. /\ broker' \in Brokers /\ broker'.child = r /\ broker'.state = "RECOVERING"
        /\ broker'.up = b.up /\ broker'.stopping = b.stopping
    BY <2>1, <2>2 DEF Brokers, States
  <2>4. QED BY <1>1, <1>2, <2>1, <2>2, <2>3 DEF Launches, States
<1>4. CASE LaunchFails("RECOVERING", b)
  BY <1>1, <1>2, <1>4 DEF LaunchFails, Launches, Brokers, States
<1>5. QED BY <1>3, <1>4 DEF LaunchRecovery

Booted == [up |-> TRUE, state |-> "IDLE", stopping |-> FALSE, child |-> None]
Reaped == [broker EXCEPT !.child = None]

\* The broker's steps keep the types.
LEMMA BrokerTypes ==
  ASSUME TypeOK,
         BrokerStep \/ RequestStart \/ RequestStop \/ Terminate \/ Crash \/ Reboot
  PROVE  TypeOK'
<1>0. /\ broker \in Brokers /\ journal \in States /\ lock \in Locks
      /\ sess \in [Sessions -> Scripts] /\ rec \in [Recoveries -> Runs]
      /\ guard \subseteq Sessions /\ loud \in BOOLEAN /\ faults \in 0..MaxFaults
  BY TypeMeans
<1> SUFFICES /\ broker' \in Brokers /\ journal' \in States /\ lock' \in Locks
             /\ sess' \in [Sessions -> Scripts] /\ rec' \in [Recoveries -> Runs]
             /\ guard' \subseteq Sessions /\ loud' \in BOOLEAN /\ faults' \in 0..MaxFaults
  BY DEF TypeOK, Brokers, Locks, Scripts, Runs, Statuses
<1>1. Booted \in Brokers /\ Reaped \in Brokers
  BY <1>0 DEF Booted, Reaped, Brokers, States
<1>2. CASE Boot
  <2>1. CASE LaunchRecovery(Booted)
    BY <1>0, <1>1, <1>2, <2>1, LaunchRecoveryTypes DEF Boot, device, Launches
  <2>2. CASE broker' = Booted /\ UNCHANGED <<journal, sess, rec, faults>>
    BY <1>0, <1>1, <1>2, <2>2 DEF Boot, device
  <2>3. QED BY <1>2, <2>1, <2>2 DEF Boot, Booted
<1>3. CASE SeeReady
  <2>1. "RUNNING" \in States BY DEF States
  <2>2. QED BY <1>0, <1>3, <2>1, SaveTypes DEF SeeReady, device
<1>4. CASE Reap
  <2>1. CASE save_state(IF rec[broker.child].failed THEN "FAILED" ELSE "IDLE", Reaped) /\ UNCHANGED <<sess, rec>>
    <3>1. (IF rec[broker.child].failed THEN "FAILED" ELSE "IDLE") \in States
      BY DEF States
    <3>2. QED BY <1>0, <1>1, <1>4, <2>1, <3>1, SaveTypes DEF Reap, device
  <2>2. CASE LaunchRecovery(Reaped)
    BY <1>0, <1>1, <1>4, <2>2, LaunchRecoveryTypes DEF Reap, device, Launches
  <2>3. QED BY <1>4, <2>1, <2>2 DEF Reap, Reaped
<1>5. CASE Timeout
  BY <1>0, <1>5, KillTells DEF Timeout, device, Told
<1>6. CASE ShutDown
  BY <1>0, <1>6, OrphanTells DEF ShutDown, Down, device, Told, Brokers, States
<1>7. CASE RequestStart
  BY <1>0, <1>7, LaunchSessionTypes DEF RequestStart, device, Launches
<1>8. CASE RequestStop
  <2>1. CASE save_state("STOPPING", broker) /\ (Told \/ UNCHANGED <<sess, rec>>)
    <3>1. "STOPPING" \in States BY DEF States
    <3>2. QED BY <1>0, <1>8, <2>1, <3>1, SaveTypes DEF RequestStop, device, Told
  <2>2. CASE LaunchRecovery(broker)
    BY <1>0, <1>8, <2>2, LaunchRecoveryTypes DEF RequestStop, device, Launches
  <2>3. QED BY <1>8, <2>1, <2>2, TermTells DEF RequestStop
<1>9. CASE Terminate
  <2>1. Told
    BY <1>9, TermTells DEF Terminate
  <2>2. QED BY <1>0, <1>9, <2>1, FaultTypes DEF Terminate, device, Told, Brokers
<1>10. CASE Crash
  <2>1. Told
    BY <1>10, OrphanTells DEF Crash
  <2>2. QED BY <1>0, <1>10, <2>1, FaultTypes DEF Crash, Down, device, Told, Brokers, States
<1>11. CASE Reboot
  BY <1>0, <1>11, FaultTypes, NoneTypes DEF Reboot, Down, Brokers, States
<1>12. QED BY <1>2, <1>3, <1>4, <1>5, <1>6, <1>7, <1>8, <1>9, <1>10, <1>11 DEF BrokerStep

-----------------------------------------------------------------------------
(* A step of a session script.  From its record on, the lock names it for  *)
(* as long as it lives.                                                    *)

Held  == {"recorded"} \cup Running \cup Cleaning
Named == {"pidded"} \cup Held

\* What a step of session s may change.
Follows(s) ==
  /\ sess' \in [Sessions -> Scripts] /\ lock' \in Locks /\ guard' \subseteq Sessions
  /\ loud' \in BOOLEAN /\ faults' \in 0..MaxFaults
  /\ UNCHANGED Others
  /\ sess[s].pc # "exited"
  /\ \A t \in Sessions \ {s} : sess'[t] = sess[t]
  /\ sess'[s].pc \in Named => /\ lock'.dir
                              /\ \/ lock'.pid = s
                                 \/ sess[s].pc \in Named /\ lock'.pid = lock.pid
  /\ sess'[s].pc \in Held => \/ "session" \in lock'.recs
                             \/ sess[s].pc \in Held /\ lock.recs \subseteq lock'.recs
  /\ sess[s].pc \in Running \cup Cleaning => sess'[s].pc \in {"exited"} \cup Running \cup Cleaning

\* A session script that ends.
LEMMA FollowsEnd ==
  ASSUME TypeOK, NEW s \in Sessions, Die(s), sess[s].pc # "exited", UNCHANGED Others,
         lock' \in Locks, guard' \subseteq Sessions, loud' \in BOOLEAN, faults' \in 0..MaxFaults
  PROVE  Follows(s)
<1>1. sess \in [Sessions -> Scripts]
  BY TypeMeans
<1>2. DeadSession(sess[s]) \in Scripts /\ DeadSession(sess[s]).pc = "exited"
  BY <1>1, DeadSessionType
<1>3. sess'[s] = DeadSession(sess[s]) /\ sess' \in [Sessions -> Scripts] /\ \A t \in Sessions \ {s} : sess'[t] = sess[t]
  BY <1>1, <1>2 DEF Die
<1>4. "exited" \notin Named /\ "exited" \notin Held
  BY DEF Named, Held, Running, Cleaning
<1>5. QED BY <1>2, <1>3, <1>4 DEF Follows

\* A session script that goes on with other locals.
LEMMA FollowsMove ==
  ASSUME TypeOK, NEW s \in Sessions, NEW x \in Scripts, sess' = [sess EXCEPT ![s] = x],
         sess[s].pc # "exited", UNCHANGED Others,
         lock' \in Locks, guard' \subseteq Sessions, loud' \in BOOLEAN, faults' \in 0..MaxFaults,
         x.pc \in Named => lock'.dir /\ (lock'.pid = s \/ (sess[s].pc \in Named /\ lock'.pid = lock.pid)),
         x.pc \in Held => "session" \in lock'.recs \/ (sess[s].pc \in Held /\ lock.recs \subseteq lock'.recs),
         sess[s].pc \in Running \cup Cleaning => x.pc \in {"exited"} \cup Running \cup Cleaning
  PROVE  Follows(s)
BY TypeMeans DEF Follows

\* A session script that goes on to its next command.
LEMMA FollowsGoto ==
  ASSUME TypeOK, NEW s \in Sessions, NEW pc \in SessionPcs, Goto(s, pc),
         sess[s].pc # "exited", UNCHANGED Others,
         lock' \in Locks, guard' \subseteq Sessions, loud' \in BOOLEAN, faults' \in 0..MaxFaults,
         pc \in Named => lock'.dir /\ (lock'.pid = s \/ (sess[s].pc \in Named /\ lock'.pid = lock.pid)),
         pc \in Held => "session" \in lock'.recs \/ (sess[s].pc \in Held /\ lock.recs \subseteq lock'.recs),
         sess[s].pc \in Running \cup Cleaning => pc \in Running \cup Cleaning
  PROVE  Follows(s)
<1> DEFINE x == [sess[s] EXCEPT !.pc = pc]
<1>1. sess[s] \in Scripts
  BY TypeMeans
<1>2. x \in Scripts /\ x.pc = pc
  BY <1>1 DEF Scripts
<1>3. sess' = [sess EXCEPT ![s] = x]
  BY DEF Goto
<1> HIDE DEF x
<1>4. QED BY <1>2, <1>3, FollowsMove

\* Every step of forge-session.sh.
LEMMA SessionFollows ==
  ASSUME TypeOK, NEW s \in Sessions, SessionStep(s), sess[s].pc \in Named => lock.dir
  PROVE  Follows(s)
<1>0. /\ lock \in Locks /\ sess[s] \in Scripts
      /\ guard \subseteq Sessions /\ loud \in BOOLEAN /\ faults \in 0..MaxFaults
  BY TypeMeans
<1> USE DEF At, Others, device
<1>1. /\ Named = {"pidded", "recorded"} \cup Running \cup Cleaning
      /\ Held = {"recorded"} \cup Running \cup Cleaning
      /\ Running \cup Cleaning = {"trapped", "guarded", "audible", "serving", "served", "paneling", "panelled",
                                  "waiting", "cleanup", "unguard", "quieten", "unlock"}
      /\ Running \subseteq SessionPcs /\ Cleaning \subseteq SessionPcs
  BY DEF Named, Held, Running, Cleaning, SessionPcs
<1>2. {"checks", "locked", "pidded", "recorded"} \subseteq SessionPcs
  BY DEF SessionPcs, Untrapped
<1>3. CASE Exec(s)
  BY <1>0, <1>1, <1>2, <1>3, FollowsGoto DEF Exec
<1>4. CASE TakeLock(s)
  <2>1. CASE Die(s) /\ lock' = lock
    BY <1>0, <1>4, <2>1, FollowsEnd DEF TakeLock
  <2>2. CASE Goto(s, "locked") /\ lock' = [NoLock EXCEPT !.dir = TRUE]
    <3>1. lock' \in Locks
      BY <2>2, NoneTypes DEF Locks
    <3>2. UNCHANGED <<Others, device, faults>> /\ sess[s].pc = "checks"
      BY <1>4 DEF TakeLock
    <3>3. QED BY <1>0, <1>1, <1>2, <2>2, <3>1, <3>2, FollowsGoto
  <2>3. QED BY <1>4, <2>1, <2>2 DEF TakeLock
<1>5. CASE WritePid(s)
  <2>1. lock' \in Locks /\ lock'.dir /\ lock'.pid = s
    BY <1>0, <1>5 DEF WritePid, Write, Locks
  <2>2. QED BY <1>0, <1>1, <1>2, <1>5, <2>1, FollowsGoto DEF WritePid, Write
<1>6. ASSUME NEW k \in Records, lock' = [lock EXCEPT !.recs = @ \cup {k}]
      PROVE  lock' \in Locks /\ lock'.dir = lock.dir /\ lock'.pid = lock.pid /\ lock'.recs = lock.recs \cup {k}
  BY <1>0, <1>6 DEF Locks
<1>7. {"session", "service", "panel"} = Records
  BY DEF Records, Helpers
<1>8. CASE WriteStart(s)
  <2>1. lock' \in Locks /\ lock'.dir /\ lock'.pid = lock.pid /\ "session" \in lock'.recs
    BY <1>6, <1>7, <1>8 DEF WriteStart, Write
  <2>2. QED BY <1>0, <1>1, <1>2, <1>8, <2>1, FollowsGoto DEF WriteStart, Write
<1>9. CASE SetTrap(s)
  BY <1>0, <1>1, <1>9, FollowsGoto DEF SetTrap
<1>10. CASE FailsEarly(s)
  BY <1>0, <1>10, FollowsEnd, FaultTypes DEF FailsEarly
<1>11. CASE forge_cdp_start(s)
  <2>1. guard' \subseteq Sessions /\ faults' \in 0..MaxFaults
    BY <1>0, <1>11, FaultTypes DEF forge_cdp_start
  <2>2. QED BY <1>0, <1>1, <1>11, <2>1, FollowsGoto DEF forge_cdp_start
<1>12. CASE ConfigureAudio(s)
  <2> DEFINE x == [sess[s] EXCEPT !.pc = "audible", !.audio = TRUE]
  <2>1. x \in Scripts /\ x.pc = "audible"
    BY <1>0, <1>1 DEF Scripts
  <2>2. sess' = [sess EXCEPT ![s] = x]
    BY <1>12 DEF ConfigureAudio
  <2> HIDE DEF x
  <2>3. QED BY <1>0, <1>1, <1>12, <2>1, <2>2, FollowsMove DEF ConfigureAudio
<1>13. CASE SpawnService(s) \/ SpawnPanel(s)
  <2>1. PICK x \in Scripts : sess' = [sess EXCEPT ![s] = x] /\ x.pc \in Running /\ sess[s].pc \in Running
    <3>1. CASE SpawnService(s)
      <4> DEFINE x == [sess[s] EXCEPT !.pc = "serving", !.service = "up"]
      <4>1. x \in Scripts /\ x.pc \in Running
        BY <1>0, <1>1 DEF Scripts, Statuses, Running
      <4>2. sess' = [sess EXCEPT ![s] = x] /\ sess[s].pc \in Running
        BY <3>1 DEF SpawnService, Spawn, Running
      <4> HIDE DEF x
      <4>3. QED BY <4>1, <4>2
    <3>2. CASE SpawnPanel(s)
      <4> DEFINE x == [sess[s] EXCEPT !.pc = "paneling", !.panel = "up"]
      <4>1. x \in Scripts /\ x.pc \in Running
        BY <1>0, <1>1 DEF Scripts, Statuses, Running
      <4>2. sess' = [sess EXCEPT ![s] = x] /\ sess[s].pc \in Running
        BY <3>2 DEF SpawnPanel, Spawn, Running
      <4> HIDE DEF x
      <4>3. QED BY <4>1, <4>2
    <3>3. QED BY <1>13, <3>1, <3>2
  <2>2. sess[s].pc # "exited" /\ UNCHANGED Others /\ lock' = lock /\ UNCHANGED <<device, faults>>
    BY <1>13 DEF SpawnService, SpawnPanel, Spawn
  <2>3. QED BY <1>0, <1>1, <2>1, <2>2, FollowsMove
<1>14. CASE RecordService(s)
  <2>1. lock' \in Locks /\ lock'.dir /\ lock'.pid = lock.pid /\ lock.recs \subseteq lock'.recs
    BY <1>6, <1>7, <1>14 DEF RecordService, Write
  <2>2. QED BY <1>0, <1>1, <1>14, <2>1, FollowsGoto DEF RecordService, Write
<1>15. CASE RecordPanel(s)
  <2>1. lock' \in Locks /\ lock'.dir /\ lock'.pid = lock.pid /\ lock.recs \subseteq lock'.recs
    BY <1>6, <1>7, <1>15 DEF RecordPanel, Write
  <2>2. QED BY <1>0, <1>1, <1>15, <2>1, FollowsGoto DEF RecordPanel, Write
<1>16. CASE WriteReady(s)
  <2>1. lock' \in Locks /\ lock'.dir /\ lock'.pid = lock.pid /\ lock.recs \subseteq lock'.recs
    BY <1>0, <1>16 DEF WriteReady, Write, Locks
  <2>2. QED BY <1>0, <1>1, <1>16, <2>1, FollowsGoto DEF WriteReady, Write
<1>17. CASE EnterCleanup(s)
  <2> DEFINE x == [sess[s] EXCEPT !.pc = "cleanup", !.term = FALSE, !.service = Doom(@), !.panel = Doom(@)]
  <2>1. x \in Scripts /\ x.pc = "cleanup"
    BY <1>0, <1>1 DEF Scripts, Statuses, Doom
  <2>2. sess' = [sess EXCEPT ![s] = x]
    BY <1>17 DEF EnterCleanup
  <2> HIDE DEF x
  <2>3. QED BY <1>0, <1>1, <1>17, <2>1, <2>2, FollowsMove DEF EnterCleanup, Running
<1>18. CASE AwaitHelpers(s)
  BY <1>0, <1>1, <1>18, FollowsGoto DEF AwaitHelpers
<1>19. CASE Unguard(s)
  <2>1. guard' \subseteq Sessions /\ faults' \in 0..MaxFaults
    BY <1>0, <1>19, FaultTypes DEF Unguard, forge_cdp_stop
  <2>2. QED BY <1>0, <1>1, <1>19, <2>1, FollowsGoto DEF Unguard
<1>20. CASE Quieten(s)
  <2>1. loud' \in BOOLEAN
    BY <1>20 DEF Quieten
  <2>2. QED BY <1>0, <1>1, <1>20, <2>1, FollowsGoto DEF Quieten
<1>21. CASE RemoveLock(s)
  BY <1>0, <1>21, FollowsEnd, NoneTypes DEF RemoveLock
<1>22. QED BY <1>3, <1>4, <1>5, <1>8, <1>9, <1>10, <1>11, <1>12, <1>13, <1>14, <1>15, <1>16, <1>17, <1>18, <1>19,
              <1>20, <1>21 DEF SessionStep

-----------------------------------------------------------------------------
(* A step of a recovery.                                                   *)

AfterEnd == {"end_panel", "end_service", "check", "launcher"} \cup Teardown
Quieted  == {"services", "inspect", "unlock", "launcher"}

\* What a step of recovery r may change, and what it has established when it
\* goes on to the next part of the script.
Works(r) ==
  /\ sess' \in [Sessions -> Scripts] /\ rec' \in [Recoveries -> Runs] /\ lock' \in Locks
  /\ guard' \subseteq guard /\ loud' \in BOOLEAN /\ (loud' => loud) /\ faults' \in 0..MaxFaults
  /\ UNCHANGED <<broker, journal>>
  /\ rec[r].pc # "exited"
  /\ \A q \in Recoveries \ {r} : rec'[q] = rec[q]
  /\ \A s \in Sessions : /\ sess'[s].pc \in {sess[s].pc, "exited"}
                         /\ \A k \in Helpers : sess[s][k] = "none" => sess'[s][k] = "none"
  /\ lock' = lock \/ (rec[r].pc = "unlock" /\ lock' = NoLock)
  /\ rec'[r].pc \in AfterEnd => \/ rec[r].pc \in AfterEnd
                                \/ ~record_alive("session") \/ sess'[lock.pid].pc = "exited"
  /\ rec'[r].pc \in Teardown \cup {"launcher"} => \/ rec[r].pc \in Teardown
                                                  \/ ~HelperRunning /\ sess' = sess
  /\ rec'[r].pc \in Quieted => rec[r].pc \in Quieted \/ ~loud'
  /\ rec'[r].pc = "unlock" /\ ~rec'[r].failed => guard' = {}
  /\ rec'[r].pc = "launcher" => rec[r].pc = "unlock" /\ ~rec[r].failed /\ lock' = NoLock
  /\ rec'[r].pc = "exited" /\ ~rec'[r].failed => rec[r].pc = "launcher" /\ sess' = sess

\* A step that leaves the sessions alone.
LEMMA WorksMove ==
  ASSUME TypeOK, NEW r \in Recoveries, NEW x \in Runs, rec' = [rec EXCEPT ![r] = x], rec[r].pc # "exited",
         UNCHANGED <<broker, journal, sess>>, faults' \in 0..MaxFaults,
         guard' \subseteq guard, loud' \in BOOLEAN, loud' => loud,
         lock' = lock \/ (rec[r].pc = "unlock" /\ lock' = NoLock),
         x.pc \in AfterEnd => rec[r].pc \in AfterEnd \/ ~record_alive("session"),
         x.pc \in Teardown \cup {"launcher"} => rec[r].pc \in Teardown \/ ~HelperRunning,
         x.pc \in Quieted => rec[r].pc \in Quieted \/ ~loud',
         x.pc = "unlock" /\ ~x.failed => guard' = {},
         x.pc = "launcher" => rec[r].pc = "unlock" /\ ~rec[r].failed /\ lock' = NoLock,
         x.pc = "exited" /\ ~x.failed => rec[r].pc = "launcher"
  PROVE  Works(r)
<1>1. /\ lock \in Locks /\ sess \in [Sessions -> Scripts] /\ rec \in [Recoveries -> Runs]
  BY TypeMeans
<1>2. rec' \in [Recoveries -> Runs] /\ rec'[r] = x /\ \A q \in Recoveries \ {r} : rec'[q] = rec[q]
  BY <1>1
<1>3. lock' \in Locks
  BY <1>1, NoneTypes
<1>4. QED BY <1>1, <1>2, <1>3 DEF Works

\* The end of a recovery that has failed.
LEMMA WorksFail ==
  ASSUME TypeOK, NEW r \in Recoveries, RecFails(r), rec[r].pc # "exited",
         UNCHANGED <<broker, journal, sess>>, faults' \in 0..MaxFaults, UNCHANGED device,
         lock' = lock \/ (rec[r].pc = "unlock" /\ lock' = NoLock)
  PROVE  Works(r)
<1>1. NoRecovery \in Runs /\ NoRecovery.pc = "exited" /\ NoRecovery.failed
  BY NoneTypes DEF NoRecovery
<1>2. rec' = [rec EXCEPT ![r] = NoRecovery]
  BY DEF RecFails, DeadRecovery
<1>3. "exited" \notin AfterEnd \cup Teardown \cup Quieted
  BY DEF AfterEnd, Teardown, Quieted
<1>4. guard' = guard /\ loud' = loud /\ loud \in BOOLEAN
  BY TypeMeans DEF device
<1>5. QED BY <1>1, <1>2, <1>3, <1>4, WorksMove

\* SIGTERM, then SIGKILL, to the process a record names.
LEMMA WorksTerminate ==
  ASSUME TypeOK, NEW r \in Recoveries, NEW k \in Records, NEW next \in {"end_panel", "end_service", "check"},
         terminate_record(r, k, next), k = "session" \/ Ending[k] \in AfterEnd, Ending[k] \notin Teardown,
         Ending[k] # "exited"
  PROVE  Works(r)
<1>0. /\ lock \in Locks /\ rec[r] \in Runs /\ rec \in [Recoveries -> Runs] /\ sess \in [Sessions -> Scripts]
      /\ loud \in BOOLEAN /\ faults \in 0..MaxFaults
  BY TypeMeans
<1>1. /\ rec[r].pc = Ending[k] /\ UNCHANGED <<broker, journal, lock, guard, loud, faults>>
  BY DEF terminate_record, RecAt, device
<1>2. /\ next \in AfterEnd /\ next \notin Teardown \cup {"launcher"} /\ next \notin Quieted
      /\ next \in RecoveryPcs /\ next # "exited"
  BY PcNames DEF AfterEnd, Teardown, Quieted
<1>3. k \in Helpers \/ k = "session"
  BY DEF Records
<1> DEFINE on   == [rec[r] EXCEPT !.pc = next, !.sent = FALSE]
           sent == [rec[r] EXCEPT !.sent = TRUE]
<1>4. on \in Runs /\ on.pc = next /\ sent \in Runs /\ sent.pc = rec[r].pc /\ sent.failed = rec[r].failed
  BY <1>0, <1>2 DEF Runs
<1>5. CASE ~record_alive(k)
  <2>1. rec' = [rec EXCEPT ![r] = on] /\ sess' = sess
    BY <1>5 DEF terminate_record
  <2> HIDE DEF on, sent
  <2>2. QED BY <1>0, <1>1, <1>2, <1>4, <1>5, <2>1, WorksMove
<1>6. CASE record_alive(k)
  <2>1. lock.pid \in Sessions
    BY <1>0, <1>6 DEF record_alive, Locks
  <2>2. PICK x \in Runs, y \in Scripts :
          /\ rec' = [rec EXCEPT ![r] = x] /\ sess' = [sess EXCEPT ![lock.pid] = y]
          /\ y.pc \in {sess[lock.pid].pc, "exited"}
          /\ \A h \in Helpers : sess[lock.pid][h] = "none" => y[h] = "none"
          /\ x = sent \/ (x = on /\ (k = "session" => y.pc = "exited"))
    <3>1. CASE ~rec[r].sent
      <4>1. PICK y \in IF k = "session" THEN TermSession(sess[lock.pid])
                       ELSE {[sess[lock.pid] EXCEPT ![k] = Doom(@)]} : sess' = [sess EXCEPT ![lock.pid] = y]
        BY <1>6, <3>1 DEF terminate_record
      <4>2. rec' = [rec EXCEPT ![r] = sent]
        BY <1>6, <3>1 DEF terminate_record
      <4>3. /\ y \in Scripts /\ y.pc \in {sess[lock.pid].pc, "exited"}
            /\ \A h \in Helpers : sess[lock.pid][h] = "none" => y[h] = "none"
        <5>1. CASE k = "session"
          BY <1>0, <2>1, <4>1, <5>1, TermSessionType
        <5>2. CASE k \in Helpers
          BY <1>0, <2>1, <4>1, <5>2 DEF Helpers, Scripts, Statuses, Doom
        <5>3. QED BY <1>3, <5>1, <5>2
      <4> HIDE DEF on, sent
      <4>4. QED BY <1>4, <4>1, <4>2, <4>3
    <3>2. CASE rec[r].sent
      <4> DEFINE y == IF k = "session" THEN DeadSession(sess[lock.pid]) ELSE [sess[lock.pid] EXCEPT ![k] = "none"]
      <4>1. sess' = [sess EXCEPT ![lock.pid] = y] /\ rec' = [rec EXCEPT ![r] = on]
        BY ZenonT(40), <1>6, <3>2 DEF terminate_record
      <4>2. /\ y \in Scripts /\ y.pc \in {sess[lock.pid].pc, "exited"} /\ (k = "session" => y.pc = "exited")
            /\ \A h \in Helpers : sess[lock.pid][h] = "none" => y[h] = "none"
        <5>1. CASE k = "session"
          BY <1>0, <2>1, <5>1, DeadSessionType
        <5>2. CASE k \in Helpers
          BY <1>0, <2>1, <5>2 DEF Helpers, Scripts, Statuses
        <5>3. QED BY <1>3, <5>1, <5>2
      <4> HIDE DEF on, sent, y
      <4>3. QED BY <1>4, <4>1, <4>2
    <3>3. QED BY <3>1, <3>2
  <2> HIDE DEF on, sent
  <2>3. rec' \in [Recoveries -> Runs] /\ rec'[r] = x /\ \A q \in Recoveries \ {r} : rec'[q] = rec[q]
    BY <1>0, <2>2
  <2>4. sess' \in [Sessions -> Scripts] /\ sess'[lock.pid] = y /\ \A s \in Sessions \ {lock.pid} : sess'[s] = sess[s]
    BY <1>0, <2>1, <2>2
  <2>5. /\ x.pc \in {Ending[k], next}
        /\ x.pc = next => k \in Helpers \/ y.pc = "exited" \/ x.pc = rec[r].pc
    BY <1>1, <1>3, <1>4, <2>2
  <2>6. Ending[k] \notin Teardown \cup {"launcher", "exited"} \cup Quieted
    <3>1. Ending[k] \in {"end_session", "end_panel", "end_service"}
      BY DEF Ending, Records, Helpers
    <3>2. QED BY <3>1 DEF Teardown, Quieted
  <2>7. x.pc \notin Teardown \cup {"launcher", "exited"} \cup Quieted /\ x.pc # "unlock"
    BY <1>2, <2>5, <2>6 DEF Teardown
  <2>8. x.pc \in AfterEnd => rec[r].pc \in AfterEnd \/ sess'[lock.pid].pc = "exited"
    <3>1. "end_session" \notin AfterEnd /\ Ending["session"] = "end_session"
      BY DEF AfterEnd, Teardown, Ending
    <3>2. QED BY <1>1, <1>2, <2>2, <2>4, <1>4, <3>1
  <2>9. QED BY <1>0, <1>1, <2>2, <2>3, <2>4, <2>6, <2>7, <2>8 DEF Works
<1>7. QED BY <1>5, <1>6

\* Every step of forge-recover.sh.
LEMMA RecoveryWorks ==
  ASSUME TypeOK, NEW r \in Recoveries, RecoveryStep(r)
  PROVE  Works(r)
<1>0. /\ lock \in Locks /\ rec[r] \in Runs /\ rec \in [Recoveries -> Runs]
      /\ guard \subseteq Sessions /\ loud \in BOOLEAN /\ faults \in 0..MaxFaults
  BY TypeMeans
<1> USE DEF RecAt, device
<1>1. /\ AfterEnd = {"end_panel", "end_service", "check", "launcher", "unguard", "quieten", "services", "inspect", "unlock"}
      /\ Teardown = {"unguard", "quieten", "services", "inspect", "unlock"}
      /\ Quieted = {"services", "inspect", "unlock", "launcher"}
  BY DEF AfterEnd, Teardown, Quieted
<1>2. ASSUME NEW pc \in RecoveryPcs, RecGoto(r, pc)
      PROVE  \E x \in Runs : rec' = [rec EXCEPT ![r] = x] /\ x.pc = pc /\ x.failed = rec[r].failed
  <2> DEFINE x == [rec[r] EXCEPT !.pc = pc]
  <2>1. x \in Runs /\ x.pc = pc /\ x.failed = rec[r].failed
    BY <1>0 DEF Runs
  <2>2. rec' = [rec EXCEPT ![r] = x]
    BY <1>2 DEF RecGoto
  <2> HIDE DEF x
  <2>3. QED BY <2>1, <2>2
<1>3. ASSUME NEW pc \in RecoveryPcs, rec' = [rec EXCEPT ![r].pc = pc, ![r].failed = TRUE]
      PROVE  \E x \in Runs : rec' = [rec EXCEPT ![r] = x] /\ x.pc = pc /\ x.failed
  <2> DEFINE x == [rec[r] EXCEPT !.pc = pc, !.failed = TRUE]
  <2>1. x \in Runs /\ x.pc = pc /\ x.failed
    BY <1>0 DEF Runs
  <2>2. rec' = [rec EXCEPT ![r] = x]
    BY <1>3
  <2> HIDE DEF x
  <2>3. QED BY <2>1, <2>2
<1>4. CASE RecExec(r)
  <2>1. PICK x \in Runs : rec' = [rec EXCEPT ![r] = x] /\ x.pc = "read"
    BY <1>2, <1>4, PcNames DEF RecExec
  <2>2. QED BY <1>0, <1>1, <1>4, <2>1, WorksMove DEF RecExec
<1>5. CASE ReadLock(r)
  <2> DEFINE x == [rec[r] EXCEPT !.pc = "end_session", !.pid = lock.pid]
  <2>1. x \in Runs /\ x.pc = "end_session"
    BY <1>0, PcNames DEF Runs, Locks
  <2>2. rec' = [rec EXCEPT ![r] = x]
    BY <1>5 DEF ReadLock
  <2> HIDE DEF x
  <2>3. QED BY <1>0, <1>1, <1>5, <2>1, <2>2, WorksMove DEF ReadLock
<1>6. /\ Ending["session"] = "end_session" /\ Ending["panel"] = "end_panel" /\ Ending["service"] = "end_service"
      /\ Records = {"session", "panel", "service"}
  BY DEF Ending, Records, Helpers
<1>7. CASE EndSession(r)
  BY <1>1, <1>6, <1>7, WorksTerminate DEF EndSession
<1>8. CASE EndPanel(r)
  BY <1>1, <1>6, <1>8, WorksTerminate DEF EndPanel
<1>9. CASE EndService(r)
  BY <1>1, <1>6, <1>9, WorksTerminate DEF EndService
<1>10. CASE CheckProcesses(r)
  <2>1. faults' \in 0..MaxFaults /\ rec[r].pc = "check" /\ UNCHANGED <<broker, journal, lock, sess, device>>
    BY <1>0, <1>10, FaultTypes DEF CheckProcesses
  <2>2. CASE RecFails(r)
    BY <2>1, <2>2, WorksFail
  <2>3. CASE ~HelperRunning /\ \E x \in Runs : rec' = [rec EXCEPT ![r] = x] /\ x.pc = "unguard"
    BY <1>0, <1>1, <2>1, <2>3, WorksMove
  <2>4. QED BY SMTT(30), <1>2, <1>3, <1>10, <2>2, <2>3, PcNames DEF CheckProcesses
<1>11. CASE RecUnguard(r)
  <2>1. /\ faults' \in 0..MaxFaults /\ guard' \subseteq guard
        /\ rec[r].pc = "unguard" /\ UNCHANGED <<broker, journal, lock, sess, loud>>
    BY <1>0, <1>11, FaultTypes DEF RecUnguard, forge_cdp_stop
  <2>2. PICK x \in Runs : rec' = [rec EXCEPT ![r] = x] /\ x.pc = "quieten"
    BY <1>2, <1>11, PcNames DEF RecUnguard
  <2>3. QED BY <1>0, <1>1, <2>1, <2>2, WorksMove
<1>12. CASE RecQuieten(r)
  <2>1. PICK x \in Runs : rec' = [rec EXCEPT ![r] = x] /\ x.pc = "services"
    BY <1>2, <1>12, PcNames DEF RecQuieten
  <2>2. QED BY <1>0, <1>1, <1>12, <2>1, WorksMove DEF RecQuieten
<1>13. CASE RestoreServices(r)
  <2>1. faults' \in 0..MaxFaults /\ rec[r].pc = "services" /\ UNCHANGED <<broker, journal, lock, sess, device>>
    BY <1>0, <1>13, FaultTypes DEF RestoreServices
  <2>2. PICK x \in Runs : rec' = [rec EXCEPT ![r] = x] /\ x.pc = "inspect"
    BY SMTT(30), <1>2, <1>3, <1>13, PcNames DEF RestoreServices
  <2>3. QED BY <1>0, <1>1, <2>1, <2>2, WorksMove
<1>14. CASE InspectRules(r)
  <2> DEFINE x == [rec[r] EXCEPT !.pc = "unlock", !.failed = @ \/ guard # {}]
  <2>1. x \in Runs /\ x.pc = "unlock" /\ (~x.failed => guard = {})
    BY <1>0, PcNames DEF Runs
  <2>2. rec' = [rec EXCEPT ![r] = x]
    BY <1>14 DEF InspectRules
  <2> HIDE DEF x
  <2>3. QED BY <1>0, <1>1, <1>14, <2>1, <2>2, WorksMove DEF InspectRules
<1>15. CASE RecUnlock(r)
  <2>1. rec[r].pc = "unlock" /\ lock' = NoLock /\ UNCHANGED <<broker, journal, sess, device, faults>>
    BY <1>15 DEF RecUnlock
  <2>2. CASE rec[r].failed
    BY <1>0, <1>15, <2>1, <2>2, WorksFail DEF RecUnlock
  <2>3. CASE ~rec[r].failed
    <3>1. PICK x \in Runs : rec' = [rec EXCEPT ![r] = x] /\ x.pc = "launcher"
      BY <1>2, <1>15, <2>3, PcNames DEF RecUnlock
    <3>2. QED BY <1>0, <1>1, <2>1, <2>3, <3>1, WorksMove
  <2>4. QED BY <2>2, <2>3
<1>16. CASE OpenLauncher(r)
  <2>1. faults' \in 0..MaxFaults /\ rec[r].pc = "launcher" /\ UNCHANGED <<broker, journal, lock, sess, device>>
    BY <1>0, <1>16, FaultTypes DEF OpenLauncher
  <2>2. CASE RecFails(r)
    BY <2>1, <2>2, WorksFail
  <2>3. CASE rec' = [rec EXCEPT ![r] = [NoRecovery EXCEPT !.failed = FALSE]]
    <3> DEFINE x == [NoRecovery EXCEPT !.failed = FALSE]
    <3>1. x \in Runs /\ x.pc = "exited"
      BY NoneTypes DEF Runs, NoRecovery
    <3> HIDE DEF x
    <3>2. rec' = [rec EXCEPT ![r] = x]
      BY <2>3 DEF x
    <3>3. QED BY <1>0, <1>1, <2>1, <3>1, <3>2, WorksMove
  <2>4. QED BY <1>16, <2>2, <2>3 DEF OpenLauncher
<1>17. QED BY <1>4, <1>5, <1>7, <1>8, <1>9, <1>10, <1>11, <1>12, <1>13, <1>14, <1>15, <1>16 DEF RecoveryStep

-----------------------------------------------------------------------------
(* The inductive invariant.  At most one session script lives, and it is   *)
(* the broker's child or one that outlived a broker and is named by the    *)
(* lock; at most one recovery lives, always as the broker's child.  So the *)
(* recovery that finds the lock's record dead is alone, and every part of  *)
(* the script that follows can rely on what the parts before have done.    *)

\* IDLE has no child, in memory and on disk.
Children == /\ ~broker.up => broker.child = None /\ broker.state = "IDLE"
            /\ broker.state = "IDLE" \/ journal = "IDLE" => broker.child = None
            /\ \A r \in Recoveries : rec[r].pc # "exited" => broker.child = r

Single == \A s, t \in LiveSessions : s = t

\* A live session is named by the lock once it has written its record, and only
\* one that has set its trap outlives the broker.
Owned(s) == /\ sess[s].pc \in Named => lock.dir /\ lock.pid = s
            /\ sess[s].pc \in Held => "session" \in lock.recs
            /\ broker.child # s => sess[s].pc \in Running \cup Cleaning /\ broker.child \notin Sessions

\* What recovery r has established where it stands, and what its success means.
Stage(r) == /\ rec[r].pc \in AfterEnd => LiveSessions = {}
            /\ rec[r].pc \in Teardown \cup {"launcher"} => ~HelperRunning
            /\ rec[r].pc \in Quieted => ~loud
            /\ rec[r].pc = "launcher" \/ (rec[r].pc = "unlock" /\ ~rec[r].failed) => guard = {}
            /\ rec[r].pc = "launcher" => ~lock.dir
            /\ broker.child = r /\ rec[r].pc = "exited" /\ ~rec[r].failed => Restored

Inv == /\ TypeOK /\ Children /\ Single
       /\ \A s \in LiveSessions : Owned(s)
       /\ \A r \in Recoveries : Stage(r)
       /\ IdleMeansRestored

\* TypeOK after a step, with its sets named.
LEMMA TypeNow ==
  ASSUME /\ broker' \in Brokers /\ journal' \in States /\ lock' \in Locks
         /\ sess' \in [Sessions -> Scripts] /\ rec' \in [Recoveries -> Runs]
         /\ guard' \subseteq Sessions /\ loud' \in BOOLEAN /\ faults' \in 0..MaxFaults
  PROVE  TypeOK'
BY DEF TypeOK, Brokers, Locks, Scripts, Runs, Statuses

\* Where scripts and helpers only end, what was quiet stays quiet.
LEMMA Quelled ==
  ASSUME \A s \in Sessions : /\ sess'[s].pc \in {sess[s].pc, "exited"}
                             /\ \A k \in Helpers : sess[s][k] = "none" => sess'[s][k] = "none"
  PROVE  /\ LiveSessions' \subseteq LiveSessions /\ (~HelperRunning => ~HelperRunning')
         /\ \A s \in LiveSessions' : sess'[s].pc = sess[s].pc
BY DEF LiveSessions, HelperRunning, HelpersOf

\* While a session lives nothing is restored and no recovery has gone past it.
LEMMA LiveSession ==
  ASSUME Inv, NEW s \in LiveSessions
  PROVE  /\ ~Restored /\ journal # "IDLE" /\ ~(broker.up /\ broker.state = "IDLE")
         /\ \A r \in Recoveries : /\ rec[r].pc \notin AfterEnd
                                  /\ ~(broker.child = r /\ rec[r].pc = "exited" /\ ~rec[r].failed)
BY DEF Inv, Stage, Restored, IdleMeansRestored

\* Where teardown and its end stand in the script.
LEMMA StagesAfter == /\ Teardown \subseteq AfterEnd /\ Quieted \subseteq AfterEnd
                     /\ "launcher" \in AfterEnd /\ "unlock" \in AfterEnd
                     /\ "exited" \notin AfterEnd /\ "exec" \notin AfterEnd
BY DEF AfterEnd, Teardown, Quieted

\* A recovery that is not past the session and has not succeeded claims nothing.
LEMMA StageBegins ==
  ASSUME NEW r \in Recoveries, rec'[r].pc \notin AfterEnd,
         ~(broker'.child = r /\ rec'[r].pc = "exited" /\ ~rec'[r].failed)
  PROVE  Stage(r)'
BY StagesAfter DEF Stage

\* A session's steps keep the invariant.
LEMMA SessionKeeps ==
  ASSUME Inv, NEW s \in Sessions, SessionStep(s)
  PROVE  Inv'
<1>1. sess[s].pc \in Named => lock.dir
  BY DEF Inv, Owned, LiveSessions, Named, Held, Running, Cleaning
<1>2. Follows(s) /\ TypeOK
  BY <1>1, SessionFollows DEF Inv
<1>3. s \in LiveSessions /\ broker' = broker /\ journal' = journal /\ rec' = rec
  BY <1>2 DEF Follows, Others, LiveSessions
<1>4. TypeOK'
  BY <1>2, <1>3, TypeMeans, TypeNow DEF Follows
<1>5. LiveSessions' \subseteq {s}
  BY <1>2, <1>3 DEF Follows, LiveSessions, Inv, Single
<1>6. ASSUME s \in LiveSessions' PROVE Owned(s)'
  <2>1. Owned(s) /\ sess'[s].pc # "exited"
    BY <1>3, <1>6 DEF Inv, LiveSessions
  <2>2. QED BY <1>2, <1>3, <2>1 DEF Follows, Owned, Named
<1>7. \A r \in Recoveries : Stage(r)'
  BY <1>3, LiveSession, StageBegins
<1>8. Children' /\ IdleMeansRestored'
  BY <1>3, LiveSession DEF Inv, Children, IdleMeansRestored
<1>9. QED BY <1>4, <1>5, <1>6, <1>7, <1>8 DEF Inv, Single

\* The end of a helper keeps the invariant.
LEMMA HelperKeeps ==
  ASSUME Inv, NEW s \in Sessions, NEW k \in Helpers, HelperEnds(s, k)
  PROVE  Inv'
<1>1. TypeOK /\ sess \in [Sessions -> Scripts]
  BY TypeMeans DEF Inv
<1>2. /\ UNCHANGED <<broker, journal, rec, lock, guard, loud, faults>>
      /\ sess' = [sess EXCEPT ![s][k] = "none"]
  BY DEF HelperEnds, Others, device
<1>3. /\ sess' \in [Sessions -> Scripts]
      /\ \A t \in Sessions : /\ sess'[t].pc = sess[t].pc
                             /\ \A h \in Helpers : sess[t][h] = "none" => sess'[t][h] = "none"
  BY <1>1, <1>2 DEF Scripts, Statuses, Helpers
<1>4. TypeOK'
  BY <1>1, <1>2, <1>3, TypeMeans, TypeNow
<1>5. LiveSessions' = LiveSessions /\ (~HelperRunning => ~HelperRunning')
  BY <1>3, Quelled DEF LiveSessions
<1>6. Restored => Restored'
  BY <1>2, <1>5 DEF Restored
<1>7. \A t \in LiveSessions' : Owned(t)'
  BY <1>2, <1>3, <1>5 DEF Inv, Owned, LiveSessions
<1>8. ASSUME NEW r \in Recoveries PROVE Stage(r)'
  <2>1. Stage(r)
    BY DEF Inv
  <2>2. QED BY <1>2, <1>5, <1>6, <2>1 DEF Stage
<1>9. Children' /\ Single' /\ IdleMeansRestored'
  BY <1>2, <1>5, <1>6 DEF Inv, Children, Single, IdleMeansRestored
<1>10. QED BY <1>4, <1>7, <1>8, <1>9 DEF Inv

\* A recovery's steps keep the invariant.
LEMMA RecoveryKeeps ==
  ASSUME Inv, NEW r \in Recoveries, RecoveryStep(r)
  PROVE  Inv'
<1>1. Works(r) /\ TypeOK
  BY RecoveryWorks DEF Inv
<1>2. /\ broker.child = r /\ broker' = broker /\ journal' = journal /\ r # None /\ r \notin Sessions
      /\ rec[r].pc # "exited" /\ Stage(r)
  BY <1>1, PidsAssumption DEF Works, Inv, Children
<1>3. TypeOK'
  BY <1>1, TypeMeans, TypeNow DEF Works
<1>4. /\ LiveSessions' \subseteq LiveSessions /\ (~HelperRunning => ~HelperRunning')
      /\ \A s \in LiveSessions' : sess'[s].pc = sess[s].pc
  BY <1>1, Quelled DEF Works
<1>5. \A q \in Recoveries \ {r} : rec'[q] = rec[q] /\ rec'[q].pc = "exited"
  BY <1>1, <1>2 DEF Works, Inv, Children
<1>6. Children' /\ Single' /\ IdleMeansRestored'
  BY <1>1, <1>2, <1>4, <1>5 DEF Inv, Children, Single, IdleMeansRestored
<1>7. ASSUME NEW s \in LiveSessions' PROVE Owned(s)'
  <2>1. s \in LiveSessions /\ sess'[s].pc = sess[s].pc /\ Owned(s)
    BY <1>4, <1>7 DEF Inv
  <2>2. lock' = lock
    BY <1>1, <2>1, <1>2, StagesAfter DEF Works, Stage
  <2>3. QED BY <1>2, <2>1, <2>2 DEF Owned
<1>8. ASSUME rec'[r].pc \in AfterEnd PROVE LiveSessions' = {}
  <2>1. CASE rec[r].pc \in AfterEnd
    BY <1>2, <1>4, <2>1 DEF Stage
  <2>2. ASSUME NEW s \in LiveSessions' PROVE s = lock.pid /\ record_alive("session") /\ sess'[lock.pid].pc # "exited"
    <3>1. s \in LiveSessions /\ sess'[s].pc # "exited" /\ s \in Sessions
      BY <1>4, <2>2 DEF LiveSessions
    <3>2. sess[s].pc \in Held /\ sess[s].pc \in Named
      BY <1>2, <3>1 DEF Inv, Owned, Held, Named
    <3>3. lock.pid = s /\ "session" \in lock.recs /\ sess[s].pc # "exited"
      BY <3>1, <3>2 DEF Inv, Owned, LiveSessions
    <3>4. QED BY <3>1, <3>3, PidsAssumption DEF record_alive
  <2>3. QED BY <1>1, <1>8, <2>1, <2>2 DEF Works
<1>9. Stage(r)'
  <2>1. rec'[r].pc \in Teardown \cup {"launcher"} => ~HelperRunning'
    BY <1>1, <1>2, <1>4 DEF Works, Stage
  <2>2. rec'[r].pc \in Quieted => ~loud'
    BY <1>1, <1>2 DEF Works, Stage
  <2>3. rec'[r].pc = "launcher" \/ (rec'[r].pc = "unlock" /\ ~rec'[r].failed) => guard' = {}
    BY <1>1, <1>2 DEF Works, Stage
  <2>4. rec'[r].pc = "launcher" => ~lock'.dir
    BY <1>1 DEF Works, NoLock
  <2>5. ASSUME rec'[r].pc = "exited", ~rec'[r].failed PROVE Restored'
    <3>1. rec[r].pc = "launcher" /\ guard' \subseteq guard /\ (loud' => loud) /\ lock' = lock
      BY <1>1, <2>5 DEF Works
    <3>2. LiveSessions = {} /\ ~HelperRunning /\ guard = {} /\ ~loud /\ ~lock.dir
      BY <1>2, <3>1, StagesAfter DEF Stage, Quieted
    <3>3. QED BY <1>4, <3>1, <3>2 DEF Restored
  <2>6. QED BY <1>8, <2>1, <2>2, <2>3, <2>4, <2>5 DEF Stage
<1>10. ASSUME NEW q \in Recoveries, q # r PROVE Stage(q)'
  BY <1>2, <1>5, <1>10, StageBegins, StagesAfter
<1>11. QED BY <1>3, <1>6, <1>7, <1>9, <1>10 DEF Inv

-----------------------------------------------------------------------------
(* Steps of the broker.                                                    *)

\* A signal to the child.
LEMMA ToldKeeps ==
  ASSUME Inv, Told, UNCHANGED <<lock, device>>
  PROVE  /\ LiveSessions' \subseteq LiveSessions /\ Single'
         /\ \A s \in LiveSessions' : sess'[s].pc = sess[s].pc
         /\ Restored => Restored'
         /\ \A r \in Recoveries : \/ rec'[r].pc = "exited" /\ rec'[r].failed
                                  \/ rec'[r] = rec[r] /\ (broker'.child \in {broker.child, None} => Stage(r)')
<1>1. /\ LiveSessions' \subseteq LiveSessions /\ (~HelperRunning => ~HelperRunning')
      /\ \A s \in LiveSessions' : sess'[s].pc = sess[s].pc
  BY Quelled DEF Told
<1>2. Restored => Restored'
  BY <1>1 DEF Restored, device
<1>3. ASSUME NEW r \in Recoveries, rec'[r] = rec[r], broker'.child \in {broker.child, None} PROVE Stage(r)'
  <2>1. Stage(r) /\ r # None
    BY PidsAssumption DEF Inv
  <2>2. QED BY <1>1, <1>2, <1>3, <2>1 DEF Stage, device
<1>4. \A r \in Recoveries : rec'[r] = rec[r] \/ (rec'[r].pc = "exited" /\ rec'[r].failed)
  BY DEF Told, NoRecovery
<1>5. QED BY <1>1, <1>2, <1>3, <1>4 DEF Inv, Single

\* The broker stays and so does its child.
LEMMA SignalKeeps ==
  ASSUME Inv, TypeOK', Told, UNCHANGED <<lock, device>>,
         broker'.child = broker.child, broker'.up = broker.up,
         broker.child # None \/ (broker'.state = broker.state /\ journal' = journal),
         broker'.state = "IDLE" => broker.state = "IDLE", journal' = "IDLE" => journal = "IDLE",
         ~broker.up => broker'.state = "IDLE"
  PROVE  Inv'
<1>1. /\ LiveSessions' \subseteq LiveSessions /\ Single'
      /\ \A s \in LiveSessions' : sess'[s].pc = sess[s].pc
      /\ Restored => Restored'
      /\ \A r \in Recoveries : \/ rec'[r].pc = "exited" /\ rec'[r].failed
                               \/ rec'[r] = rec[r] /\ Stage(r)'
  BY ToldKeeps
<1>2. \A s \in LiveSessions' : Owned(s)'
  BY <1>1 DEF Inv, Owned
<1>3. \A r \in Recoveries : Stage(r)'
  BY <1>1, StageBegins, StagesAfter
<1>4. Children'
  BY <1>1 DEF Inv, Children
<1>5. IdleMeansRestored'
  BY <1>1 DEF Inv, IdleMeansRestored
<1>6. QED BY <1>1, <1>2, <1>3, <1>4, <1>5 DEF Inv

\* The broker dies under its child.
LEMMA DownKeeps ==
  ASSUME Inv, TypeOK', Down, Orphan, UNCHANGED <<journal, lock, device>>
  PROVE  Inv'
<1>0. TypeOK /\ broker \in Brokers
  BY TypeMeans DEF Inv
<1>1. /\ Told
      /\ broker.child \in Sessions => sess'[broker.child].pc \in {"exited"} \cup Running \cup Cleaning
      /\ broker.child \in Recoveries => rec'[broker.child].pc = "exited"
  BY <1>0, OrphanTells
<1>2. broker'.child = None /\ ~broker'.up /\ broker'.state = "IDLE" /\ None \notin Sessions \cup Recoveries
  BY PidsAssumption DEF Down
<1>3. /\ LiveSessions' \subseteq LiveSessions /\ Single'
      /\ \A s \in LiveSessions' : sess'[s].pc = sess[s].pc
      /\ Restored => Restored'
      /\ \A r \in Recoveries : \/ rec'[r].pc = "exited" /\ rec'[r].failed
                               \/ rec'[r] = rec[r] /\ Stage(r)'
  BY <1>1, <1>2, ToldKeeps
<1>4. ASSUME NEW s \in LiveSessions' PROVE Owned(s)'
  <2>1. s \in LiveSessions /\ s \in Sessions /\ sess'[s].pc = sess[s].pc /\ Owned(s) /\ sess'[s].pc # "exited"
    BY <1>3, <1>4 DEF Inv, LiveSessions
  <2>2. sess'[s].pc \in Running \cup Cleaning
    BY <1>1, <2>1 DEF Owned
  <2>3. QED BY <1>2, <2>1, <2>2 DEF Owned
<1>5. \A r \in Recoveries : Stage(r)'
  BY <1>3, StageBegins, StagesAfter
<1>6. \A r \in Recoveries : rec'[r].pc = "exited"
  BY <1>1 DEF Told, Inv, Children, NoRecovery
<1>7. Children' /\ IdleMeansRestored'
  BY <1>2, <1>3, <1>6 DEF Children, IdleMeansRestored, Inv
<1>8. QED BY <1>3, <1>4, <1>5, <1>7 DEF Inv

\* A recovery is launched while no script is the broker's live child.
LEMMA RecoverKeeps ==
  ASSUME Inv, TypeOK', NEW b \in Brokers, LaunchRecovery(b), b.up, UNCHANGED <<lock, device>>,
         \A s \in LiveSessions : sess[s].pc \in Running \cup Cleaning,
         \A r \in Recoveries : rec[r].pc = "exited"
  PROVE  Inv'
<1>1. TypeOK /\ rec \in [Recoveries -> Runs] /\ None \notin Sessions \cup Recoveries /\ Sessions \cap Recoveries = {}
  BY TypeMeans, PidsAssumption DEF Inv
<1>2. /\ sess' = sess /\ Launches("RECOVERING", b, FreeRecoveries)
      /\ broker'.child # None =>
              rec' = [rec EXCEPT ![broker'.child] = [NoRecovery EXCEPT !.pc = "exec", !.failed = FALSE]]
  BY <1>1, LaunchRecoveryTypes
<1>3. broker'.up /\ broker'.state # "IDLE" /\ broker'.child \in Recoveries \cup {None}
  BY <1>2 DEF Launches, FreeRecoveries
<1>4. LiveSessions' = LiveSessions /\ Restored' = Restored
  BY <1>2 DEF LiveSessions, Restored, HelperRunning, HelpersOf, device
<1>5. ASSUME NEW s \in LiveSessions' PROVE Owned(s)'
  <2>1. s \in LiveSessions /\ Owned(s) /\ sess[s].pc \in Running \cup Cleaning
    BY <1>4, <1>5 DEF Inv
  <2>2. broker'.child \notin Sessions
    BY <1>1, <1>3
  <2>3. QED BY <1>2, <2>1, <2>2 DEF Owned
<1>6. CASE broker'.child \in Recoveries
  <2>1. journal' = "RECOVERING"
    BY <1>1, <1>2, <1>6 DEF Launches
  <2>2. /\ rec'[broker'.child].pc = "exec"
        /\ \A r \in Recoveries \ {broker'.child} : rec'[r] = rec[r] /\ rec'[r].pc = "exited"
    <3> DEFINE x == [NoRecovery EXCEPT !.pc = "exec", !.failed = FALSE]
    <3>1. x.pc = "exec"
      BY DEF NoRecovery
    <3>2. rec' = [rec EXCEPT ![broker'.child] = x]
      BY <1>1, <1>2, <1>6
    <3> HIDE DEF x
    <3>3. QED BY <1>1, <1>6, <3>1, <3>2
  <2>3. \A r \in Recoveries : Stage(r)'
    BY <2>2, StageBegins, StagesAfter
  <2>4. Children' /\ IdleMeansRestored'
    BY <1>3, <2>1, <2>2 DEF Children, IdleMeansRestored
  <2>5. QED BY <1>4, <1>5, <2>3, <2>4 DEF Inv, Single
<1>7. CASE broker'.child = None
  <2>1. rec' = rec /\ journal' \in {journal, "RECOVERING", "FAILED"}
    BY <1>1, <1>2, <1>7 DEF Launches, FreeRecoveries
  <2>2. \A r \in Recoveries : Stage(r)'
    BY <1>1, <1>7, <2>1, StageBegins, StagesAfter
  <2>3. Children' /\ IdleMeansRestored'
    BY <1>3, <1>4, <1>7, <2>1 DEF Inv, Children, IdleMeansRestored
  <2>4. QED BY <1>4, <1>5, <2>2, <2>3 DEF Inv, Single
<1>8. QED BY <1>3, <1>6, <1>7

\* START finds a restored device and begins the only session.
LEMMA StartKeeps == ASSUME Inv, TypeOK', RequestStart PROVE Inv'
<1>1. /\ TypeOK /\ broker \in Brokers /\ sess \in [Sessions -> Scripts] /\ None \notin Sessions \cup Recoveries
      /\ Sessions \cap Recoveries = {}
  BY TypeMeans, PidsAssumption DEF Inv
<1>2. /\ rec' = rec /\ Launches("STARTING", broker, FreeSessions)
      /\ broker'.child # None => sess' = [sess EXCEPT ![broker'.child] = [NoSession EXCEPT !.pc = "exec"]]
      /\ UNCHANGED <<lock, device>> /\ broker.up /\ broker.state = "IDLE" /\ broker.child = None
  BY <1>1, LaunchSessionTypes DEF RequestStart, Serving
<1>3. broker'.up /\ broker'.state # "IDLE" /\ broker'.child \in Sessions \cup {None}
  BY <1>2 DEF Launches, FreeSessions
<1>4. LiveSessions = {} /\ \A r \in Recoveries : rec[r].pc = "exited"
  BY <1>1, <1>2 DEF Inv, IdleMeansRestored, Restored, Children
<1>5. \A r \in Recoveries : Stage(r)'
  BY <1>1, <1>2, <1>3, <1>4, StageBegins, StagesAfter
<1>6. CASE broker'.child \in Sessions
  <2>1. journal' = "STARTING"
    BY <1>1, <1>2, <1>6 DEF Launches
  <2>2. /\ sess'[broker'.child].pc = "exec" /\ \A s \in Sessions \ {broker'.child} : sess'[s] = sess[s]
    BY <1>1, <1>2, <1>6 DEF NoSession
  <2>3. LiveSessions' \subseteq {broker'.child}
    BY <1>4, <2>2 DEF LiveSessions
  <2>4. \A s \in LiveSessions' : Owned(s)'
    BY <2>2, <2>3 DEF Owned, Named, Held, Running, Cleaning
  <2>5. Children' /\ IdleMeansRestored'
    BY <1>2, <1>3, <1>4, <2>1 DEF Children, IdleMeansRestored
  <2>6. QED BY <1>5, <2>3, <2>4, <2>5 DEF Inv, Single
<1>7. CASE broker'.child = None
  <2>1. sess' = sess /\ journal' \in {journal, "STARTING", "FAILED"}
    BY <1>1, <1>2, <1>7 DEF Launches, FreeSessions
  <2>2. LiveSessions' = LiveSessions /\ Restored' = Restored
    BY <1>2, <2>1 DEF LiveSessions, Restored, HelperRunning, HelpersOf, device
  <2>3. Children' /\ IdleMeansRestored'
    BY <1>2, <1>3, <1>4, <1>7, <2>1, <2>2 DEF Inv, Children, IdleMeansRestored
  <2>4. QED BY <1>4, <1>5, <2>2, <2>3 DEF Inv, Single
<1>8. QED BY <1>3, <1>6, <1>7

\* The end of a recovery decides the state, that of a session starts one.
LEMMA ReapKeeps == ASSUME Inv, TypeOK', Reap PROVE Inv'
<1>1. /\ TypeOK /\ broker \in Brokers /\ None \notin Sessions \cup Recoveries /\ Sessions \cap Recoveries = {}
  BY TypeMeans, PidsAssumption DEF Inv
<1>2. Reaped \in Brokers /\ Reaped.child = None /\ Reaped.up = broker.up
  BY <1>1 DEF Reaped, Brokers
<1>3. broker.up /\ UNCHANGED <<lock, device>>
  BY DEF Reap
<1>4. CASE /\ broker.child \in Recoveries /\ rec[broker.child].pc = "exited"
           /\ save_state(IF rec[broker.child].failed THEN "FAILED" ELSE "IDLE", Reaped)
           /\ UNCHANGED <<sess, rec>>
  <2>1. /\ broker' = [Reaped EXCEPT !.state = broker'.state]
        /\ \/ /\ broker'.state = IF rec[broker.child].failed THEN "FAILED" ELSE "IDLE"
              /\ journal' = IF rec[broker.child].failed THEN "FAILED" ELSE "IDLE"
           \/ broker'.state = "FAILED" /\ journal' = journal
    <3>1. (IF rec[broker.child].failed THEN "FAILED" ELSE "IDLE") \in States
      BY DEF States
    <3>2. QED BY <1>1, <1>2, <1>4, <3>1, SaveTypes
  <2>2. broker'.child = None /\ broker'.up
    BY <1>2, <1>3, <2>1 DEF Brokers
  <2>3. Stage(broker.child) /\ journal # "IDLE" /\ broker.child \notin Sessions
    BY <1>1, <1>4 DEF Inv, Children
  <2>4. broker'.state = "IDLE" \/ journal' = "IDLE" => Restored
    BY <1>4, <2>1, <2>3 DEF Stage
  <2>5. LiveSessions' = LiveSessions /\ Restored' = Restored
    BY <1>3, <1>4 DEF LiveSessions, Restored, HelperRunning, HelpersOf, device
  <2>6. \A r \in Recoveries : rec'[r].pc = "exited"
    BY <1>4 DEF Inv, Children
  <2>7. \A r \in Recoveries : Stage(r)'
    BY <1>1, <2>2, <2>6, StageBegins, StagesAfter
  <2>8. \A s \in LiveSessions' : Owned(s)'
    BY <1>1, <1>3, <1>4, <2>2, <2>3, <2>5 DEF Inv, Owned, LiveSessions
  <2>9. Children' /\ IdleMeansRestored'
    BY <2>2, <2>4, <2>5, <2>6 DEF Children, IdleMeansRestored
  <2>10. QED BY <2>5, <2>7, <2>8, <2>9 DEF Inv, Single
<1>5. CASE broker.child \in Sessions /\ sess[broker.child].pc = "exited" /\ LaunchRecovery(Reaped)
  <2>1. LiveSessions = {}
    BY <1>5 DEF Inv, Owned, LiveSessions
  <2>2. \A r \in Recoveries : rec[r].pc = "exited"
    BY <1>1, <1>5 DEF Inv, Children
  <2>3. QED BY <1>2, <1>3, <1>5, <2>1, <2>2, RecoverKeeps
<1>6. QED BY <1>4, <1>5 DEF Reap, Reaped

\* The broker's steps, its deaths and a reboot keep the invariant.
LEMMA BrokerKeeps ==
  ASSUME Inv, BrokerStep \/ RequestStart \/ RequestStop \/ Terminate \/ Crash \/ Reboot
  PROVE  Inv'
<1>0. /\ TypeOK /\ broker \in Brokers /\ sess \in [Sessions -> Scripts] /\ rec \in [Recoveries -> Runs]
      /\ None \notin Sessions \cup Recoveries /\ Sessions \cap Recoveries = {}
  BY TypeMeans, PidsAssumption DEF Inv
<1>1. TypeOK'
  BY <1>0, BrokerTypes
<1>2. ASSUME broker.child = None
      PROVE  /\ \A s \in LiveSessions : sess[s].pc \in Running \cup Cleaning
             /\ \A r \in Recoveries : rec[r].pc = "exited"
  BY <1>0, <1>2 DEF Inv, Owned, Children, LiveSessions
<1>3. CASE Boot
  <2>1. broker.child = None /\ Booted \in Brokers /\ Booted.up /\ UNCHANGED <<lock, device>>
    BY <1>0, <1>3 DEF Boot, Inv, Children, Booted, Brokers, States
  <2>2. CASE LaunchRecovery(Booted)
    BY <1>1, <1>2, <2>1, <2>2, RecoverKeeps
  <2>3. CASE journal = "IDLE" /\ broker' = Booted /\ UNCHANGED <<journal, sess, rec, faults>>
    <3>1. broker'.child = None /\ broker'.up
      BY <2>3 DEF Booted
    <3>2. Restored /\ Restored' /\ LiveSessions = {} /\ LiveSessions' = {}
      BY <2>1, <2>3 DEF Inv, IdleMeansRestored, Restored, LiveSessions, HelperRunning, HelpersOf, device
    <3>3. \A r \in Recoveries : rec'[r].pc = "exited"
      BY <1>2, <2>1, <2>3
    <3>4. \A r \in Recoveries : Stage(r)'
      BY <1>0, <3>1, <3>3, StageBegins, StagesAfter
    <3>5. QED BY <1>1, <3>1, <3>2, <3>3, <3>4 DEF Inv, Children, Single, IdleMeansRestored
  <2>4. QED BY <1>3, <2>2, <2>3 DEF Boot, Booted
<1>4. UNCHANGED <<sess, rec>> => Told
  BY <1>0 DEF Told
<1>5. ASSUME broker.up, broker.child # None, NEW next \in States, next # "IDLE", save_state(next, broker),
             Told, UNCHANGED <<lock, device>>
      PROVE  Inv'
  <2>1. /\ broker' = [broker EXCEPT !.state = broker'.state]
        /\ \/ broker'.state = next /\ journal' = next
           \/ broker'.state = "FAILED" /\ journal' = journal
    BY <1>0, <1>5, SaveTypes
  <2>2. broker'.child = broker.child /\ broker'.up = broker.up
    BY <1>0, <2>1 DEF Brokers
  <2>3. QED BY <1>1, <1>5, <2>1, <2>2, SignalKeeps
<1>6. CASE SeeReady
  <2>1. "RUNNING" \in States BY DEF States
  <2>2. QED BY <1>0, <1>4, <1>5, <1>6, <2>1 DEF SeeReady, Serving
<1>7. CASE Reap
  BY <1>1, <1>7, ReapKeeps
<1>8. CASE Timeout
  <2>1. Told
    BY <1>0, <1>8, KillTells DEF Timeout
  <2>2. QED BY <1>1, <1>8, <2>1, SignalKeeps DEF Timeout, Serving
<1>9. CASE ShutDown
  BY <1>1, <1>9, DownKeeps DEF ShutDown
<1>10. CASE RequestStart
  BY <1>1, <1>10, StartKeeps
<1>11. CASE RequestStop
  <2>1. broker.up /\ UNCHANGED <<lock, device>>
    BY <1>11 DEF RequestStop, Serving
  <2>2. CASE broker.child \in Sessions /\ save_state("STOPPING", broker) /\ Told
    <3>1. "STOPPING" \in States BY DEF States
    <3>2. QED BY <1>0, <1>5, <2>1, <2>2, <3>1
  <2>3. CASE broker.child = None /\ LaunchRecovery(broker)
    BY <1>0, <1>1, <1>2, <2>1, <2>3, RecoverKeeps
  <2>4. QED BY <1>0, <1>4, <1>11, <2>2, <2>3, TermTells DEF RequestStop
<1>12. CASE Terminate
  <2>1. Told
    BY <1>0, <1>12, TermTells DEF Terminate
  <2>2. broker'.child = broker.child /\ broker'.up = broker.up /\ broker'.state = broker.state
    BY <1>0, <1>12 DEF Terminate, Brokers
  <2>3. QED BY <1>1, <1>12, <2>1, <2>2, SignalKeeps DEF Terminate, Serving
<1>13. CASE Crash
  BY <1>1, <1>13, DownKeeps DEF Crash
<1>14. CASE Reboot
  <2>1. /\ broker'.child = None /\ ~broker'.up /\ broker'.state = "IDLE" /\ journal' = journal /\ lock' = lock
        /\ \A s \in Sessions : sess'[s] = NoSession
        /\ \A r \in Recoveries : rec'[r] = NoRecovery
        /\ guard' = {} /\ ~loud'
    BY <1>14 DEF Reboot, Down
  <2>2. LiveSessions' = {} /\ ~HelperRunning'
    BY <2>1 DEF LiveSessions, HelperRunning, HelpersOf, Helpers, NoSession
  <2>3. \A r \in Recoveries : rec'[r].pc = "exited" /\ rec'[r].failed
    BY <2>1 DEF NoRecovery
  <2>4. \A r \in Recoveries : Stage(r)'
    BY <2>3, StageBegins, StagesAfter
  <2>5. Children' /\ IdleMeansRestored'
    BY <2>1, <2>2, <2>3 DEF Inv, Children, IdleMeansRestored, Restored
  <2>6. QED BY <1>1, <2>2, <2>4, <2>5 DEF Inv, Single
<1>15. QED BY <1>3, <1>6, <1>7, <1>8, <1>9, <1>10, <1>11, <1>12, <1>13, <1>14 DEF BrokerStep

-----------------------------------------------------------------------------
(* The theorems.                                                           *)

\* The invariant holds in every run of broker, scripts and helpers (sessiond.c,
\* forge-session.sh, forge-recover.sh), whatever dies, fails or hangs.
THEOREM Invariant == Spec => []Inv
<1>1. Init => Inv
  <2> SUFFICES ASSUME Init PROVE Inv
    OBVIOUS
  <2>1. TypeOK
    <3>1. broker \in Brokers /\ journal \in States
      BY DEF Init, Brokers, States
    <3>2. sess \in [Sessions -> Scripts] /\ rec \in [Recoveries -> Runs] /\ lock \in Locks
      BY NoneTypes DEF Init
    <3>3. guard \subseteq Sessions /\ loud \in BOOLEAN
      BY DEF Init
    <3>4. faults = 0 /\ MaxFaults \in Nat
      BY FaultsAssumption DEF Init
    <3>5. faults \in 0..MaxFaults
      BY <3>4
    <3>6. QED BY <3>1, <3>2, <3>3, <3>5, TypeMeans
  <2>2. LiveSessions = {} /\ ~HelperRunning /\ \A r \in Recoveries : rec[r].pc = "exited"
    BY DEF Init, LiveSessions, HelperRunning, HelpersOf, Helpers, NoSession, NoRecovery
  <2>3. Restored
    BY <2>2 DEF Init, Restored, NoLock
  <2>4. Children
    BY <2>2 DEF Init, Children
  <2>5. \A r \in Recoveries : Stage(r)
    BY <2>2, <2>3, StagesAfter DEF Stage
  <2>6. QED BY <2>1, <2>2, <2>3, <2>4, <2>5 DEF Inv, Single, IdleMeansRestored
<1>2. Inv /\ [Next]_vars => Inv'
  <2> SUFFICES ASSUME Inv, [Next]_vars PROVE Inv'
    OBVIOUS
  <2>1. CASE UNCHANGED vars
    BY <2>1 DEF vars, device, Inv, TypeOK, Children, Single, Owned, Stage, IdleMeansRestored, Restored,
                LiveSessions, HelperRunning, HelpersOf
  <2>2. CASE Next
    BY <2>2, BrokerKeeps, SessionKeeps, HelperKeeps, RecoveryKeeps DEF Next
  <2>3. QED BY <2>1, <2>2
<1>3. QED BY <1>1, <1>2, PTL DEF Spec

\* The memory of sessiond.c, its journal, the lock and the scripts keep their
\* types.
THEOREM TypeCorrect == Spec => []TypeOK
<1>1. Inv => TypeOK
  BY DEF Inv
<1>2. QED BY <1>1, Invariant, PTL

\* IDLE, in the broker's memory and in its journal, means a restored device
\* (sessiond.c:217: "Even a graceful session must prove restoration before
\* IDLE"), wherever broker, session and recovery are interrupted.
THEOREM IdleTheorem == Spec => []IdleMeansRestored
<1>1. Inv => IdleMeansRestored
  BY DEF Inv
<1>2. QED BY <1>1, Invariant, PTL

\* When forge-recover.sh tears a session down no session script and no helper is
\* left that could bring it up again.
THEOREM AloneTheorem == Spec => []RecoveryIsAlone
<1>1. Inv => RecoveryIsAlone
  BY StagesAfter DEF Inv, Stage, RecoveryIsAlone
<1>2. QED BY <1>1, Invariant, PTL

=============================================================================
