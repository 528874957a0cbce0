------------------------------- MODULE Intake -------------------------------
(***************************************************************************)
(* From an attached device to its session on disk: the watchers, the       *)
(* synchronous event bus, SessionManager.create_or_resume and the writes   *)
(* of session-state.json, device-profile.json and user-profile.json, one   *)
(* file operation per step, with crashes between any two of them.          *)
(*                                                                         *)
(* device-profile.json and user-profile.json are written in place: from    *)
(* opening to writing they are "torn".  session-state.json is written to   *)
(* one fixed temporary name and renamed.  user-profile.json stands for     *)
(* os-goals.json and destructive-approval.json too, which are written and  *)
(* loaded the same way.  An exception in a handler ends the watcher's      *)
(* thread, because nothing on the way catches it.                          *)
(*                                                                         *)
(* dirs, profile, state, staging and user are on disk; call, seen and      *)
(* alive are the process; saved and crashed are history.                   *)
(***************************************************************************)
EXTENDS Integers, Sequences, FiniteSets, SessionStates

CONSTANTS Events,      \* what the watchers may see: records of EventTypes
          MaxDays,     \* bound on the days, which are part of session names
          MaxInFlight, \* bound on the calls that overlap
          MaxCrashes   \* bound on crashes

Transports == {"usb-adb", "usb-fastboot", "usb-fastbootd", "usb-recovery", "usb-mtp", "unknown"}
EventTypes == [watcher : {"usb", "adb", "fastboot"}, maker : STRING, model : STRING,
               serial : STRING, transport : Transports \cup {"usb-unknown"}]

ASSUME EventsAssumption ==
  /\ Events \subseteq EventTypes
  /\ \A e \in Events : (e.transport = "usb-unknown") => e.watcher = "usb"
  /\ \A e \in Events : e.watcher = "usb" => e.transport \in {"usb-mtp", "usb-unknown"}
\* All USB events have one model, which no phone gives as its own; their maker
\* comes with the vendor number, which is in the serial that is made up.
ASSUME UsbAssumption ==
  \A e, f \in Events : e.watcher = "usb" =>
    /\ f.model = e.model => f.watcher = "usb"
    /\ f.serial = e.serial => f.maker = e.maker /\ f.model = e.model
ASSUME BoundsAssumption == MaxDays \in Nat /\ MaxInFlight \in Nat /\ MaxCrashes \in Nat

Watchers == {e.watcher : e \in Events}
Threads  == Watchers \cup {"gui"}
Days     == 0..MaxDays

\* build_fingerprint and canonical_session_name: everything that identifies
\* the device, the transport included, and today's date.
Names      == Events \X Days
NoName     == <<>>
Name(e, d) == <<e, d>>
NoEvent    == [watcher |-> "none"]

\* The USB watcher has no serial number and makes one up: usb-<vendor>-<product>.
Coarse(serial, e) == e.watcher = "usb" /\ serial = e.serial
IsCoarse(serial)  == \E e \in Events : Coarse(serial, e)

VARIABLES attached, \* what the host shows now
          fresh,    \* of those, what no watcher has published since it came
          day,
          dirs,     \* directories under devices/
          profile,  \* device-profile.json: NoProfile, TornProfile or an identity
          state,    \* session-state.json: "none", "torn" or a state
          staging,  \* session-state.json.tmp
          user,     \* user-profile.json: "none", "torn", "default" or "saved"
          seen,     \* per watcher: published signatures
          alive,    \* per watcher: its thread runs
          call,     \* per thread: the locals of its call
          saved,    \* history: sessions whose form was saved completely
          crashed   \* history: number of crashes

\* A file that json.loads cannot read: not there, or opened and not yet written.
NoProfile   == [file |-> "none"]
TornProfile == [file |-> "torn"]
Unreadable  == {"none", "torn"}

disk == <<dirs, profile, state, staging, user>>
vars == <<attached, fresh, day, disk, seen, alive, call, saved, crashed>>

Idle == [pc |-> "idle", name |-> NoName, event |-> NoEvent, creating |-> FALSE,
         moves |-> <<>>, target |-> "none", keep |-> NoProfile, fd |-> "none"]

\* Mutant of Identity: the profile is written without the serial.
Identity_NoSerial(e) == [maker |-> e.maker, model |-> e.model]

Identity(e) == [maker |-> e.maker, model |-> e.model, serial |-> e.serial]

Readable(n) == profile[n] \notin {NoProfile, TornProfile}

\* The transitions handle_device_event asks for; the runtime cycle after them
\* is SessionRuntime's, here it comes to rest waiting or goes on.
HandlerMoves == <<"DEVICE_ATTACHED", "DISCOVER", "PROFILE_SYNTHESIS", "ASSESS">>
CycleMoves   == {<<>>, <<"BLOCKER_CLASSIFY", "QUESTION_GATE">>}

Init ==
  /\ attached = {} /\ fresh = {} /\ day = 0
  /\ dirs = {}
  /\ profile = [n \in Names |-> NoProfile] /\ user = [n \in Names |-> "none"]
  /\ state = [n \in Names |-> "none"] /\ staging = [n \in Names |-> "none"]
  /\ seen = [w \in Watchers |-> {}] /\ alive = [w \in Watchers |-> TRUE]
  /\ call = [t \in Threads |-> Idle]
  /\ saved = {} /\ crashed = 0

-----------------------------------------------------------------------------
(* The world: devices come and go, days pass, the process dies.            *)

Attach(e) == /\ e \notin attached /\ attached' = attached \cup {e} /\ fresh' = fresh \cup {e}
             /\ UNCHANGED <<day, disk, seen, alive, call, saved, crashed>>
Detach(e) == /\ e \in attached /\ attached' = attached \ {e} /\ fresh' = fresh \ {e}
             /\ UNCHANGED <<day, disk, seen, alive, call, saved, crashed>>
Midnight  == /\ day < MaxDays /\ day' = day + 1
             /\ UNCHANGED <<attached, fresh, disk, seen, alive, call, saved, crashed>>

\* The process ends and is started again; the files are as they were.
Crash ==
  /\ crashed < MaxCrashes /\ crashed' = crashed + 1
  /\ fresh' = attached
  /\ seen' = [w \in Watchers |-> {}] /\ alive' = [w \in Watchers |-> TRUE]
  /\ call' = [t \in Threads |-> Idle]
  /\ UNCHANGED <<attached, day, disk, saved>>

-----------------------------------------------------------------------------
(* Steps of a call.  At, Go and Die are the control of a thread.           *)

InFlight  == {t \in Threads : call[t].pc # "idle"}
At(t, pc) == call[t].pc = pc
Go(t, c)  == call' = [call EXCEPT ![t] = c] /\ UNCHANGED <<alive, seen>>
Die(t) ==
  /\ call' = [call EXCEPT ![t] = Idle]
  /\ alive' = [w \in Watchers |-> alive[w] /\ w # t]
  /\ UNCHANGED <<seen, disk>>
World == UNCHANGED <<attached, fresh, day, saved, crashed>>

\* What a watcher passes over.  The signature of the USB watcher holds the line of
\* lsusb, and with it the number the host gave the device, which is another one
\* when it comes back; those of adb and fastboot are the serial alone.
Unseen(w, e) == IF w = "usb" THEN e \in fresh ELSE e.serial \notin seen[w]

\* The loop of a watcher: the signature is noted, then the event is published.
Notice(w) ==
  /\ alive[w] /\ At(w, "idle") /\ Cardinality(InFlight) < MaxInFlight
  /\ \E e \in {x \in attached : x.watcher = w} :
       /\ Unseen(w, e)
       /\ fresh' = fresh \ {e}
       /\ seen' = [seen EXCEPT ![w] = @ \cup {e.serial}]
       /\ call' = [call EXCEPT ![w] = [Idle EXCEPT !.pc = "probe", !.event = e]]
  /\ UNCHANGED <<alive, disk, attached, day, saved, crashed>>

\* find_waiting_session: files that cannot be read are skipped.
Waiting(serial) == {n \in Names : /\ state[n] = "QUESTION_GATE"
                                  /\ Readable(n)
                                  /\ profile[n].serial = serial}

\* DeviceProbe takes the event's transport for one of Transport, or raises.
Probe(w) ==
  /\ At(w, "probe")
  /\ LET e == call[w].event
     IN  \/ e.transport \notin Transports /\ Die(w)
         \/ /\ e.transport \in Transports
            /\ \/ \E n \in Waiting(e.serial) :
                    Go(w, [call[w] EXCEPT !.pc = "profile", !.name = n, !.moves = <<"BLOCKER_CLASSIFY">>])
               \/ Waiting(e.serial) = {} /\ Go(w, [call[w] EXCEPT !.pc = "lookup"])
            /\ UNCHANGED disk
  /\ World

\* Mutant of UpgradeCandidates: the first event of a day makes a session of
\* its own.
UpgradeCandidates_None(e) == {}

\* _find_upgrade_candidate: a session of the same maker and model whose serial
\* was made up by the USB watcher.
UpgradeCandidates(e) == {n \in Names : /\ Readable(n)
                                       /\ profile[n].maker = e.maker /\ profile[n].model = e.model
                                       /\ IsCoarse(profile[n].serial)}

\* The candidates are read in the order of their names, without a try: a torn
\* profile of any session that comes before a candidate raises.
Torn == {n \in Names : profile[n] = TornProfile}

\* Mutant of Creation: the state is written before the profile.
Creation_StateFirst(c) == [c EXCEPT !.pc = "state", !.target = "DEVICE_ATTACHED"]

\* The files of a new session are written in the order profile, state, form.
Creation(c) == [c EXCEPT !.pc = "profile"]

\* create_or_resume up to its first write.
Lookup(w) ==
  /\ At(w, "lookup")
  /\ LET e == call[w].event
         n == Name(e, day)
         Resume(m) ==
           IF ~Readable(m) THEN Die(w)
           ELSE Go(w, [call[w] EXCEPT !.pc = "profile", !.name = m, !.moves = HandlerMoves]) /\ UNCHANGED disk
     IN  \/ n \in dirs /\ Resume(n)
         \/ n \notin dirs /\ Torn # {} /\ Die(w)
         \/ n \notin dirs /\ \E m \in UpgradeCandidates(e) : Resume(m)
         \/ /\ n \notin dirs /\ Torn = {} /\ UpgradeCandidates(e) = {}
            /\ dirs' = dirs \cup {n}
            /\ Go(w, Creation([call[w] EXCEPT !.name = n, !.moves = HandlerMoves, !.creating = TRUE]))
            /\ UNCHANGED <<profile, state, staging, user>>
  /\ World

\* write_device_profile: path.write_text.
OpenProfile(t) ==
  /\ At(t, "profile")
  /\ profile' = [profile EXCEPT ![call[t].name] = TornProfile]
  /\ Go(t, [call[t] EXCEPT !.pc = "profile_text"])
  /\ UNCHANGED <<dirs, state, staging, user>> /\ World

\* Mutant of AfterProfile: the directory of a new session is announced by its
\* profile only; the state comes with the first transition.
AfterProfile_NoState(c) == IF c.event = NoEvent THEN Idle ELSE [c EXCEPT !.pc = "move"]

\* A new session gets its first state, an old one the event's transitions; the
\* operator's form ends here.
AfterProfile(c) == CASE c.event = NoEvent -> Idle
                     [] c.creating -> [c EXCEPT !.pc = "state", !.target = "DEVICE_ATTACHED"]
                     [] OTHER -> [c EXCEPT !.pc = "move"]

\* The form keeps the identity; an event writes its own.
WriteProfile(t) ==
  /\ At(t, "profile_text")
  /\ profile' = [profile EXCEPT ![call[t].name] = IF call[t].event = NoEvent THEN call[t].keep
                                                  ELSE Identity(call[t].event)]
  /\ Go(t, AfterProfile(call[t]))
  /\ UNCHANGED <<dirs, state, staging, user>> /\ World

-----------------------------------------------------------------------------
(* session-state.json.                                                     *)

\* _safe_transition and transition: load, check, and write if the table has
\* the edge.  A missing or torn file raises.
LoadState(w) ==
  /\ At(w, "move") /\ call[w].moves # <<>>
  /\ LET n == call[w].name
         target == Head(call[w].moves)
         c == [call[w] EXCEPT !.moves = Tail(@)]
     IN  \/ state[n] \in Unreadable /\ Die(w)
         \/ /\ state[n] \notin Unreadable
            /\ Go(w, IF is_transition_allowed(state[n], target)
                     THEN [c EXCEPT !.pc = "state", !.target = target] ELSE c)
            /\ UNCHANGED disk
  /\ World

\* Mutant of OpenStaging: the state is written in place, like the profile.
OpenStaging_InPlace(w) ==
  /\ At(w, "state")
  /\ state' = [state EXCEPT ![call[w].name] = "torn"]
  /\ Go(w, [call[w] EXCEPT !.pc = "state_text", !.fd = "state"])
  /\ UNCHANGED <<dirs, profile, staging, user>> /\ World

\* write_session_state: the temporary file is opened (and emptied), ...
OpenStaging(w) ==
  /\ At(w, "state")
  /\ staging' = [staging EXCEPT ![call[w].name] = "torn"]
  /\ Go(w, [call[w] EXCEPT !.pc = "state_text", !.fd = "staging"])
  /\ UNCHANGED <<dirs, profile, state, user>> /\ World

\* ... written: into the file that was opened, which another thread may have
\* renamed in the meantime, ...
WriteStaging(w) ==
  /\ At(w, "state_text")
  /\ LET n == call[w].name
     IN  /\ staging' = IF call[w].fd = "staging" THEN [staging EXCEPT ![n] = call[w].target] ELSE staging
         /\ state' = IF call[w].fd = "state" THEN [state EXCEPT ![n] = call[w].target] ELSE state
  /\ Go(w, [call[w] EXCEPT !.pc = "rename"])
  /\ UNCHANGED <<dirs, profile, user>> /\ World

\* ... and renamed; a name that is gone raises.
AfterState(c) == [c EXCEPT !.pc = IF c.creating THEN "user" ELSE "move",
                           !.target = "none", !.fd = "none"]

ReplaceState(w) ==
  /\ At(w, "rename")
  /\ LET n == call[w].name
     IN  \/ staging[n] = "none" /\ Die(w)
         \/ /\ staging[n] # "none"
            /\ state' = [state EXCEPT ![n] = staging[n]]
            /\ staging' = [staging EXCEPT ![n] = "none"]
            /\ call' = [t \in Threads |->
                          IF t = w THEN AfterState(call[w])
                          ELSE IF call[t].name = n /\ call[t].fd = "staging"
                          THEN [call[t] EXCEPT !.fd = "state"] ELSE call[t]]
            /\ UNCHANGED <<alive, seen, dirs, profile, user>>
  /\ World

-----------------------------------------------------------------------------
(* user-profile.json.                                                      *)

\* Mutant of LoadUser: a form that cannot be read is replaced like a missing one.
LoadUser_Replaces(w) ==
  /\ At(w, "move") /\ call[w].moves = <<>>
  /\ LET n == call[w].name
     IN  /\ Go(w, IF user[n] \in Unreadable THEN [call[w] EXCEPT !.pc = "user"] ELSE Idle)
         /\ UNCHANGED disk
  /\ World

\* load_user_profile: a missing form is written with defaults, a torn one raises.
LoadUser(w) ==
  /\ At(w, "move") /\ call[w].moves = <<>>
  /\ LET n == call[w].name
     IN  \/ user[n] = "torn" /\ Die(w)
         \/ user[n] = "none" /\ Go(w, [call[w] EXCEPT !.pc = "user"]) /\ UNCHANGED disk
         \/ /\ user[n] \notin Unreadable
            /\ \E more \in CycleMoves :
                 Go(w, IF more = <<>> \/ call[w].event = NoEvent THEN Idle
                       ELSE [call[w] EXCEPT !.moves = more, !.event = NoEvent])
            /\ UNCHANGED disk
  /\ World

OpenUser(t) ==
  /\ At(t, "user")
  /\ user' = [user EXCEPT ![call[t].name] = "torn"]
  /\ Go(t, [call[t] EXCEPT !.pc = "user_text"])
  /\ UNCHANGED <<dirs, profile, state, staging>> /\ World

\* The end of create_or_resume or of a default's write; the operator's form
\* goes on with the device profile.
WriteUser(t) ==
  /\ At(t, "user_text")
  /\ LET n == call[t].name
     IN  /\ user' = [user EXCEPT ![n] = IF t = "gui" THEN "saved" ELSE "default"]
         /\ saved' = IF t = "gui" THEN saved \cup {n} ELSE saved
         /\ \/ /\ t = "gui" /\ Readable(n)
               /\ Go(t, [call[t] EXCEPT !.pc = "profile", !.keep = profile[n]])
            \/ t = "gui" /\ ~Readable(n) /\ Go(t, Idle)
            \/ t # "gui" /\ Go(t, [call[t] EXCEPT !.pc = "move", !.creating = FALSE])
  /\ UNCHANGED <<dirs, profile, state, staging, attached, fresh, day, crashed>>

\* save_profile_and_recompute: the form of the session on the screen is loaded
\* (or made) and written, then the device profile.
SaveForm ==
  /\ At("gui", "idle") /\ Cardinality(InFlight) < MaxInFlight
  /\ \E n \in dirs :
       /\ state[n] \notin Unreadable /\ user[n] # "torn"
       /\ Go("gui", [Idle EXCEPT !.pc = "user", !.name = n])
  /\ UNCHANGED disk /\ World

-----------------------------------------------------------------------------
Handle(w) == \/ Probe(w) \/ Lookup(w) \/ LoadState(w) \/ OpenStaging(w) \/ WriteStaging(w)
             \/ ReplaceState(w) \/ LoadUser(w)
FileStep(t) == OpenProfile(t) \/ WriteProfile(t) \/ OpenUser(t) \/ WriteUser(t)

Next == \/ \E e \in Events : Attach(e) \/ Detach(e)
        \/ Midnight \/ Crash \/ SaveForm
        \/ \E w \in Watchers : Notice(w) \/ Handle(w)
        \/ \E t \in Threads : FileStep(t)

Spec == Init /\ [][Next]_vars

\* The threads are scheduled, and the watchers poll for ever.
FairSpec == /\ Spec
            /\ \A w \in Watchers : WF_vars(Notice(w)) /\ WF_vars(Handle(w))
            /\ \A t \in Threads : WF_vars(FileStep(t))
-----------------------------------------------------------------------------
(* Properties.                                                             *)

Identities == [maker : STRING, model : STRING, serial : STRING]

\* Files and memory keep their types; a profile that can be read has a serial.
TypeOK ==
  /\ fresh \subseteq attached /\ attached \subseteq Events /\ day \in Days /\ dirs \subseteq Names
  /\ \A n \in Names : /\ Readable(n) => profile[n] \in Identities
                      /\ state[n] \in Unreadable \cup SessionStateName
                      /\ staging[n] \in Unreadable \cup SessionStateName
                      /\ user[n] \in Unreadable \cup {"default", "saved"}
  /\ alive \in [Watchers -> BOOLEAN] /\ crashed \in Nat
  /\ \A t \in Threads : call[t].name \in Names \cup {NoName}

\* Whoever finds a session by its session-state.json (find_waiting_session, the
\* GUI) finds a device-profile.json beside it, after any crash.
StateHasProfile == \A n \in Names : state[n] # "none" => profile[n] # NoProfile

\* Devices the USB watcher cannot tell apart share one session, over days and
\* restarts: no two sessions with a made-up serial have the same maker and model.
OneCoarseSession ==
  \A m, n \in Names :
    m # n /\ Readable(m) /\ Readable(n)
      => \/ profile[m].maker # profile[n].maker \/ profile[m].model # profile[n].model
         \/ ~IsCoarse(profile[m].serial) \/ ~IsCoarse(profile[n].serial)

\* The files of a session that no code writes again or reads with an error.
Broken(n) == n \in dirs /\ (~Readable(n) \/ state[n] \in Unreadable \/ user[n] = "torn")

\* With one call at a time, what ends a watcher's thread is an event whose
\* transport the probe does not know, or a session some crash has left broken.
DeathsHaveCause ==
  \A w \in Watchers : ~alive[w] =>
    \/ \E e \in Events : e.watcher = w /\ e.transport \notin Transports /\ e.serial \in seen[w]
    \/ crashed > 0 /\ \E n \in Names : Broken(n)

\* A form the operator has saved, the attestation of lawful use in it, is never
\* replaced by the defaults, whatever crash or event follows.
SavedFormKept == \A n \in saved : user[n] # "default"

\* session-state.json, as its readers find it, keeps the promise of StateFile:
\* complete states only, moved along the table, never lost in a crash.
Promise == INSTANCE StateFile WITH value <- state
KeepsPromise == Promise!Spec

\* "waiting QUESTION_GATE sessions resume when the same device reconnects": a
\* device that is connected while a session of its serial waits is published to
\* the orchestrator, or disconnected again.
ReconnectResumes ==
  \A e \in Events : (e \in fresh /\ Waiting(e.serial) # {}) ~> e \notin fresh
=============================================================================
