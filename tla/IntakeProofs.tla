---------------------------- MODULE IntakeProofs ----------------------------
(***************************************************************************)
(* Proofs about Intake, for any events, any days and any number of         *)
(* crashes.  What is said of sessions and profiles holds for any number of *)
(* overlapping calls; the other theorems name the overlap they exclude.    *)
(***************************************************************************)
EXTENDS Intake, FiniteSetTheorems, TLAPS

Early     == {"idle", "probe", "lookup"}
Profiling == {"profile", "profile_text"}
Moving    == {"state", "state_text", "rename"}
Forming   == {"user", "user_text"}
Pcs       == Early \cup Profiling \cup Moving \cup Forming \cup {"move"}

Profiles == Identities \cup {NoProfile, TornProfile}
Contents == Unreadable \cup SessionStateName
Calls    == [pc : Pcs, name : Names \cup {NoName}, event : Events \cup {NoEvent},
             creating : BOOLEAN, moves : Seq(SessionStateName),
             target : SessionStateName \cup {"none"}, keep : Profiles,
             fd : {"none", "staging", "state"}]

\* What a call has in hand, by where it is.
Placed(t, c) ==
  /\ c.pc \notin Early => c.name \in Names
  /\ c.pc \in {"probe", "lookup"} \cup Profiling /\ t # "gui" => c.event \in Events /\ c.event.watcher = t
  /\ c.pc \in {"probe", "lookup", "move"} => ~c.creating
  /\ c.pc \in Moving => c.target \in SessionStateName
  /\ t = "gui" => /\ c.pc \in {"idle"} \cup Forming \cup Profiling
                  /\ c.event = NoEvent /\ ~c.creating
                  /\ c.pc \in Profiling => c.keep \in Identities

Types ==
  /\ fresh \subseteq attached /\ attached \subseteq Events /\ day \in Days /\ dirs \subseteq Names
  /\ profile \in [Names -> Profiles] /\ state \in [Names -> Contents]
  /\ staging \in [Names -> Contents] /\ user \in [Names -> Unreadable \cup {"default", "saved"}]
  /\ seen \in [Watchers -> SUBSET STRING] /\ alive \in [Watchers -> BOOLEAN] /\ crashed \in Nat
  /\ call \in [Threads -> Calls] /\ \A t \in Threads : Placed(t, call[t])

-----------------------------------------------------------------------------
(* Types.                                                                  *)

\* What the assumptions say of threads and events.
LEMMA Constants ==
  /\ "gui" \notin Watchers /\ Watchers \subseteq Threads /\ "gui" \in Threads
  /\ NoEvent \notin Events
  /\ \A e \in Events : e.serial \in STRING /\ Identity(e) \in Identities
<1>1. \A e \in Events : e.watcher \in {"usb", "adb", "fastboot"}
  BY EventsAssumption DEF EventTypes
<1>2. NoEvent.watcher = "none"
  BY DEF NoEvent
<1>3. \A e \in Events : e.serial \in STRING /\ Identity(e) \in Identities
  BY EventsAssumption DEF EventTypes, Identity, Identities
<1>4. QED BY <1>1, <1>2, <1>3 DEF Watchers, Threads

\* A missing or torn profile identifies no device.
LEMMA NoIdentity ==
  /\ NoProfile \notin Identities /\ TornProfile \notin Identities /\ NoProfile # TornProfile
BY DEF NoProfile, TornProfile, Identities

\* The states of the handler are states of the table, and markers are not.
LEMMA States ==
  /\ {"DEVICE_ATTACHED", "DISCOVER", "PROFILE_SYNTHESIS", "ASSESS", "BLOCKER_CLASSIFY",
      "QUESTION_GATE"} \subseteq SessionStateName
  /\ "none" \notin SessionStateName /\ "torn" \notin SessionStateName
BY DEF SessionStateName, ALLOWED_TRANSITIONS

\* The table leads from states to states.
LEMMA Table == \A s \in SessionStateName : ALLOWED_TRANSITIONS[s] \subseteq SessionStateName
BY DEF SessionStateName, ALLOWED_TRANSITIONS

\* A thread outside a call is typed and well placed.
LEMMA IdleType == Idle \in Calls /\ \A t : Placed(t, Idle)
<1>1. <<>> \in Seq(SessionStateName)
  OBVIOUS
<1>2. Idle \in Calls
  BY <1>1 DEF Idle, Calls, Pcs, Early, Profiles
<1>3. QED BY <1>2 DEF Idle, Placed, Early, Profiling, Moving

\* A thread that goes on leaves the others where they are.
LEMMA GoTypes ==
  ASSUME Types, NEW t \in Threads, NEW c \in Calls, Placed(t, c),
         call' = [call EXCEPT ![t] = c]
  PROVE  /\ call' \in [Threads -> Calls] /\ \A s \in Threads : Placed(s, call'[s])
         /\ call'[t] = c /\ \A s \in Threads \ {t} : call'[s] = call[s]
BY DEF Types

\* The initial state is typed.
LEMMA InitTypes == Init => Types
<1> SUFFICES ASSUME Init PROVE Types
  OBVIOUS
<1>1. call \in [Threads -> Calls] /\ \A t \in Threads : Placed(t, call[t])
  BY SMTT(30), IdleType DEF Init
<1>2. QED BY <1>1, BoundsAssumption DEF Init, Types, Days, Profiles, Contents, Unreadable

-----------------------------------------------------------------------------
(* What each step of a call does, field by field.                          *)

\* t goes on with the locals d.
Continues(t, d) == d \in Calls /\ Placed(t, d) /\ Go(t, d)

\* The probe ends the thread for an unknown transport, or reads the device.
LEMMA ProbeEffect ==
  ASSUME Types, NEW w \in Watchers, Probe(w)
  PROVE  /\ UNCHANGED disk /\ World
         /\ \/ Die(w) /\ call[w].event \in Events /\ call[w].event.watcher = w
               /\ call[w].event.transport \notin Transports
            \/ \E d \in Calls :
                 /\ Continues(w, d) /\ d.event = call[w].event /\ ~d.creating
                 /\ \/ d.pc = "profile" /\ d.name \in Waiting(d.event.serial)
                    \/ d.pc = "lookup"
<1> DEFINE c == call[w]
<1>1. c \in Calls /\ Placed(w, c) /\ c.pc = "probe" /\ w # "gui"
  BY Constants DEF Types, Probe, At
<1>2. c.event \in Events /\ c.event.watcher = w /\ ~c.creating
  BY <1>1 DEF Placed
<1>3. ASSUME NEW n \in Waiting(c.event.serial),
             Go(w, [call[w] EXCEPT !.pc = "profile", !.name = n, !.moves = <<"BLOCKER_CLASSIFY">>])
      PROVE  \E d \in Calls : /\ Continues(w, d) /\ d.event = call[w].event /\ ~d.creating
                              /\ d.pc = "profile" /\ d.name \in Waiting(d.event.serial)
  <2> DEFINE d == [c EXCEPT !.pc = "profile", !.name = n, !.moves = <<"BLOCKER_CLASSIFY">>]
  <2>1. <<"BLOCKER_CLASSIFY">> \in Seq(SessionStateName) /\ n \in Names
    BY States DEF Waiting
  <2>2. d \in Calls /\ d.event = c.event /\ ~d.creating /\ d.pc = "profile" /\ d.name = n
    BY <1>1, <1>2, <2>1 DEF Calls, Pcs, Profiling
  <2>3. Placed(w, d)
    BY <1>1, <1>2, <2>1, <2>2 DEF Placed, Moving, Early, Profiling
  <2>4. QED BY <1>3, <2>2, <2>3 DEF Continues
<1>4. ASSUME Go(w, [call[w] EXCEPT !.pc = "lookup"])
      PROVE  \E d \in Calls : /\ Continues(w, d) /\ d.event = call[w].event /\ ~d.creating
                              /\ d.pc = "lookup"
  <2> DEFINE d == [c EXCEPT !.pc = "lookup"]
  <2>2. d \in Calls /\ d.event = c.event /\ ~d.creating /\ d.pc = "lookup"
    BY <1>1, <1>2 DEF Calls, Pcs, Early
  <2>3. Placed(w, d)
    BY <1>1, <1>2, <2>2 DEF Placed, Moving, Early, Profiling
  <2>4. QED BY <1>4, <2>2, <2>3 DEF Continues
<1>5. QED BY ZenonT(40), <1>2, <1>3, <1>4 DEF Probe, Die

\* A new session is made only where no session of the same kind can be read.
LEMMA LookupEffect ==
  ASSUME Types, NEW w \in Watchers, Lookup(w)
  PROVE  /\ UNCHANGED <<profile, state, staging, user>> /\ World
         /\ call[w].event \in Events /\ call[w].event.watcher = w
         /\ \/ Die(w) /\ \E n \in Names : (n \in dirs /\ ~Readable(n)) \/ profile[n] = TornProfile
            \/ \E d \in Calls :
                 /\ Continues(w, d) /\ d.event = call[w].event /\ d.pc = "profile"
                 /\ \/ /\ ~d.creating /\ Readable(d.name) /\ dirs' = dirs
                       /\ \/ d.name = Name(d.event, day)
                          \/ d.name \in UpgradeCandidates(d.event)
                    \/ /\ d.creating /\ d.name = Name(d.event, day)
                       /\ d.name \notin dirs /\ dirs' = dirs \cup {d.name}
                       /\ Torn = {} /\ UpgradeCandidates(d.event) = {}
<1> DEFINE c == call[w]
           e == c.event
           n == Name(e, day)
<1>1. c \in Calls /\ Placed(w, c) /\ c.pc = "lookup" /\ w # "gui"
  BY Constants DEF Types, Lookup, At
<1>2. c.event \in Events /\ c.event.watcher = w /\ ~c.creating
  BY <1>1 DEF Placed
<1>3. HandlerMoves \in Seq(SessionStateName) /\ n \in Names
  BY <1>2, States DEF HandlerMoves, Types, Names, Name
<1>4. ASSUME NEW m \in Names,
             Go(w, [call[w] EXCEPT !.pc = "profile", !.name = m, !.moves = HandlerMoves])
      PROVE  \E d \in Calls : /\ Continues(w, d) /\ d.event = e /\ ~d.creating
                              /\ d.pc = "profile" /\ d.name = m
  <2> DEFINE d == [c EXCEPT !.pc = "profile", !.name = m, !.moves = HandlerMoves]
  <2>2. d \in Calls /\ d.event = c.event /\ ~d.creating /\ d.pc = "profile" /\ d.name = m
    BY <1>1, <1>2, <1>3 DEF Calls, Pcs, Profiling
  <2>3. Placed(w, d)
    BY <1>1, <1>2, <2>2 DEF Placed, Moving, Early, Profiling
  <2>4. QED BY <1>4, <2>2, <2>3 DEF Continues
<1>5. ASSUME Go(w, Creation([call[w] EXCEPT !.name = n, !.moves = HandlerMoves, !.creating = TRUE]))
      PROVE  \E d \in Calls : /\ Continues(w, d) /\ d.event = e /\ d.creating
                              /\ d.pc = "profile" /\ d.name = n
  <2> DEFINE b == [c EXCEPT !.name = n, !.moves = HandlerMoves, !.creating = TRUE]
             d == Creation(b)
  <2>1. b \in Calls /\ b.event = c.event /\ b.creating /\ b.name = n
    BY <1>1, <1>2, <1>3 DEF Calls, Pcs
  <2>2. d \in Calls /\ d.event = c.event /\ d.creating /\ d.pc = "profile" /\ d.name = n
    <3> HIDE DEF b
    <3> QED BY <2>1 DEF Calls, Pcs, Profiling, Creation
  <2>3. Placed(w, d)
    <3> HIDE DEF d
    <3> QED BY <1>1, <1>2, <1>3, <2>2 DEF Placed, Moving, Early, Profiling
  <2>4. QED BY <1>5, <2>2, <2>3 DEF Continues
<1>6. \/ Die(w) /\ ((n \in dirs /\ ~Readable(n)) \/ Torn # {})
      \/ /\ Readable(n) /\ UNCHANGED disk
         /\ Go(w, [call[w] EXCEPT !.pc = "profile", !.name = n, !.moves = HandlerMoves])
      \/ /\ UNCHANGED disk
         /\ \E m \in UpgradeCandidates(e) :
               Go(w, [call[w] EXCEPT !.pc = "profile", !.name = m, !.moves = HandlerMoves])
      \/ /\ n \notin dirs /\ Torn = {} /\ UpgradeCandidates(e) = {}
         /\ dirs' = dirs \cup {n}
         /\ Go(w, Creation([call[w] EXCEPT !.name = n, !.moves = HandlerMoves, !.creating = TRUE]))
         /\ UNCHANGED <<profile, state, staging, user>>
  <2>1. \A m \in UpgradeCandidates(e) : Readable(m)
    BY DEF UpgradeCandidates
  <2>2. QED BY <2>1, Zenon DEF Lookup
<1>7. World
  BY DEF Lookup
<1>8. CASE Die(w) /\ ((n \in dirs /\ ~Readable(n)) \/ Torn # {})
  BY <1>2, <1>3, <1>7, <1>8 DEF Die, disk, Torn
<1>9. CASE /\ Readable(n) /\ UNCHANGED disk
           /\ Go(w, [call[w] EXCEPT !.pc = "profile", !.name = n, !.moves = HandlerMoves])
  <2>1. PICK d \in Calls : /\ Continues(w, d) /\ d.event = e /\ ~d.creating
                           /\ d.pc = "profile" /\ d.name = n
    BY <1>3, <1>4, <1>9
  <2>2. QED BY SMTT(30), <1>2, <1>7, <1>9, <2>1 DEF disk
<1>10. ASSUME UNCHANGED disk, NEW m \in UpgradeCandidates(e),
              Go(w, [call[w] EXCEPT !.pc = "profile", !.name = m, !.moves = HandlerMoves])
       PROVE  \E d \in Calls :
                /\ Continues(w, d) /\ d.event = e /\ d.pc = "profile"
                /\ ~d.creating /\ Readable(d.name) /\ d.name \in UpgradeCandidates(d.event)
  <2>1. m \in Names /\ Readable(m)
    BY DEF UpgradeCandidates
  <2>2. QED BY <1>4, <1>10, <2>1
<1>11. CASE /\ n \notin dirs /\ Torn = {} /\ UpgradeCandidates(e) = {}
            /\ dirs' = dirs \cup {n}
            /\ Go(w, Creation([call[w] EXCEPT !.name = n, !.moves = HandlerMoves, !.creating = TRUE]))
            /\ UNCHANGED <<profile, state, staging, user>>
  <2>1. PICK d \in Calls : /\ Continues(w, d) /\ d.event = e /\ d.creating
                           /\ d.pc = "profile" /\ d.name = n
    BY <1>5, <1>11
  <2>2. QED BY <1>2, <1>7, <1>11, <2>1
<1>12. QED BY ZenonT(40), <1>2, <1>6, <1>7, <1>8, <1>9, <1>10, <1>11 DEF disk

\* Opening the profile empties it.
LEMMA OpenProfileEffect ==
  ASSUME Types, NEW t \in Threads, OpenProfile(t)
  PROVE  \E d \in Calls : /\ Continues(t, d) /\ d.pc = "profile_text" /\ d.name = call[t].name
                          /\ d.event = call[t].event /\ d.creating = call[t].creating
                          /\ d.keep = call[t].keep
<1> DEFINE c == call[t]
           d == [c EXCEPT !.pc = "profile_text"]
<1>1. c \in Calls /\ Placed(t, c) /\ c.pc = "profile"
  BY DEF Types, OpenProfile, At
<1>2. d \in Calls /\ d.pc = "profile_text" /\ d.name = c.name /\ d.event = c.event
      /\ d.creating = c.creating /\ d.keep = c.keep
  BY <1>1 DEF Calls, Pcs, Profiling
<1>3. Placed(t, d)
  <2> HIDE DEF d
  <2> QED BY <1>1, <1>2 DEF Placed, Moving, Early, Profiling
<1>4. Go(t, d)
  BY DEF OpenProfile
<1>5. QED BY <1>2, <1>3, <1>4 DEF Continues

\* What write_device_profile writes for this call.
Written(c) == IF c.event = NoEvent THEN c.keep ELSE Identity(c.event)

\* Writing the profile makes it whole.
LEMMA WriteProfileEffect ==
  ASSUME Types, NEW t \in Threads, WriteProfile(t)
  PROVE  /\ Written(call[t]) \in Identities
         /\ \E d \in Calls :
              /\ Continues(t, d)
              /\ \/ d = Idle
                 \/ /\ t # "gui" /\ d.name = call[t].name /\ d.creating = call[t].creating
                    /\ IF d.creating THEN d.pc = "state" /\ d.target = "DEVICE_ATTACHED"
                                     ELSE d.pc = "move"
              /\ d = Idle => t = "gui"
<1> DEFINE c == call[t]
<1>1. c \in Calls /\ Placed(t, c) /\ c.pc = "profile_text" /\ c.name \in Names
      /\ Go(t, AfterProfile(c))
  BY DEF Types, WriteProfile, At, Placed, Early
<1>2. CASE t = "gui"
  <2>1. c.event = NoEvent /\ ~c.creating /\ c.keep \in Identities
    BY <1>1, <1>2 DEF Placed, Profiling
  <2>2. AfterProfile(c) = Idle
    BY <2>1 DEF AfterProfile
  <2>3. Continues(t, Idle)
    BY <1>1, <2>2, IdleType DEF Continues
  <2>4. QED BY <1>2, <2>1, <2>3, IdleType DEF Written
<1>3. CASE t # "gui"
  <2>1. c.event \in Events /\ c.event # NoEvent
    BY <1>1, <1>3, Constants DEF Placed, Profiling
  <2>2. Written(c) \in Identities
    BY <2>1, Constants DEF Written
  <2>3. CASE c.creating
    <3> DEFINE d == [c EXCEPT !.pc = "state", !.target = "DEVICE_ATTACHED"]
    <3>1. d \in Calls /\ d.pc = "state" /\ d.target = "DEVICE_ATTACHED" /\ d.name = c.name
          /\ d.creating = c.creating
      BY <1>1, States DEF Calls, Pcs, Moving
    <3>2. Placed(t, d) /\ d # Idle
      <4> HIDE DEF d
      <4> QED BY <1>1, <1>3, <3>1, States DEF Placed, Moving, Early, Profiling, Idle
    <3>3. Go(t, d)
      BY <1>1, <2>1, <2>3 DEF AfterProfile
    <3>4. QED BY <1>3, <2>2, <2>3, <3>1, <3>2, <3>3 DEF Continues
  <2>4. CASE ~c.creating
    <3> DEFINE d == [c EXCEPT !.pc = "move"]
    <3>1. d \in Calls /\ d.pc = "move" /\ d.name = c.name /\ d.creating = c.creating
      BY <1>1, States DEF Calls, Pcs
    <3>2. Placed(t, d) /\ d # Idle
      <4> HIDE DEF d
      <4> QED BY <1>1, <1>3, <2>4, <3>1 DEF Placed, Moving, Early, Profiling, Idle
    <3>3. Go(t, d)
      BY <1>1, <2>1, <2>4 DEF AfterProfile
    <3>4. QED BY <1>3, <2>2, <2>4, <3>1, <3>2, <3>3 DEF Continues
  <2>5. QED BY <2>3, <2>4
<1>4. QED BY <1>2, <1>3

\* Loading the state raises when there is no whole one, else decides what to write.
LEMMA LoadStateEffect ==
  ASSUME Types, NEW w \in Watchers, LoadState(w)
  PROVE  /\ UNCHANGED disk /\ World /\ call[w].name \in Names
         /\ \/ Die(w) /\ state[call[w].name] \in Unreadable
            \/ /\ state[call[w].name] \in SessionStateName
               /\ \E d \in Calls :
                    /\ Continues(w, d) /\ d.name = call[w].name /\ ~d.creating
                    /\ \/ d.pc = "move"
                       \/ d.pc = "state" /\ d.target \in ALLOWED_TRANSITIONS[state[d.name]]
<1> DEFINE c == call[w]
           n == c.name
           target == Head(c.moves)
           b == [c EXCEPT !.moves = Tail(@)]
<1>1. c \in Calls /\ Placed(w, c) /\ c.pc = "move" /\ w # "gui" /\ c.moves # <<>>
  BY Constants DEF Types, LoadState, At
<1>2. n \in Names /\ ~c.creating
  BY <1>1 DEF Placed, Early
<1>3. target \in SessionStateName /\ Tail(c.moves) \in Seq(SessionStateName)
  <2>1. c.moves \in Seq(SessionStateName) /\ c.moves # <<>>
    BY <1>1 DEF Calls
  <2>2. QED BY <2>1
<1>4. b \in Calls /\ b.pc = "move" /\ b.name = n /\ ~b.creating
  BY <1>1, <1>2, <1>3 DEF Calls
<1>5. Placed(w, b)
  <2> HIDE DEF b
  <2> QED BY <1>1, <1>2, <1>4 DEF Placed, Early, Profiling, Moving
<1> DEFINE d == [b EXCEPT !.pc = "state", !.target = target]
<1>6. d \in Calls /\ d.pc = "state" /\ d.name = n /\ ~d.creating /\ d.target = target
  <2> HIDE DEF b
  <2> QED BY <1>3, <1>4 DEF Calls, Pcs, Moving
<1>7. Placed(w, d)
  <2> HIDE DEF d
  <2> QED BY <1>1, <1>2, <1>3, <1>6 DEF Placed, Early, Profiling, Moving
<1>8. World /\ \/ state[n] \in Unreadable /\ Die(w)
               \/ /\ state[n] \notin Unreadable /\ UNCHANGED disk
                  /\ Go(w, IF is_transition_allowed(state[n], target) THEN d ELSE b)
  BY DEF LoadState
<1>9. state[n] \notin Unreadable => state[n] \in SessionStateName
  BY <1>2 DEF Types, Contents
<1>10. CASE state[n] \in Unreadable /\ Die(w)
  BY <1>2, <1>8, <1>10 DEF Die
<1>11. CASE /\ state[n] \notin Unreadable /\ UNCHANGED disk
            /\ Go(w, IF is_transition_allowed(state[n], target) THEN d ELSE b)
  <2> HIDE DEF b, d
  <2>1. CASE is_transition_allowed(state[n], target)
    BY <1>2, <1>6, <1>7, <1>8, <1>9, <1>11, <2>1 DEF Continues, is_transition_allowed
  <2>2. CASE ~is_transition_allowed(state[n], target)
    BY <1>2, <1>4, <1>5, <1>8, <1>9, <1>11, <2>2 DEF Continues
  <2>3. QED BY <2>1, <2>2
<1>12. QED BY <1>8, <1>10, <1>11

\* Opening the temporary file leaves the state alone.
LEMMA OpenStagingEffect ==
  ASSUME Types, NEW w \in Watchers, OpenStaging(w)
  PROVE  \E d \in Calls : /\ Continues(w, d) /\ d.pc = "state_text" /\ d.name = call[w].name
                          /\ d.creating = call[w].creating /\ d.target = call[w].target
                          /\ d.fd = "staging"
<1> DEFINE c == call[w]
           d == [c EXCEPT !.pc = "state_text", !.fd = "staging"]
<1>1. c \in Calls /\ Placed(w, c) /\ c.pc = "state" /\ w # "gui"
  BY Constants DEF Types, OpenStaging, At
<1>2. d \in Calls /\ d.pc = "state_text" /\ d.name = c.name
      /\ d.creating = c.creating /\ d.target = c.target /\ d.fd = "staging"
  BY <1>1 DEF Calls, Pcs, Moving
<1>3. Placed(w, d)
  <2> HIDE DEF d
  <2> QED BY <1>1, <1>2 DEF Placed, Moving, Early, Profiling
<1>4. QED BY <1>2, <1>3 DEF Continues, OpenStaging

\* Writing the temporary file leaves the state alone.
LEMMA WriteStagingEffect ==
  ASSUME Types, NEW w \in Watchers, WriteStaging(w)
  PROVE  \E d \in Calls : /\ Continues(w, d) /\ d.pc = "rename" /\ d.name = call[w].name
                          /\ d.creating = call[w].creating /\ d.target = call[w].target
<1> DEFINE c == call[w]
           d == [c EXCEPT !.pc = "rename"]
<1>1. c \in Calls /\ Placed(w, c) /\ c.pc = "state_text" /\ w # "gui"
  BY Constants DEF Types, WriteStaging, At
<1>2. d \in Calls /\ d.pc = "rename" /\ d.name = c.name
      /\ d.creating = c.creating /\ d.target = c.target
  BY <1>1 DEF Calls, Pcs, Moving
<1>3. Placed(w, d)
  <2> HIDE DEF d
  <2> QED BY <1>1, <1>2 DEF Placed, Moving, Early, Profiling
<1>4. QED BY <1>2, <1>3 DEF Continues, WriteStaging

\* Renaming turns the files that other calls hold open into session-state.json;
\* nothing else of the other calls changes.
SameBut(c, d) ==
  /\ d.pc = c.pc /\ d.name = c.name /\ d.event = c.event /\ d.creating = c.creating
  /\ d.target = c.target /\ d.keep = c.keep

\* The rename brings the staged state in place, or raises when it is gone.
LEMMA ReplaceStateEffect ==
  ASSUME Types, NEW w \in Watchers, ReplaceState(w)
  PROVE  /\ World /\ UNCHANGED <<dirs, profile, user, seen>>
         /\ call[w].name \in Names /\ call[w].pc = "rename"
         /\ \/ Die(w) /\ staging[call[w].name] = "none"
            \/ /\ staging[call[w].name] # "none" /\ UNCHANGED alive
               /\ state' = [state EXCEPT ![call[w].name] = staging[call[w].name]]
               /\ staging' = [staging EXCEPT ![call[w].name] = "none"]
               /\ call' \in [Threads -> Calls] /\ \A s \in Threads : Placed(s, call'[s])
               /\ \A s \in Threads \ {w} : SameBut(call[s], call'[s])
               /\ call'[w].name = call[w].name /\ call'[w].creating = call[w].creating
               /\ call'[w].pc = IF call[w].creating THEN "user" ELSE "move"
<1> DEFINE c == call[w]
           n == c.name
<1>1. c \in Calls /\ Placed(w, c) /\ c.pc = "rename" /\ w # "gui" /\ w \in Threads
  BY Constants DEF Types, ReplaceState, At
<1>2. n \in Names
  BY <1>1 DEF Placed, Early
<1>3. World /\ \/ staging[n] = "none" /\ Die(w)
               \/ /\ staging[n] # "none"
                  /\ state' = [state EXCEPT ![n] = staging[n]]
                  /\ staging' = [staging EXCEPT ![n] = "none"]
                  /\ call' = [t \in Threads |->
                                IF t = w THEN AfterState(call[w])
                                ELSE IF call[t].name = n /\ call[t].fd = "staging"
                                THEN [call[t] EXCEPT !.fd = "state"] ELSE call[t]]
                  /\ UNCHANGED <<alive, seen, dirs, profile, user>>
  BY DEF ReplaceState
<1>4. CASE staging[n] = "none" /\ Die(w)
  BY <1>1, <1>2, <1>3, <1>4 DEF Die, disk
<1>5. CASE /\ staging[n] # "none"
           /\ state' = [state EXCEPT ![n] = staging[n]]
           /\ staging' = [staging EXCEPT ![n] = "none"]
           /\ call' = [t \in Threads |->
                         IF t = w THEN AfterState(call[w])
                         ELSE IF call[t].name = n /\ call[t].fd = "staging"
                         THEN [call[t] EXCEPT !.fd = "state"] ELSE call[t]]
           /\ UNCHANGED <<alive, seen, dirs, profile, user>>
  <2> DEFINE d == AfterState(c)
  <2>1. d \in Calls /\ d.name = n /\ d.creating = c.creating
        /\ d.pc = IF c.creating THEN "user" ELSE "move"
    BY ZenonT(40), <1>1 DEF AfterState, Calls, Pcs, Forming
  <2>2. Placed(w, d)
    <3> HIDE DEF d
    <3> QED BY <1>1, <1>2, <2>1 DEF Placed, Early, Profiling, Moving
  <2>3. ASSUME NEW s \in Threads \ {w}
        PROVE  call'[s] \in Calls /\ SameBut(call[s], call'[s])
    <3>1. call[s] \in Calls
      BY DEF Types
    <3>2. call'[s] = call[s] \/ call'[s] = [call[s] EXCEPT !.fd = "state"]
      BY <1>5
    <3>3. QED BY <3>1, <3>2 DEF Calls, SameBut
  <2>4. call'[w] = d
    BY <1>1, <1>5
  <2>5. \A s \in Threads \ {w} : Placed(s, call'[s])
    <3>1. \A s \in Threads \ {w} : Placed(s, call[s])
      BY DEF Types
    <3>2. QED BY <2>3, <3>1 DEF SameBut, Placed
  <2>6. call' \in [Threads -> Calls]
    <3>1. \A s \in Threads : call'[s] \in Calls
      BY SMTT(30), <2>1, <2>3, <2>4
    <3>2. QED BY <1>5, <3>1
  <2> HIDE DEF d
  <2>7. QED BY <1>1, <1>2, <1>3, <1>5, <2>1, <2>2, <2>3, <2>4, <2>5, <2>6
<1>6. QED BY <1>3, <1>4, <1>5

\* A user profile that is missing will be written with defaults, a torn one raises.
LEMMA LoadUserEffect ==
  ASSUME Types, NEW w \in Watchers, LoadUser(w)
  PROVE  /\ UNCHANGED disk /\ World /\ call[w].name \in Names
         /\ \/ Die(w) /\ user[call[w].name] = "torn"
            \/ \E d \in Calls :
                 /\ Continues(w, d)
                 /\ \/ d = Idle
                    \/ d.pc = "move" /\ d.name = call[w].name /\ ~d.creating
                    \/ d.pc = "user" /\ d.name = call[w].name /\ ~d.creating
                       /\ user[d.name] = "none"
<1> DEFINE c == call[w]
           n == c.name
<1>1. c \in Calls /\ Placed(w, c) /\ c.pc = "move" /\ w # "gui"
  BY Constants DEF Types, LoadUser, At
<1>2. n \in Names /\ ~c.creating
  BY SMTT(30), <1>1 DEF Placed, Early
<1>3. World /\ \/ user[n] = "torn" /\ Die(w)
               \/ user[n] = "none" /\ Go(w, [call[w] EXCEPT !.pc = "user"]) /\ UNCHANGED disk
               \/ /\ UNCHANGED disk
                  /\ \E more \in CycleMoves :
                       Go(w, IF more = <<>> \/ call[w].event = NoEvent THEN Idle
                             ELSE [call[w] EXCEPT !.moves = more, !.event = NoEvent])
  BY DEF LoadUser
<1>4. CASE user[n] = "torn" /\ Die(w)
  BY <1>2, <1>3, <1>4 DEF Die
<1>5. CASE user[n] = "none" /\ Go(w, [call[w] EXCEPT !.pc = "user"]) /\ UNCHANGED disk
  <2> DEFINE d == [c EXCEPT !.pc = "user"]
  <2>1. d \in Calls /\ d.pc = "user" /\ d.name = n /\ ~d.creating
    BY <1>1, <1>2 DEF Calls, Pcs, Forming
  <2>2. Placed(w, d)
    <3> HIDE DEF d
    <3> QED BY <1>1, <1>2, <2>1 DEF Placed, Early, Profiling, Moving
  <2>3. QED BY <1>2, <1>3, <1>5, <2>1, <2>2 DEF Continues
<1>6. ASSUME UNCHANGED disk, NEW more \in CycleMoves,
             Go(w, IF more = <<>> \/ call[w].event = NoEvent THEN Idle
                   ELSE [call[w] EXCEPT !.moves = more, !.event = NoEvent])
      PROVE  \E d \in Calls : /\ Continues(w, d)
                              /\ d = Idle \/ (d.pc = "move" /\ d.name = n /\ ~d.creating)
  <2> DEFINE d == [c EXCEPT !.moves = more, !.event = NoEvent]
  <2>1. more \in Seq(SessionStateName)
    <3>1. more = <<>> \/ more = <<"BLOCKER_CLASSIFY", "QUESTION_GATE">>
      BY Zenon DEF CycleMoves
    <3>2. <<"BLOCKER_CLASSIFY", "QUESTION_GATE">> \in Seq(SessionStateName)
      BY States
    <3>3. <<>> \in Seq(SessionStateName)
      OBVIOUS
    <3>4. QED BY <3>1, <3>2, <3>3, Zenon
  <2>2. d \in Calls /\ d.pc = "move" /\ d.name = n /\ ~d.creating
    BY <1>1, <1>2, <2>1 DEF Calls
  <2>3. Placed(w, d)
    <3> HIDE DEF d
    <3> QED BY <1>1, <1>2, <2>2 DEF Placed, Early, Profiling, Moving
  <2>4. Go(w, Idle) \/ Go(w, d)
    BY <1>6, Zenon
  <2> HIDE DEF d
  <2>5. CASE Go(w, Idle)
    <3>1. Continues(w, Idle) /\ Idle \in Calls
      BY <2>5, IdleType DEF Continues
    <3>2. QED BY <3>1, Zenon
  <2>6. CASE Go(w, d)
    BY <2>2, <2>3, <2>6 DEF Continues
  <2>7. QED BY <2>4, <2>5, <2>6
<1>7. QED BY ZenonT(40), <1>2, <1>3, <1>4, <1>5, <1>6

\* Opening the user profile empties it.
LEMMA OpenUserEffect ==
  ASSUME Types, NEW t \in Threads, OpenUser(t)
  PROVE  \E d \in Calls : /\ Continues(t, d) /\ d.pc = "user_text" /\ d.name = call[t].name
                          /\ d.creating = call[t].creating
<1> DEFINE c == call[t]
           d == [c EXCEPT !.pc = "user_text"]
<1>1. c \in Calls /\ Placed(t, c) /\ c.pc = "user"
  BY DEF Types, OpenUser, At
<1>2. d \in Calls /\ d.pc = "user_text" /\ d.name = c.name /\ d.event = c.event
      /\ d.creating = c.creating
  BY <1>1 DEF Calls, Pcs, Forming
<1>3. Placed(t, d)
  <2> HIDE DEF d
  <2> QED BY <1>1, <1>2 DEF Placed, Moving, Early, Profiling, Forming
<1>4. QED BY <1>2, <1>3 DEF Continues, OpenUser

\* Writing the user profile makes it whole.
LEMMA WriteUserEffect ==
  ASSUME Types, NEW t \in Threads, WriteUser(t)
  PROVE  /\ call[t].name \in Names
         /\ \E d \in Calls :
              /\ Continues(t, d)
              /\ \/ d = Idle
                 \/ t # "gui" /\ d.pc = "move" /\ d.name = call[t].name /\ ~d.creating
                 \/ /\ t = "gui" /\ d.pc = "profile" /\ d.name = call[t].name
                    /\ Readable(d.name) /\ d.keep = profile[d.name]
                    /\ d.event = NoEvent /\ ~d.creating
              /\ d = Idle => t = "gui"
<1> DEFINE c == call[t]
           n == c.name
<1>1. c \in Calls /\ Placed(t, c) /\ c.pc = "user_text"
  BY DEF Types, WriteUser, At
<1>2. n \in Names
  BY <1>1 DEF Placed, Early
<1>3. CASE t = "gui" /\ Readable(n) /\ Go(t, [call[t] EXCEPT !.pc = "profile", !.keep = profile[n]])
  <2> DEFINE d == [c EXCEPT !.pc = "profile", !.keep = profile[n]]
  <2>1. profile[n] \in Profiles /\ profile[n] \in Identities
    BY <1>2, <1>3 DEF Types, Profiles, Readable
  <2>2. c.event = NoEvent /\ ~c.creating
    BY <1>1, <1>3 DEF Placed
  <2>3. d \in Calls /\ d.pc = "profile" /\ d.name = n /\ d.keep = profile[n]
        /\ d.event = NoEvent /\ ~d.creating
    BY <1>1, <2>1, <2>2 DEF Calls, Pcs, Profiling
  <2>4. Placed(t, d) /\ d # Idle
    <3> HIDE DEF d
    <3> QED BY <1>1, <1>2, <1>3, <2>1, <2>3 DEF Placed, Early, Profiling, Moving, Forming, Idle
  <2>5. Continues(t, d)
    BY <1>3, <2>3, <2>4 DEF Continues
  <2> HIDE DEF d
  <2>6. QED BY <1>2, <1>3, <2>3, <2>4, <2>5
<1>4. CASE t = "gui" /\ Go(t, Idle)
  BY <1>2, <1>4, IdleType DEF Continues
<1>5. CASE t # "gui" /\ Go(t, [call[t] EXCEPT !.pc = "move", !.creating = FALSE])
  <2> DEFINE d == [c EXCEPT !.pc = "move", !.creating = FALSE]
  <2>1. d \in Calls /\ d.pc = "move" /\ d.name = n /\ ~d.creating
    BY <1>1 DEF Calls, Pcs
  <2>2. Placed(t, d) /\ d # Idle
    <3> HIDE DEF d
    <3> QED BY <1>1, <1>2, <1>5, <2>1 DEF Placed, Early, Profiling, Moving, Idle
  <2>3. Continues(t, d)
    BY <1>5, <2>1, <2>2 DEF Continues
  <2> HIDE DEF d
  <2>4. QED BY <1>2, <1>5, <2>1, <2>2, <2>3
<1>6. QED BY <1>3, <1>4, <1>5 DEF WriteUser

\* The operator's save begins a call of the GUI thread.
LEMMA SaveFormEffect ==
  ASSUME Types, SaveForm
  PROVE  \E d \in Calls : /\ Continues("gui", d) /\ d.pc = "user" /\ ~d.creating
                          /\ d.name \in dirs /\ state[d.name] \notin Unreadable
                          /\ user[d.name] # "torn"
<1>1. PICK n \in dirs : /\ state[n] \notin Unreadable /\ user[n] # "torn"
                        /\ Go("gui", [Idle EXCEPT !.pc = "user", !.name = n])
  BY DEF SaveForm
<1> DEFINE d == [Idle EXCEPT !.pc = "user", !.name = n]
<1>2. n \in Names
  BY DEF Types
<1>3. d \in Calls /\ d.pc = "user" /\ ~d.creating /\ d.name = n /\ d.event = NoEvent
  BY <1>2, IdleType DEF Calls, Pcs, Forming, Idle
<1>4. Placed("gui", d)
  <2> HIDE DEF d
  <2> QED BY <1>2, <1>3 DEF Placed, Early, Forming, Profiling, Moving
<1>5. QED BY <1>1, <1>3, <1>4 DEF Continues

\* A poll that finds a new signature marks it seen and begins a call.
LEMMA NoticeEffect ==
  ASSUME Types, NEW w \in Watchers, Notice(w)
  PROVE  \E d \in Calls :
           /\ Placed(w, d) /\ call' = [call EXCEPT ![w] = d] /\ UNCHANGED alive
           /\ d.pc = "probe" /\ ~d.creating /\ d.event \in attached
           /\ fresh' = fresh \ {d.event}
           /\ seen' = [seen EXCEPT ![w] = @ \cup {d.event.serial}]
<1>1. PICK e \in attached :
        /\ e.watcher = w /\ fresh' = fresh \ {e} /\ seen' = [seen EXCEPT ![w] = @ \cup {e.serial}]
        /\ call' = [call EXCEPT ![w] = [Idle EXCEPT !.pc = "probe", !.event = e]]
        /\ UNCHANGED alive
  BY DEF Notice
<1> DEFINE d == [Idle EXCEPT !.pc = "probe", !.event = e]
<1>2. e \in Events /\ w # "gui"
  BY Constants DEF Types
<1>3. d \in Calls /\ d.pc = "probe" /\ ~d.creating /\ d.event = e
  BY <1>2, IdleType DEF Calls, Pcs, Early, Idle
<1>4. Placed(w, d)
  <2> HIDE DEF d
  <2> QED BY <1>1, <1>2, <1>3 DEF Placed, Early, Forming, Profiling, Moving
<1>5. QED BY <1>1, <1>3, <1>4

-----------------------------------------------------------------------------
(* Every step keeps the types.                                             *)

\* The death of a watcher's thread ends its call and changes no file.
LEMMA DieTypes ==
  ASSUME Types, NEW w \in Watchers, Die(w)
  PROVE  /\ call' = [call EXCEPT ![w] = Idle] /\ alive' \in [Watchers -> BOOLEAN]
         /\ UNCHANGED <<seen, disk>>
         /\ call' \in [Threads -> Calls] /\ \A s \in Threads : Placed(s, call'[s])
         /\ call'[w] = Idle /\ \A s \in Threads \ {w} : call'[s] = call[s]
         /\ \A v \in Watchers \ {w} : alive'[v] = alive[v]
<1>1. w \in Threads /\ call' = [call EXCEPT ![w] = Idle]
  BY Constants DEF Die
<1>2. alive' \in [Watchers -> BOOLEAN] /\ \A v \in Watchers \ {w} : alive'[v] = alive[v]
  BY DEF Die, Types
<1>3. QED BY <1>1, <1>2, GoTypes, IdleType DEF Die

\* A thread that goes on keeps the types.
LEMMA ContinuesTypes ==
  ASSUME Types, NEW t \in Threads, NEW d \in Calls, Continues(t, d)
  PROVE  /\ UNCHANGED <<seen, alive>>
         /\ call' \in [Threads -> Calls] /\ \A s \in Threads : Placed(s, call'[s])
         /\ call'[t] = d /\ \A s \in Threads \ {t} : call'[s] = call[s]
BY GoTypes DEF Continues, Go

\* Every step of a handler keeps the types.
LEMMA HandleTypes == ASSUME Types, NEW w \in Watchers, Handle(w) PROVE Types'
<1> w \in Threads
  BY Constants
<1>1. CASE Probe(w)
  <2>1. UNCHANGED disk /\ World
    BY <1>1, ProbeEffect
  <2>2. CASE Die(w)
    BY <2>1, <2>2, DieTypes DEF Types, World, disk
  <2>3. ASSUME NEW d \in Calls, Continues(w, d) PROVE Types'
    BY <2>1, <2>3, ContinuesTypes DEF Types, World, disk
  <2>4. QED BY <1>1, <2>2, <2>3, ProbeEffect
<1>2. CASE Lookup(w)
  <2>1. UNCHANGED <<profile, state, staging, user>> /\ World
    BY <1>2, LookupEffect
  <2>2. CASE Die(w)
    BY <2>1, <2>2, DieTypes DEF Types, World, disk
  <2>3. ASSUME NEW d \in Calls, Continues(w, d), dirs' \subseteq Names PROVE Types'
    BY <2>1, <2>3, ContinuesTypes DEF Types, World
  <2>4. CASE \E d \in Calls : Continues(w, d) /\ dirs' = dirs
    BY <2>3, <2>4 DEF Types
  <2>5. CASE \E d \in Calls : Continues(w, d) /\ d.pc = "profile" /\ dirs' = dirs \cup {d.name}
    <3>1. PICK d \in Calls : Continues(w, d) /\ d.pc = "profile" /\ dirs' = dirs \cup {d.name}
      BY <2>5
    <3>2. d.name \in Names
      BY <3>1 DEF Continues, Placed, Early
    <3>3. QED BY <2>3, <3>1, <3>2 DEF Types
  <2>6. QED BY <1>2, <2>2, <2>4, <2>5, LookupEffect
<1>3. CASE LoadState(w)
  <2>1. UNCHANGED disk /\ World
    BY <1>3, LoadStateEffect
  <2>2. CASE Die(w)
    BY <2>1, <2>2, DieTypes DEF Types, World, disk
  <2>3. ASSUME NEW d \in Calls, Continues(w, d) PROVE Types'
    BY <2>1, <2>3, ContinuesTypes DEF Types, World, disk
  <2>4. QED BY <1>3, <2>2, <2>3, LoadStateEffect
<1>4. CASE OpenStaging(w)
  <2>1. PICK d \in Calls : Continues(w, d)
    BY <1>4, OpenStagingEffect
  <2>2. staging' \in [Names -> Contents]
    BY <1>4 DEF Types, OpenStaging, Contents, Unreadable
  <2>3. QED BY <1>4, <2>1, <2>2, ContinuesTypes DEF Types, World, OpenStaging
<1>5. CASE WriteStaging(w)
  <2>1. PICK d \in Calls : Continues(w, d)
    BY <1>5, WriteStagingEffect
  <2>2. call[w].target \in Contents
    BY <1>5 DEF WriteStaging, At, Types, Placed, Moving, Contents
  <2>3. staging' \in [Names -> Contents] /\ state' \in [Names -> Contents]
    BY <1>5, <2>2 DEF Types, WriteStaging
  <2>4. QED BY <1>5, <2>1, <2>3, ContinuesTypes DEF Types, World, WriteStaging
<1>6. CASE ReplaceState(w)
  <2>1. CASE Die(w)
    BY <1>6, <2>1, ReplaceStateEffect, DieTypes DEF Types, World, disk
  <2>2. CASE /\ staging[call[w].name] # "none" /\ UNCHANGED alive
             /\ state' = [state EXCEPT ![call[w].name] = staging[call[w].name]]
             /\ staging' = [staging EXCEPT ![call[w].name] = "none"]
             /\ call' \in [Threads -> Calls] /\ \A s \in Threads : Placed(s, call'[s])
    <3>1. state' \in [Names -> Contents] /\ staging' \in [Names -> Contents]
      BY <1>6, <2>2, ReplaceStateEffect DEF Types, Contents, Unreadable
    <3>2. QED BY <1>6, <2>2, <3>1, ReplaceStateEffect DEF Types, World
  <2>3. QED BY <1>6, <2>1, <2>2, ReplaceStateEffect
<1>7. CASE LoadUser(w)
  <2>1. UNCHANGED disk /\ World
    BY <1>7, LoadUserEffect
  <2>2. CASE Die(w)
    BY <2>1, <2>2, DieTypes DEF Types, World, disk
  <2>3. ASSUME NEW d \in Calls, Continues(w, d) PROVE Types'
    BY <2>1, <2>3, ContinuesTypes DEF Types, World, disk
  <2>4. QED BY <1>7, <2>2, <2>3, LoadUserEffect
<1>8. QED BY <1>1, <1>2, <1>3, <1>4, <1>5, <1>6, <1>7 DEF Handle

\* Every write of a file keeps the types.
LEMMA FileStepTypes == ASSUME Types, NEW t \in Threads, FileStep(t) PROVE Types'
<1>1. CASE OpenProfile(t)
  <2>1. PICK d \in Calls : Continues(t, d)
    BY <1>1, OpenProfileEffect
  <2>2. profile' \in [Names -> Profiles]
    BY <1>1 DEF Types, OpenProfile, Profiles
  <2>3. QED BY <1>1, <2>1, <2>2, ContinuesTypes DEF Types, World, OpenProfile
<1>2. CASE WriteProfile(t)
  <2>1. Written(call[t]) \in Identities /\ \E d \in Calls : Continues(t, d)
    BY <1>2, WriteProfileEffect
  <2>2. profile' \in [Names -> Profiles]
    BY <1>2, <2>1 DEF Types, WriteProfile, Profiles, Written
  <2>3. QED BY <1>2, <2>1, <2>2, ContinuesTypes DEF Types, World, WriteProfile
<1>3. CASE OpenUser(t)
  <2>1. PICK d \in Calls : Continues(t, d)
    BY <1>3, OpenUserEffect
  <2>2. user' \in [Names -> Unreadable \cup {"default", "saved"}]
    BY <1>3 DEF Types, OpenUser, Unreadable
  <2>3. QED BY <1>3, <2>1, <2>2, ContinuesTypes DEF Types, World, OpenUser
<1>4. CASE WriteUser(t)
  <2>1. PICK d \in Calls : Continues(t, d)
    BY <1>4, WriteUserEffect
  <2>2. user' \in [Names -> Unreadable \cup {"default", "saved"}]
    BY <1>4 DEF Types, WriteUser, Unreadable
  <2>3. QED BY <1>4, <2>1, <2>2, ContinuesTypes DEF Types, WriteUser
<1>5. QED BY <1>1, <1>2, <1>3, <1>4 DEF FileStep

\* Every step keeps the types.
LEMMA StepTypes == Types /\ [Next]_vars => Types'
<1> SUFFICES ASSUME Types, [Next]_vars PROVE Types'
  OBVIOUS
<1>1. ASSUME NEW e \in Events, Attach(e) \/ Detach(e) PROVE Types'
  BY <1>1 DEF Attach, Detach, Types, disk
<1>2. CASE Midnight
  BY <1>2, BoundsAssumption DEF Midnight, Types, Days, disk
<1>3. CASE Crash
  <2>1. call' \in [Threads -> Calls] /\ \A t \in Threads : Placed(t, call'[t])
    BY <1>3, IdleType DEF Crash
  <2>2. alive' \in [Watchers -> BOOLEAN] /\ seen' \in [Watchers -> SUBSET STRING]
    BY <1>3 DEF Crash
  <2>3. QED BY <1>3, <2>1, <2>2 DEF Crash, Types, disk
<1>4. CASE SaveForm
  <2>1. PICK d \in Calls : Continues("gui", d)
    BY <1>4, SaveFormEffect
  <2>2. QED BY <1>4, <2>1, Constants, ContinuesTypes DEF Types, World, SaveForm, disk
<1>5. ASSUME NEW w \in Watchers, Notice(w) PROVE Types'
  <2>1. PICK d \in Calls :
           /\ Placed(w, d) /\ call' = [call EXCEPT ![w] = d] /\ UNCHANGED alive
           /\ d.event \in attached /\ fresh' = fresh \ {d.event}
           /\ seen' = [seen EXCEPT ![w] = @ \cup {d.event.serial}]
    BY <1>5, NoticeEffect
  <2>2. d.event.serial \in STRING
    BY <2>1, Constants DEF Types
  <2>3. seen' \in [Watchers -> SUBSET STRING]
    BY <2>1, <2>2 DEF Types
  <2>4. call' \in [Threads -> Calls] /\ \A s \in Threads : Placed(s, call'[s])
    BY <2>1, GoTypes, Constants
  <2>5. QED BY <1>5, <2>1, <2>3, <2>4 DEF Types, Notice, disk
<1>6. CASE UNCHANGED vars
  BY <1>6 DEF vars, disk, Types
<1>7. QED BY <1>1, <1>2, <1>3, <1>4, <1>5, <1>6, HandleTypes, FileStepTypes DEF Next

\* The inductive form of TypeCorrect: a call's locals also fit the point where it
\* stands (session_manager.py).
THEOREM TypeInvariant == Spec => []Types
BY InitTypes, StepTypes, PTL DEF Spec

\* Files and memory keep their types, whatever the calls that overlap and the
\* crashes between their writes (session_manager.py).
THEOREM TypeCorrect == Spec => []TypeOK
<1>1. Types => TypeOK
  BY DEF Types, TypeOK, Profiles, Contents, Readable, Calls
<1>2. QED BY <1>1, TypeInvariant, PTL

-----------------------------------------------------------------------------
(* A session's state, its temporary file and every call past the opening   *)
(* of device-profile.json have the profile beside them.                    *)

Has(n) == profile[n] # NoProfile
Knows(t, c) == \/ c.pc \in Early \/ (c.pc = "profile" /\ t # "gui")
               \/ Has(c.name)
Beside ==
  /\ \A n \in Names : state[n] # "none" \/ staging[n] # "none" => Has(n)
  /\ \A t \in Threads : Knows(t, call[t])

\* A step of one thread keeps Beside if no profile goes away.
LEMMA BesideStep ==
  ASSUME Types, Beside, NEW t \in Threads,
         \A n \in Names : Has(n) => profile'[n] # NoProfile,
         \A n \in Names : state'[n] # "none" \/ staging'[n] # "none" =>
                            state[n] # "none" \/ staging[n] # "none" \/ profile[n] # NoProfile,
         \A s \in Threads \ {t} : SameBut(call[s], call'[s]),
         call'[t].pc \in Early \/ (call'[t].pc = "profile" /\ t # "gui")
           \/ profile'[call'[t].name] # NoProfile
  PROVE  Beside'
<1>1. \A n \in Names : state'[n] # "none" \/ staging'[n] # "none" => Has(n)'
  BY DEF Beside, Has
<1>2. ASSUME NEW s \in Threads \ {t} PROVE Knows(s, call[s])'
  <2>1. Knows(s, call[s]) /\ Placed(s, call[s]) /\ SameBut(call[s], call'[s])
    BY DEF Beside, Types
  <2>2. CASE Has(call[s].name) /\ call[s].pc \notin Early
    BY <2>1, <2>2 DEF Placed, SameBut, Knows, Has
  <2>3. CASE call[s].pc \in Early \/ (call[s].pc = "profile" /\ s # "gui")
    BY <2>1, <2>3 DEF SameBut, Knows
  <2>4. QED BY <2>1, <2>2, <2>3 DEF Knows
<1>3. Knows(t, call[t])'
  BY DEF Knows, Has
<1>4. QED BY <1>1, <1>2, <1>3 DEF Beside

\* A handler's step writes a state only beside a profile.
LEMMA BesideHandle == ASSUME Types, Beside, NEW w \in Watchers, Handle(w) PROVE Beside'
<1> w \in Threads /\ w # "gui"
  BY Constants
<1> USE DEF SameBut
<1>0. ASSUME UNCHANGED <<profile, state, staging>>, Die(w) PROVE Beside'
  BY <1>0, BesideStep, DieTypes DEF Has, Idle, Early
<1>c. ASSUME UNCHANGED <<profile, state, staging>>, NEW d \in Calls, Continues(w, d),
             d.pc \in Early \/ d.pc = "profile" \/ Has(d.name)
      PROVE  Beside'
  BY <1>c, BesideStep, ContinuesTypes DEF Has
<1>h. ASSUME call[w].pc \notin Early, call[w].pc # "profile" PROVE Has(call[w].name)
  BY <1>h DEF Beside, Knows
<1>1. CASE Probe(w)
  BY <1>0, <1>c, <1>1, ProbeEffect DEF disk, Early
<1>2. CASE Lookup(w)
  BY <1>0, <1>c, <1>2, LookupEffect
<1>3. CASE LoadState(w)
  <2>1. call[w].pc = "move" /\ UNCHANGED disk
    BY ZenonT(40), <1>3, LoadStateEffect DEF LoadState, At
  <2>2. QED BY SMTT(30), <1>0, <1>c, <1>h, <1>3, <2>1, LoadStateEffect DEF disk, Early
<1>4. CASE OpenStaging(w)
  <2>1. PICK d \in Calls : Continues(w, d) /\ d.name = call[w].name
    BY <1>4, OpenStagingEffect
  <2>2. Has(call[w].name)
    BY <1>h, <1>4 DEF OpenStaging, At, Early
  <2>3. \A n \in Names : staging'[n] # "none" => staging[n] # "none" \/ Has(n)
    BY <1>4, <2>2 DEF OpenStaging, Types
  <2>4. UNCHANGED <<profile, state>>
    BY <1>4 DEF OpenStaging
  <2>5. QED BY <2>1, <2>2, <2>3, <2>4, BesideStep, ContinuesTypes DEF Has
<1>5. CASE WriteStaging(w)
  <2>1. PICK d \in Calls : Continues(w, d) /\ d.name = call[w].name
    BY <1>5, WriteStagingEffect
  <2>2. Has(call[w].name)
    BY <1>h, <1>5 DEF WriteStaging, At, Early
  <2>3. \A n \in Names : staging'[n] # "none" \/ state'[n] # "none"
                           => staging[n] # "none" \/ state[n] # "none" \/ Has(n)
    BY <1>5, <2>2 DEF WriteStaging, Types
  <2>4. UNCHANGED profile
    BY <1>5 DEF WriteStaging
  <2>5. QED BY <2>1, <2>2, <2>3, <2>4, BesideStep, ContinuesTypes DEF Has
<1>6. CASE ReplaceState(w)
  <2>1. UNCHANGED profile /\ Has(call[w].name)
    BY <1>h, <1>6, ReplaceStateEffect DEF Early
  <2>2. CASE Die(w)
    BY <1>0, <2>1, <2>2 DEF Die, disk
  <2>3. CASE ~Die(w)
    <3>1. \A n \in Names : staging'[n] # "none" \/ state'[n] # "none"
                             => staging[n] # "none" \/ state[n] # "none" \/ Has(n)
      BY <1>6, <2>1, <2>3, ReplaceStateEffect DEF Types
    <3>2. \A s \in Threads \ {w} : SameBut(call[s], call'[s])
      BY <1>6, <2>3, ReplaceStateEffect
    <3>3. call'[w].name = call[w].name
      BY <1>6, <2>3, ReplaceStateEffect
    <3>4. QED BY <2>1, <3>1, <3>2, <3>3, BesideStep DEF Has
  <2>4. QED BY <2>2, <2>3
<1>7. CASE LoadUser(w)
  <2>1. call[w].pc = "move" /\ UNCHANGED disk
    BY ZenonT(40), <1>7, LoadUserEffect DEF LoadUser, At
  <2>2. Idle.pc \in Early
    BY DEF Idle, Early
  <2>3. QED BY SMTT(30), <1>0, <1>c, <1>h, <1>7, <2>1, <2>2, LoadUserEffect DEF disk, Early
<1>8. QED BY <1>1, <1>2, <1>3, <1>4, <1>5, <1>6, <1>7 DEF Handle

\* A write of a file takes no profile away.
LEMMA BesideFile == ASSUME Types, Beside, NEW t \in Threads, FileStep(t) PROVE Beside'
<1> USE DEF SameBut
<1>h. ASSUME call[t].pc \in {"profile_text", "user", "user_text"}
      PROVE  Has(call[t].name) /\ call[t].name \in Names
  BY <1>h DEF Beside, Knows, Types, Placed, Early
<1>i. Idle.pc \in Early
  BY DEF Idle, Early
<1>1. CASE OpenProfile(t)
  <2>1. PICK d \in Calls : Continues(t, d) /\ d.name = call[t].name
    BY <1>1, OpenProfileEffect
  <2>2. call[t].name \in Names
    BY <1>1 DEF Types, Placed, OpenProfile, At, Early
  <2>3. \A n \in Names : Has(n) => profile'[n] # NoProfile
    BY <1>1, NoIdentity DEF OpenProfile, Types, Has
  <2>4. profile'[call[t].name] # NoProfile
    BY <1>1, <2>2, NoIdentity DEF OpenProfile, Types
  <2>5. UNCHANGED <<state, staging>>
    BY <1>1 DEF OpenProfile
  <2>6. QED BY <2>1, <2>3, <2>4, <2>5, BesideStep, ContinuesTypes
<1>2. CASE WriteProfile(t)
  <2>1. PICK d \in Calls : Continues(t, d) /\ (d = Idle \/ d.name = call[t].name)
    BY <1>2, WriteProfileEffect
  <2>2. Has(call[t].name) /\ call[t].name \in Names
    BY <1>h, <1>2 DEF WriteProfile, At
  <2>3. profile' = [profile EXCEPT ![call[t].name] = Written(call[t])]
        /\ Written(call[t]) # NoProfile
    BY <1>2, NoIdentity, WriteProfileEffect DEF WriteProfile, Written
  <2>4. \A n \in Names : Has(n) => profile'[n] # NoProfile
    BY <2>3 DEF Types, Has
  <2>5. UNCHANGED <<state, staging>>
    BY <1>2 DEF WriteProfile
  <2>6. QED BY <1>i, <2>1, <2>2, <2>4, <2>5, BesideStep, ContinuesTypes
<1>3. CASE OpenUser(t)
  <2>1. PICK d \in Calls : Continues(t, d) /\ d.name = call[t].name
    BY <1>3, OpenUserEffect
  <2>2. Has(call[t].name) /\ UNCHANGED <<profile, state, staging>>
    BY <1>h, <1>3 DEF OpenUser, At
  <2>3. QED BY <2>1, <2>2, BesideStep, ContinuesTypes DEF Has
<1>4. CASE WriteUser(t)
  <2>1. PICK d \in Calls : Continues(t, d) /\ (d = Idle \/ d.name = call[t].name)
    BY <1>4, WriteUserEffect
  <2>2. Has(call[t].name) /\ UNCHANGED <<profile, state, staging>>
    BY <1>h, <1>4 DEF WriteUser, At
  <2>3. QED BY <1>i, <2>1, <2>2, BesideStep, ContinuesTypes DEF Has
<1>5. QED BY <1>1, <1>2, <1>3, <1>4 DEF FileStep

\* Every step keeps the profile beside the state.
LEMMA BesideNext == Types /\ Beside /\ [Next]_vars => Beside'
<1> SUFFICES ASSUME Types, Beside, [Next]_vars PROVE Beside'
  OBVIOUS
<1>1. CASE UNCHANGED <<profile, state, staging, call>>
  BY <1>1 DEF Beside, Has, Knows
<1>2. CASE Crash
  BY <1>2 DEF Crash, disk, Beside, Has, Knows, Idle, Early
<1>3. CASE SaveForm
  <2>1. PICK d \in Calls : /\ Continues("gui", d) /\ d.name \in dirs
                           /\ state[d.name] \notin Unreadable
    BY <1>3, SaveFormEffect
  <2>2. Has(d.name)
    BY <2>1 DEF Beside, Types, Unreadable
  <2>3. UNCHANGED <<profile, state, staging>>
    BY <1>3 DEF SaveForm, disk
  <2>4. QED BY <2>1, <2>2, <2>3, Constants, BesideStep, ContinuesTypes DEF Has, SameBut
<1>4. ASSUME NEW w \in Watchers, Notice(w) PROVE Beside'
  <2>1. PICK d \in Calls : /\ Placed(w, d) /\ call' = [call EXCEPT ![w] = d] /\ d.pc = "probe"
    BY <1>4, NoticeEffect
  <2>2. w \in Threads /\ UNCHANGED <<profile, state, staging>>
    BY <1>4, Constants DEF Notice, disk
  <2>3. QED BY <2>1, <2>2, BesideStep, GoTypes DEF Has, SameBut, Early
<1>5. ASSUME NEW e \in Events, Attach(e) \/ Detach(e) PROVE Beside'
  BY <1>1, <1>5 DEF Attach, Detach, disk
<1>6. CASE Midnight \/ UNCHANGED vars
  BY <1>1, <1>6 DEF Midnight, vars, disk
<1>7. QED BY <1>2, <1>3, <1>4, <1>5, <1>6, BesideHandle, BesideFile DEF Next

\* A state always has a profile beside it, whole or torn.
LEMMA BesideInvariant == Spec => []Beside
<1>1. Init => Beside
  BY DEF Init, Beside, Has, Knows, Idle, Early
<1>2. QED BY <1>1, BesideNext, TypeInvariant, PTL DEF Spec

\* Whoever finds a session by its session-state.json finds a device-profile.json
\* beside it: for any number of overlapping calls and of crashes, because
\* create_or_resume writes the profile first and nothing removes one.
THEOREM ProfileTheorem == Spec => []StateHasProfile
<1>1. Beside => StateHasProfile
  BY DEF Beside, Has, StateHasProfile
<1>2. QED BY <1>1, BesideInvariant, PTL

-----------------------------------------------------------------------------
(* Sessions of the USB watcher.  What is written to a session is of the    *)
(* kind of its name, and no two of them have the same maker and model.     *)

Usb(n) == n[1].watcher = "usb"
Kin(n, p) ==
  \E f \in Events :
    /\ p = Identity(f)
    /\ Usb(n) <=> f.watcher = "usb"
    /\ Usb(n) => f.maker = n[1].maker /\ f.model = n[1].model

Works(t, n) == call[t].pc \in Profiling /\ call[t].name = n
Live(n) == Readable(n) \/ \E t \in Threads : Works(t, n)
Differ(m, n) == Usb(m) /\ Usb(n) => m[1].maker # n[1].maker \/ m[1].model # n[1].model
Apart ==
  /\ \A n \in Names : Readable(n) => Kin(n, profile[n])
  /\ \A t \in Threads : call[t].pc \in Profiling => Kin(call[t].name, Written(call[t]))
  /\ \A m, n \in Names : m # n /\ Live(m) /\ Live(n) => Differ(m, n)

\* Coarse serials are those of the USB watcher.
LEMMA CoarseIsUsb == ASSUME NEW e \in Events PROVE IsCoarse(e.serial) <=> e.watcher = "usb"
BY UsbAssumption DEF IsCoarse, Coarse

\* A session's name tells the device it was made for.
LEMMA NameIsKin ==
  ASSUME NEW e \in Events, NEW d \in Days
  PROVE  Name(e, d) \in Names /\ Name(e, d)[1] = e /\ Kin(Name(e, d), Identity(e))
BY DEF Name, Names, Kin, Usb

\* What a profile shows agrees with the name of its session.
LEMMA KinFields ==
  ASSUME NEW n \in Names, NEW p, Kin(n, p)
  PROVE  /\ IsCoarse(p.serial) <=> Usb(n)
         /\ Usb(n) => p.maker = n[1].maker /\ p.model = n[1].model
<1>1. PICK f \in Events : /\ p = Identity(f) /\ (Usb(n) <=> f.watcher = "usb")
                          /\ Usb(n) => f.maker = n[1].maker /\ f.model = n[1].model
  BY DEF Kin
<1>2. p.serial = f.serial /\ p.maker = f.maker /\ p.model = f.model
  BY <1>1 DEF Identity
<1>3. QED BY <1>1, <1>2, CoarseIsUsb

\* A session found by its serial, or taken over, is of the event's kind.
LEMMA FoundIsKin ==
  ASSUME Types, Apart, NEW e \in Events, NEW n \in Waiting(e.serial) \cup UpgradeCandidates(e)
  PROVE  n \in Names /\ Readable(n) /\ Kin(n, Identity(e))
<1>1. n \in Names /\ Readable(n)
  BY DEF Waiting, UpgradeCandidates
<1>2. PICK f \in Events : /\ profile[n] = Identity(f) /\ (Usb(n) <=> f.watcher = "usb")
                          /\ Usb(n) => f.maker = n[1].maker /\ f.model = n[1].model
  BY <1>1 DEF Apart, Kin
<1>3. profile[n].serial = f.serial /\ profile[n].maker = f.maker /\ profile[n].model = f.model
  BY <1>2 DEF Identity
<1>4. CASE n \in Waiting(e.serial)
  <2>1. f.serial = e.serial
    BY <1>3, <1>4 DEF Waiting
  <2>2. QED BY <1>1, <1>2, <2>1, UsbAssumption DEF Kin
<1>5. CASE n \in UpgradeCandidates(e)
  <2>1. f.watcher = "usb" /\ f.maker = e.maker /\ f.model = e.model
    BY <1>3, <1>5, CoarseIsUsb DEF UpgradeCandidates
  <2>2. QED BY <1>1, <1>2, <2>1, UsbAssumption DEF Kin
<1>6. QED BY <1>4, <1>5

\* A new session differs from all that are there: what the USB watcher cannot
\* tell apart is taken over, and only its own thread writes USB sessions.
LEMMA NewDiffers ==
  ASSUME Types, Beside, Apart, NEW w \in Watchers, call[w].pc = "lookup",
         NEW e \in Events, e.watcher = w, Torn = {}, UpgradeCandidates(e) = {},
         NEW n \in Names, n[1] = e, NEW m \in Names, Live(m)
  PROVE  Differ(m, n)
<1> SUFFICES ASSUME Usb(m), Usb(n) PROVE m[1].maker # e.maker \/ m[1].model # e.model
  BY DEF Differ
<1>1. w = "usb" /\ w \in Threads
  BY Constants DEF Usb
<1>2. CASE Readable(m)
  <2>1. Kin(m, profile[m])
    BY <1>2 DEF Apart
  <2>2. QED BY <1>2, <2>1, KinFields DEF UpgradeCandidates
<1>3. ASSUME NEW t \in Threads, Works(t, m) PROVE Readable(m)
  <2>1. Kin(m, Written(call[t])) /\ Placed(t, call[t]) /\ Knows(t, call[t])
    BY <1>3 DEF Apart, Works, Types, Beside
  <2>2. CASE t = "gui"
    <3>1. Has(m)
      BY <1>3, <2>1, <2>2 DEF Works, Knows, Early, Profiling
    <3>2. QED BY <3>1 DEF Has, Torn, Readable
  <2>3. CASE t # "gui"
    <3>1. call[t].event \in Events /\ call[t].event.watcher = t /\ call[t].event # NoEvent
      BY <1>3, <2>1, <2>3, Constants DEF Works, Placed
    <3>2. Kin(m, Identity(call[t].event))
      BY <2>1, <3>1 DEF Written
    <3>3. Identity(call[t].event).serial = call[t].event.serial
      BY DEF Identity
    <3>4. t = "usb"
      BY <3>1, <3>2, <3>3, KinFields, CoarseIsUsb
    <3>5. QED BY <1>1, <1>3, <3>4 DEF Works, Profiling
  <2>4. QED BY <2>2, <2>3
<1>4. QED BY <1>2, <1>3 DEF Live

\* A step of one thread keeps Apart if what it goes on to write is of its
\* session's kind, and the session is there or unlike the others.
LEMMA ApartStep ==
  ASSUME Types, Apart, NEW t \in Threads,
         \A s \in Threads \ {t} : SameBut(call[s], call'[s]),
         \A n \in Names : Readable(n)' =>
            \/ Readable(n) /\ profile'[n] = profile[n]
            \/ Works(t, n) /\ profile'[n] = Written(call[t]),
         call'[t].pc \in Profiling =>
            /\ call'[t].name \in Names /\ Kin(call'[t].name, Written(call'[t]))
            /\ \/ Live(call'[t].name)
               \/ \A m \in Names : Live(m) => Differ(m, call'[t].name)
  PROVE  Apart'
<1> DEFINE d == call'[t]
<1>1. \A n \in Names : Readable(n)' => Live(n) /\ Kin(n, profile'[n])
  BY DEF Apart, Live, Works
<1>2. \A s \in Threads \ {t} : /\ call'[s].pc = call[s].pc /\ call'[s].name = call[s].name
                               /\ Written(call'[s]) = Written(call[s])
  BY DEF SameBut, Written
<1>3. \A s \in Threads : call'[s].pc \in Profiling => Kin(call'[s].name, Written(call'[s]))
  BY <1>2 DEF Apart
<1>4. \A n \in Names : Live(n)' => Live(n) \/ (d.pc \in Profiling /\ d.name = n)
  <2> SUFFICES ASSUME NEW n \in Names, Live(n)', ~(d.pc \in Profiling /\ d.name = n)
               PROVE  Live(n)
    OBVIOUS
  <2>1. CASE Readable(n)'
    BY <1>1, <2>1
  <2>2. ASSUME NEW s \in Threads, Works(s, n)' PROVE Live(n)
    <3>1. s # t /\ call'[s].pc \in Profiling /\ call'[s].name = n
      BY <2>2 DEF Works
    <3>2. QED BY <1>2, <3>1 DEF Live, Works
  <2>3. Readable(n)' \/ \E s \in Threads : Works(s, n)'
    BY DEF Live
  <2>4. QED BY <2>1, <2>2, <2>3
<1>5. \A m, n \in Names : Differ(m, n) <=> Differ(n, m)
  BY DEF Differ
<1>6. \A m, n \in Names : m # n /\ Live(m)' /\ Live(n)' => Differ(m, n)
  BY <1>4, <1>5 DEF Apart
<1>7. QED BY <1>1, <1>3, <1>6 DEF Apart

\* A step that writes no profile keeps the coarse sessions apart.
LEMMA ApartQuiet ==
  ASSUME Types, Apart, NEW t \in Threads, UNCHANGED profile,
         \A s \in Threads \ {t} : SameBut(call[s], call'[s]), call'[t].pc \notin Profiling
  PROVE  Apart'
BY ApartStep DEF Readable

\* A handler makes a coarse session only when no live one fits.
LEMMA ApartHandle ==
  ASSUME Types, Beside, Apart, NEW w \in Watchers, Handle(w) PROVE Apart'
<1> w \in Threads /\ w # "gui"
  BY Constants
<1> USE DEF SameBut
<1>0. ASSUME UNCHANGED profile, Die(w) PROVE Apart'
  BY <1>0, ApartQuiet, DieTypes DEF Idle, Profiling
<1>c. ASSUME UNCHANGED profile, NEW d \in Calls, Continues(w, d), d.pc \notin Profiling
      PROVE  Apart'
  BY <1>c, ApartQuiet, ContinuesTypes
<1>k. ASSUME UNCHANGED profile, NEW d \in Calls, Continues(w, d), d.event \in Events,
             d.name \in Names, Kin(d.name, Identity(d.event)),
             Live(d.name) \/ \A m \in Names : Live(m) => Differ(m, d.name)
      PROVE  Apart'
  <2>1. Written(d) = Identity(d.event)
    BY <1>k, Constants DEF Written
  <2>2. call'[w] = d /\ \A s \in Threads \ {w} : call'[s] = call[s]
    BY <1>k, ContinuesTypes
  <2>3. QED BY <1>k, <2>1, <2>2, ApartStep DEF Readable
<1>1. CASE Probe(w)
  <2>1. UNCHANGED profile
    BY <1>1, ProbeEffect DEF disk
  <2>2. ASSUME NEW d \in Calls, Continues(w, d), d.event = call[w].event,
               d.pc = "profile", d.name \in Waiting(d.event.serial)
        PROVE  Apart'
    <3>1. d.event \in Events
      BY <1>1, <2>2 DEF Continues, Placed, Profiling
    <3>2. QED BY <1>k, <2>1, <2>2, <3>1, FoundIsKin DEF Live
  <2>3. QED BY <1>0, <1>c, <1>1, <2>1, <2>2, ProbeEffect DEF Profiling
<1>2. CASE Lookup(w)
  <2>1. UNCHANGED profile /\ call[w].event \in Events /\ call[w].event.watcher = w
        /\ call[w].pc = "lookup"
    BY ZenonT(40), <1>2, LookupEffect DEF Lookup, At
  <2>2. ASSUME NEW d \in Calls, Continues(w, d), d.event = call[w].event,
               Readable(d.name), d.pc = "profile",
               d.name = Name(d.event, day) \/ d.name \in UpgradeCandidates(d.event)
        PROVE  Apart'
    <3>1. d.name \in Names /\ day \in Days
      BY <2>2 DEF Continues, Placed, Early, Types
    <3>2. Kin(d.name, Identity(d.event))
      BY <2>1, <2>2, <3>1, NameIsKin, FoundIsKin
    <3>3. QED BY <1>k, <2>1, <2>2, <3>1, <3>2 DEF Live
  <2>3. ASSUME NEW d \in Calls, Continues(w, d), d.event = call[w].event,
               d.name = Name(d.event, day), Torn = {}, UpgradeCandidates(d.event) = {}
        PROVE  Apart'
    <3>1. day \in Days
      BY DEF Types
    <3>2. d.name \in Names /\ d.name[1] = d.event /\ Kin(d.name, Identity(d.event))
      BY <2>1, <2>3, <3>1, NameIsKin
    <3>3. \A m \in Names : Live(m) => Differ(m, d.name)
      BY <2>1, <2>3, <3>2, NewDiffers
    <3>4. QED BY <1>k, <2>1, <2>3, <3>2, <3>3
  <2>4. QED BY <1>0, <1>2, <2>1, <2>2, <2>3, LookupEffect
<1>3. CASE LoadState(w)
  BY <1>0, <1>c, <1>3, LoadStateEffect DEF disk, Profiling
<1>4. CASE OpenStaging(w)
  <2>1. UNCHANGED profile
    BY <1>4 DEF OpenStaging
  <2>2. QED BY <1>c, <1>4, <2>1, OpenStagingEffect DEF Profiling
<1>5. CASE WriteStaging(w)
  <2>1. UNCHANGED profile
    BY <1>5 DEF WriteStaging
  <2>2. QED BY <1>c, <1>5, <2>1, WriteStagingEffect DEF Profiling
<1>6. CASE ReplaceState(w)
  <2>1. UNCHANGED profile
    BY <1>6, ReplaceStateEffect
  <2>2. CASE ~Die(w)
    <3>1. call'[w].pc \notin Profiling /\ \A s \in Threads \ {w} : SameBut(call[s], call'[s])
      BY <1>6, <2>2, ReplaceStateEffect DEF Profiling
    <3>2. QED BY <2>1, <3>1, ApartQuiet
  <2>3. QED BY <1>0, <2>1, <2>2
<1>7. CASE LoadUser(w)
  <2>1. Idle.pc \notin Profiling
    BY DEF Idle, Profiling
  <2>2. QED BY <1>0, <1>c, <1>7, <2>1, LoadUserEffect DEF disk, Profiling
<1>8. QED BY <1>1, <1>2, <1>3, <1>4, <1>5, <1>6, <1>7 DEF Handle

\* Writes of files keep the coarse sessions apart.
LEMMA ApartFile == ASSUME Types, Apart, NEW t \in Threads, FileStep(t) PROVE Apart'
<1> USE DEF SameBut
<1>i. Idle.pc \notin Profiling
  BY DEF Idle, Profiling
<1>1. CASE OpenProfile(t)
  <2> DEFINE c == call[t]
  <2>1. PICK d \in Calls : /\ Continues(t, d) /\ d.name = c.name
                           /\ d.event = c.event /\ d.keep = c.keep
    BY <1>1, OpenProfileEffect
  <2>2. c.pc \in Profiling /\ c.name \in Names
    BY <1>1 DEF Types, Placed, OpenProfile, At, Early, Profiling
  <2>3. \A n \in Names : Readable(n)' => Readable(n) /\ profile'[n] = profile[n]
    BY <1>1 DEF OpenProfile, Types, Readable
  <2>4. Written(d) = Written(c) /\ Kin(c.name, Written(c)) /\ Live(c.name)
    BY <2>1, <2>2 DEF Written, Apart, Live, Works
  <2>5. call'[t] = d /\ \A s \in Threads \ {t} : call'[s] = call[s]
    BY <2>1, ContinuesTypes
  <2>6. QED BY <2>1, <2>2, <2>3, <2>4, <2>5, ApartStep
<1>2. CASE WriteProfile(t)
  <2>1. PICK d \in Calls : Continues(t, d) /\ d.pc \notin Profiling
    BY <1>2, <1>i, WriteProfileEffect DEF Profiling
  <2>2. call[t].pc \in Profiling
    BY <1>2 DEF WriteProfile, At, Profiling
  <2>3. profile' = [profile EXCEPT ![call[t].name] = Written(call[t])]
    BY <1>2 DEF WriteProfile, Written
  <2>4. \A n \in Names : Readable(n)' => \/ Readable(n) /\ profile'[n] = profile[n]
                                         \/ Works(t, n) /\ profile'[n] = Written(call[t])
    BY <2>2, <2>3 DEF Types, Readable, Works
  <2>5. call'[t] = d /\ \A s \in Threads \ {t} : call'[s] = call[s]
    BY <2>1, ContinuesTypes
  <2>6. QED BY <2>1, <2>4, <2>5, ApartStep
<1>3. CASE OpenUser(t)
  <2>1. PICK d \in Calls : Continues(t, d) /\ d.pc = "user_text"
    BY <1>3, OpenUserEffect
  <2>2. UNCHANGED profile
    BY <1>3 DEF OpenUser
  <2>3. QED BY <2>1, <2>2, ApartQuiet, ContinuesTypes DEF Profiling
<1>4. CASE WriteUser(t)
  <2>1. PICK d \in Calls :
          /\ Continues(t, d)
          /\ \/ d.pc \notin Profiling
             \/ /\ d.name = call[t].name /\ Readable(d.name) /\ d.keep = profile[d.name]
                /\ d.event = NoEvent
    BY <1>i, <1>4, WriteUserEffect DEF Profiling
  <2>2. UNCHANGED profile /\ call[t].name \in Names
    BY <1>4, WriteUserEffect DEF WriteUser
  <2>3. call'[t] = d /\ \A s \in Threads \ {t} : call'[s] = call[s]
    BY <2>1, ContinuesTypes
  <2>4. CASE d.pc \notin Profiling
    BY <2>2, <2>3, <2>4, ApartQuiet
  <2>5. CASE /\ d.name = call[t].name /\ Readable(d.name) /\ d.keep = profile[d.name]
             /\ d.event = NoEvent
    <3>1. Kin(d.name, Written(d)) /\ Live(d.name)
      BY <2>2, <2>5 DEF Apart, Written, Live
    <3>2. QED BY <2>2, <2>3, <2>5, <3>1, ApartStep DEF Readable
  <2>6. QED BY <2>1, <2>4, <2>5
<1>5. QED BY <1>1, <1>2, <1>3, <1>4 DEF FileStep

\* Every step keeps the coarse sessions apart.
LEMMA ApartNext == Types /\ Beside /\ Apart /\ [Next]_vars => Apart'
<1> SUFFICES ASSUME Types, Beside, Apart, [Next]_vars PROVE Apart'
  OBVIOUS
<1>1. CASE UNCHANGED <<profile, call>>
  BY <1>1, ApartQuiet DEF Apart, Live, Works, Readable
<1>2. CASE Crash
  <2>1. \A t \in Threads : call'[t].pc \notin Profiling
    BY <1>2 DEF Crash, Idle, Profiling
  <2>2. UNCHANGED profile
    BY <1>2 DEF Crash, disk
  <2>3. QED BY <2>1, <2>2 DEF Apart, Live, Works, Readable
<1>3. CASE SaveForm
  <2>1. PICK d \in Calls : Continues("gui", d) /\ d.pc = "user"
    BY <1>3, SaveFormEffect
  <2>2. UNCHANGED profile
    BY <1>3 DEF SaveForm, disk
  <2>3. QED BY <2>1, <2>2, Constants, ApartQuiet, ContinuesTypes DEF SameBut, Profiling
<1>4. ASSUME NEW w \in Watchers, Notice(w) PROVE Apart'
  <2>1. PICK d \in Calls : Placed(w, d) /\ call' = [call EXCEPT ![w] = d] /\ d.pc = "probe"
    BY <1>4, NoticeEffect
  <2>2. w \in Threads /\ UNCHANGED profile
    BY <1>4, Constants DEF Notice, disk
  <2>3. QED BY <2>1, <2>2, ApartQuiet, GoTypes DEF SameBut, Profiling
<1>5. ASSUME NEW e \in Events, Attach(e) \/ Detach(e) PROVE Apart'
  BY <1>1, <1>5 DEF Attach, Detach, disk
<1>6. CASE Midnight \/ UNCHANGED vars
  BY <1>1, <1>6 DEF Midnight, vars, disk
<1>7. QED BY <1>2, <1>3, <1>4, <1>5, <1>6, ApartHandle, ApartFile DEF Next

\* Devices the USB watcher cannot tell apart share one session, over days and
\* restarts and with any number of overlapping calls: create_or_resume takes a
\* session of the same maker and model over, gives up when it cannot read one,
\* and only the USB watcher's own thread makes such sessions.
THEOREM CoarseTheorem == Spec => []OneCoarseSession
<1>1. Init => Apart
  BY DEF Init, Apart, Live, Works, Readable, Idle, Profiling
<1>2. Apart => OneCoarseSession
  <2> SUFFICES ASSUME Apart, NEW m \in Names, NEW n \in Names, m # n, Readable(m), Readable(n)
               PROVE  \/ profile[m].maker # profile[n].maker \/ profile[m].model # profile[n].model
                      \/ ~IsCoarse(profile[m].serial) \/ ~IsCoarse(profile[n].serial)
    BY DEF OneCoarseSession
  <2>1. Kin(m, profile[m]) /\ Kin(n, profile[n]) /\ Differ(m, n)
    BY DEF Apart, Live
  <2>2. QED BY <2>1, KinFields DEF Differ
<1>3. QED BY <1>1, <1>2, ApartNext, TypeInvariant, BesideInvariant, PTL DEF Spec

-----------------------------------------------------------------------------
(* One call at a time.                                                     *)

Busy(t) == call[t].pc # "idle"
Single  == \A s, t \in Threads : Busy(s) /\ Busy(t) => s = t
Solo    == \A v, w \in Watchers : Busy(v) /\ Busy(w) => v = w

\* The step of a call is taken by a thread that has one, and leaves the others
\* where they are.
LEMMA HandleMoves ==
  ASSUME Types, NEW w \in Watchers, Handle(w)
  PROVE  Busy(w) /\ \A s \in Threads \ {w} : SameBut(call[s], call'[s])
<1> w \in Threads
  BY Constants
<1> USE DEF SameBut
<1>0. ASSUME Die(w) PROVE \A s \in Threads \ {w} : SameBut(call[s], call'[s])
  BY <1>0, DieTypes
<1>c. ASSUME NEW d \in Calls, Continues(w, d)
      PROVE  \A s \in Threads \ {w} : SameBut(call[s], call'[s])
  BY SMTT(30), <1>c, ContinuesTypes
<1>b. Busy(w)
  BY ZenonT(40) DEF Busy, Handle, Probe, Lookup, LoadState, OpenStaging, WriteStaging, ReplaceState,
         LoadUser, At
<1>1. CASE Probe(w)
  BY <1>0, <1>c, <1>b, <1>1, ProbeEffect
<1>2. CASE Lookup(w)
  BY <1>0, <1>c, <1>b, <1>2, LookupEffect
<1>3. CASE LoadState(w)
  BY <1>0, <1>c, <1>b, <1>3, LoadStateEffect
<1>4. CASE OpenStaging(w)
  BY <1>c, <1>b, <1>4, OpenStagingEffect
<1>5. CASE WriteStaging(w)
  BY <1>c, <1>b, <1>5, WriteStagingEffect
<1>6. CASE ReplaceState(w)
  BY <1>0, <1>b, <1>6, ReplaceStateEffect
<1>7. CASE LoadUser(w)
  BY <1>0, <1>c, <1>b, <1>7, LoadUserEffect
<1>8. QED BY <1>1, <1>2, <1>3, <1>4, <1>5, <1>6, <1>7 DEF Handle

\* A write of a file is the step of one busy thread.
LEMMA FileMoves ==
  ASSUME Types, NEW t \in Threads, FileStep(t)
  PROVE  Busy(t) /\ \A s \in Threads \ {t} : call'[s] = call[s]
<1>b. Busy(t)
  BY DEF Busy, FileStep, OpenProfile, WriteProfile, OpenUser, WriteUser, At
<1>1. PICK d \in Calls : Continues(t, d)
  BY OpenProfileEffect, WriteProfileEffect, OpenUserEffect, WriteUserEffect DEF FileStep
<1>2. QED BY <1>b, <1>1, ContinuesTypes

\* With one call at a time, a call begins only while no thread is busy.
LEMMA NoOneInFlight ==
  ASSUME MaxInFlight = 1, Cardinality(InFlight) < MaxInFlight, NEW t \in Threads
  PROVE  ~Busy(t)
<1>1. Watchers \subseteq {"usb", "adb", "fastboot"}
  BY EventsAssumption DEF Watchers, EventTypes
<1>2. IsFiniteSet({"usb", "adb", "fastboot", "gui"})
  <2>1. IsFiniteSet({})
    BY FS_EmptySet
  <2>2. IsFiniteSet({} \cup {"usb"})
    BY <2>1, FS_AddElement
  <2>3. IsFiniteSet({} \cup {"usb"} \cup {"adb"})
    BY <2>2, FS_AddElement
  <2>4. IsFiniteSet({} \cup {"usb"} \cup {"adb"} \cup {"fastboot"})
    BY <2>3, FS_AddElement
  <2>5. IsFiniteSet({} \cup {"usb"} \cup {"adb"} \cup {"fastboot"} \cup {"gui"})
    BY <2>4, FS_AddElement
  <2>6. {} \cup {"usb"} \cup {"adb"} \cup {"fastboot"} \cup {"gui"} = {"usb", "adb", "fastboot", "gui"}
    OBVIOUS
  <2>7. QED BY <2>5, <2>6
<1>3. InFlight \subseteq {"usb", "adb", "fastboot", "gui"}
  BY <1>1 DEF InFlight, Threads
<1>4. IsFiniteSet(InFlight)
  BY <1>2, <1>3, FS_Subset
<1>5. Cardinality(InFlight) \in Nat
  BY <1>4, FS_CardinalityType
<1>6. Cardinality(InFlight) = 0
  BY <1>5
<1>7. InFlight = {}
  BY <1>4, <1>6, FS_EmptySet
<1>8. QED BY <1>7 DEF InFlight, Busy

\* Every step keeps the calls one at a time.
LEMMA SingleNext ==
  ASSUME MaxInFlight = 1 PROVE Types /\ Single /\ [Next]_vars => Single'
<1> SUFFICES ASSUME Types, Single, [Next]_vars PROVE Single'
  OBVIOUS
<1>1. CASE UNCHANGED call
  BY <1>1 DEF Single, Busy
<1>2. CASE Crash
  BY <1>2 DEF Crash, Idle, Single, Busy
<1>3. CASE SaveForm
  <2>1. \A t \in Threads : ~Busy(t)
    BY <1>3, NoOneInFlight DEF SaveForm
  <2>2. \A t \in Threads \ {"gui"} : call'[t] = call[t]
    BY <1>3, Constants, SaveFormEffect, ContinuesTypes
  <2>3. QED BY <2>1, <2>2 DEF Single, Busy
<1>4. ASSUME NEW w \in Watchers, Notice(w) PROVE Single'
  <2>1. \A t \in Threads : ~Busy(t)
    BY <1>4, NoOneInFlight DEF Notice
  <2>2. \A t \in Threads \ {w} : call'[t] = call[t]
    BY <1>4, Constants, NoticeEffect, GoTypes
  <2>3. QED BY <2>1, <2>2 DEF Single, Busy
<1>5. ASSUME NEW t \in Threads, Busy(t), \A s \in Threads \ {t} : call'[s].pc = call[s].pc
      PROVE  Single'
  BY <1>5 DEF Single, Busy
<1>6. ASSUME NEW w \in Watchers, Handle(w) PROVE Single'
  BY <1>5, <1>6, Constants, HandleMoves DEF SameBut
<1>7. ASSUME NEW t \in Threads, FileStep(t) PROVE Single'
  BY <1>5, <1>7, FileMoves
<1>8. ASSUME NEW e \in Events, Attach(e) \/ Detach(e) PROVE Single'
  BY <1>1, <1>8 DEF Attach, Detach
<1>9. CASE Midnight \/ UNCHANGED vars
  BY <1>1, <1>9 DEF Midnight, vars
<1>10. QED BY <1>2, <1>3, <1>4, <1>6, <1>7, <1>8, <1>9 DEF Next

\* With one call at a time at most one thread is busy.
LEMMA SingleInvariant == ASSUME MaxInFlight = 1 PROVE Spec => []Single
<1>1. Init => Single
  BY DEF Init, Single, Busy, Idle
<1>2. Types /\ Single /\ [Next]_vars => Single'
  BY SingleNext
<1>3. QED BY <1>1, <1>2, TypeInvariant, PTL DEF Spec

\* Either the calls do not overlap at all, or one watcher and the operator do.
OneWatcher == MaxInFlight = 1 \/ \A v, w \in Watchers : v = w

\* At most one watcher is busy.
LEMMA SoloInvariant == ASSUME OneWatcher PROVE Spec => []Solo
<1>1. CASE MaxInFlight = 1
  <2>1. Single => Solo
    BY Constants DEF Single, Solo
  <2>2. Spec => []Single
    BY <1>1, SingleInvariant
  <2>3. QED BY <2>1, <2>2, PTL
<1>2. CASE \A v, w \in Watchers : v = w
  <2>1. Solo
    BY <1>2 DEF Solo
  <2>2. QED BY <2>1, PTL
<1>3. QED BY <1>1, <1>2 DEF OneWatcher

-----------------------------------------------------------------------------
(* session-state.json.  A watcher that is about to write it knows what the *)
(* file holds, and what it renames is what it has written.                 *)

Owns(w) ==
  /\ Busy(w) /\ call[w].pc \notin Early \cup Forming /\ call[w].creating
       => state[call[w].name] = "none"
  /\ call[w].pc \in Forming /\ call[w].creating => state[call[w].name] # "none"
  /\ call[w].pc \in Moving =>
       IF call[w].creating THEN call[w].target = "DEVICE_ATTACHED"
       ELSE /\ state[call[w].name] \in SessionStateName
            /\ call[w].target \in ALLOWED_TRANSITIONS[state[call[w].name]]
  /\ call[w].pc = "state_text" => call[w].fd = "staging"
  /\ call[w].pc = "rename" => staging[call[w].name] = call[w].target

Filed ==
  /\ \A n \in Names : state[n] # "torn"
  /\ \A n \in Names : n \notin dirs => state[n] = "none" /\ profile[n] = NoProfile
  /\ \A t \in Threads : call[t].pc \notin Early => call[t].name \in dirs
  /\ \A w \in Watchers : Owns(w)

\* The step of the only busy watcher, for the files and for its own call.
LEMMA FiledStep ==
  ASSUME Types, Solo, Filed, NEW w \in Watchers, Busy(w),
         \A s \in Threads \ {w} : SameBut(call[s], call'[s]),
         dirs \subseteq dirs', \A n \in Names : state'[n] # "torn",
         \A n \in Names : n \notin dirs' => state'[n] = "none" /\ profile'[n] = NoProfile,
         call'[w].pc \notin Early => call'[w].name \in dirs', Owns(w)'
  PROVE  Filed'
<1>1. \A v \in Watchers \ {w} : call[v].pc = "idle" /\ call'[v].pc = "idle"
  BY Constants DEF Solo, Busy, SameBut
<1>2. \A v \in Watchers \ {w} : Owns(v)'
  BY <1>1 DEF Owns, Busy, Moving, Forming
<1>3. \A s \in Threads \ {w} : call'[s].pc \notin Early => call'[s].name \in dirs'
  BY DEF Filed, SameBut
<1>4. QED BY <1>2, <1>3 DEF Filed

\* A step that writes no state.
LEMMA FiledQuiet ==
  ASSUME Types, Solo, Filed, NEW w \in Watchers, Handle(w),
         UNCHANGED <<dirs, profile, state>>,
         call'[w].pc \notin Early => call'[w].name \in dirs, Owns(w)'
  PROVE  Filed'
BY FiledStep, HandleMoves DEF Filed

\* Every step of a handler keeps states whole and in their directories.
LEMMA FiledHandle == ASSUME Types, Solo, Filed, NEW w \in Watchers, Handle(w) PROVE Filed'
<1> w \in Threads /\ w # "gui"
  BY Constants
<1>0. ASSUME Die(w) PROVE Filed'
  <2>1. Owns(w)' /\ call'[w].pc \in Early /\ UNCHANGED <<dirs, profile, state>>
    BY <1>0, DieTypes DEF Owns, Busy, Idle, Early, Moving, disk
  <2>2. QED BY <2>1, FiledQuiet
<1>d. ASSUME NEW d \in Calls, Continues(w, d) PROVE call'[w] = d
  BY <1>d, ContinuesTypes
<1>n. call[w].pc \notin Early => call[w].name \in dirs /\ call[w].name \in Names
  BY DEF Filed, Types
<1>o. Owns(w) /\ Placed(w, call[w])
  BY DEF Filed, Types
<1>1. CASE Probe(w)
  <2>1. UNCHANGED <<dirs, profile, state>>
    BY <1>1, ProbeEffect DEF disk
  <2>2. ASSUME NEW d \in Calls, Continues(w, d), ~d.creating, d.pc = "lookup" \/
               (d.pc = "profile" /\ d.name \in Waiting(d.event.serial))
        PROVE  Filed'
    <3>1. d.pc \notin Early => d.name \in dirs
      BY <2>2 DEF Waiting, Filed, Early
    <3>2. Owns(w)'
      BY <1>d, <2>2 DEF Owns, Moving
    <3>3. QED BY <1>d, <2>1, <2>2, <3>1, <3>2, FiledQuiet
  <2>3. QED BY <1>0, <1>1, <2>2, ProbeEffect
<1>2. CASE Lookup(w)
  <2>1. UNCHANGED <<profile, state, staging>>
    BY <1>2, LookupEffect
  <2>2. ASSUME NEW d \in Calls, Continues(w, d), ~d.creating, d.pc = "profile",
               Readable(d.name), dirs' = dirs
        PROVE  Filed'
    <3>1. d.name \in dirs
      BY <2>2 DEF Filed, Readable, Continues, Placed, Early
    <3>2. Owns(w)'
      BY <1>d, <2>2 DEF Owns, Moving
    <3>3. QED BY <1>d, <2>1, <2>2, <3>1, <3>2, FiledQuiet
  <2>3. ASSUME NEW d \in Calls, Continues(w, d), d.creating, d.pc = "profile",
               d.name \notin dirs, dirs' = dirs \cup {d.name}
        PROVE  Filed'
    <3>1. d.name \in Names
      BY <2>3 DEF Continues, Placed, Early
    <3>2. state[d.name] = "none"
      BY <2>3, <3>1 DEF Filed
    <3>3. Owns(w)'
      BY <1>d, <2>1, <2>3, <3>2 DEF Owns, Moving, Forming
    <3>4. QED BY <1>d, <2>1, <2>3, <3>3, FiledStep, HandleMoves DEF Filed
  <2>4. QED BY <1>0, <1>2, <2>2, <2>3, LookupEffect
<1>3. CASE LoadState(w)
  <2>1. UNCHANGED <<dirs, profile, state>> /\ call[w].name \in dirs
    BY <1>3, <1>n, LoadStateEffect DEF disk, LoadState, At, Early
  <2>2. ASSUME NEW d \in Calls, Continues(w, d), d.name = call[w].name, ~d.creating,
               state[d.name] \in SessionStateName,
               d.pc = "move" \/ (d.pc = "state" /\ d.target \in ALLOWED_TRANSITIONS[state[d.name]])
        PROVE  Filed'
    <3>1. Owns(w)'
      BY <1>d, <2>1, <2>2 DEF Owns, Moving
    <3>2. QED BY <1>d, <2>1, <2>2, <3>1, FiledQuiet
  <2>3. QED BY SMTT(30), <1>0, <1>3, <2>2, LoadStateEffect
<1>4. CASE OpenStaging(w)
  <2>1. PICK d \in Calls : /\ Continues(w, d) /\ d.pc = "state_text" /\ d.name = call[w].name
                           /\ d.creating = call[w].creating /\ d.target = call[w].target
                           /\ d.fd = "staging"
    BY <1>4, OpenStagingEffect
  <2>2. UNCHANGED <<dirs, profile, state>> /\ call[w].pc = "state"
    BY <1>4 DEF OpenStaging, At
  <2>3. Owns(w)'
    BY <1>d, <1>o, <2>1, <2>2 DEF Owns, Moving, Early, Forming, Busy
  <2>4. QED BY <1>d, <1>n, <2>1, <2>2, <2>3, FiledQuiet DEF Early
<1>5. CASE WriteStaging(w)
  <2>1. PICK d \in Calls : /\ Continues(w, d) /\ d.pc = "rename" /\ d.name = call[w].name
                           /\ d.creating = call[w].creating /\ d.target = call[w].target
    BY <1>5, WriteStagingEffect
  <2>2. call[w].pc = "state_text" /\ call[w].fd = "staging"
    BY <1>5, <1>o DEF WriteStaging, At, Owns
  <2>3. /\ staging' = [staging EXCEPT ![call[w].name] = call[w].target]
        /\ UNCHANGED <<dirs, profile, state>>
    BY <1>5, <2>2 DEF WriteStaging
  <2>4. call[w].name \in Names /\ staging'[call[w].name] = call[w].target
    BY <1>n, <2>2, <2>3 DEF Types, Early
  <2>5. Owns(w)'
    BY <1>d, <1>o, <2>1, <2>2, <2>3, <2>4 DEF Owns, Moving, Early, Forming, Busy
  <2>6. QED BY <1>d, <1>n, <2>1, <2>2, <2>3, <2>5, FiledQuiet DEF Early
<1>6. CASE ReplaceState(w)
  <2> DEFINE n == call[w].name
  <2>1. n \in Names /\ n \in dirs /\ call[w].pc = "rename" /\ UNCHANGED <<dirs, profile>>
    BY <1>6, <1>n, ReplaceStateEffect DEF Early
  <2>2. staging[n] = call[w].target /\ staging[n] \in SessionStateName
    BY <1>o, <2>1 DEF Owns, Placed, Moving
  <2>3. CASE ~Die(w)
    <3>1. state' = [state EXCEPT ![n] = staging[n]] /\ call'[w].name = n
          /\ call'[w].creating = call[w].creating
          /\ call'[w].pc = IF call[w].creating THEN "user" ELSE "move"
      BY <1>6, <2>3, ReplaceStateEffect
    <3>2. \A m \in Names : state'[m] # "torn" /\ (m \notin dirs => state'[m] = "none")
      BY <2>1, <2>2, <3>1, States DEF Filed, Types
    <3>3. Owns(w)'
      BY <2>1, <2>2, <3>1, States DEF Owns, Moving, Forming, Types
    <3>4. QED BY <2>1, <3>1, <3>2, <3>3, FiledStep, HandleMoves DEF Filed
  <2>4. QED BY <1>0, <2>3
<1>7. CASE LoadUser(w)
  <2>1. UNCHANGED <<dirs, profile, state>> /\ call[w].name \in dirs
    BY <1>7, <1>n, LoadUserEffect DEF disk, LoadUser, At, Early
  <2>2. ASSUME NEW d \in Calls, Continues(w, d),
               d = Idle \/ (d.name = call[w].name /\ d.pc \in {"move", "user"} /\ ~d.creating)
        PROVE  Filed'
    <3>1. Owns(w)' /\ (call'[w].pc \notin Early => call'[w].name \in dirs)
      BY <1>d, <2>1, <2>2 DEF Owns, Moving, Idle, Early, Busy
    <3>2. QED BY <2>1, <3>1, FiledQuiet
  <2>3. QED BY SMTT(30), <1>0, <1>7, <2>2, LoadUserEffect
<1>8. QED BY <1>1, <1>2, <1>3, <1>4, <1>5, <1>6, <1>7 DEF Handle

\* Every write of a file keeps states whole and in their directories.
LEMMA FiledFile == ASSUME Types, Solo, Filed, NEW t \in Threads, FileStep(t) PROVE Filed'
<1>n. call[t].pc \notin Early => call[t].name \in dirs /\ call[t].name \in Names
  BY DEF Filed, Types
<1>b. UNCHANGED <<dirs, state, staging>>
  BY DEF FileStep, OpenProfile, WriteProfile, OpenUser, WriteUser
<1>p. \A n \in Names : n \notin dirs => profile'[n] = NoProfile
  <2>1. call[t].name \in dirs \/ UNCHANGED profile
    BY <1>n DEF FileStep, OpenProfile, WriteProfile, OpenUser, WriteUser, At, Early
  <2>2. \A n \in Names \ {call[t].name} : profile'[n] = profile[n]
    BY DEF FileStep, OpenProfile, WriteProfile, OpenUser, WriteUser, Types
  <2>3. QED BY <2>1, <2>2 DEF Filed
<1>s. ASSUME call'[t].pc \notin Early => call'[t].name \in dirs, t \in Watchers => Owns(t)'
      PROVE  Filed'
  <2>1. \A v \in Watchers \ {t} : Owns(v)'
    BY <1>b, Constants, FileMoves DEF Filed, Owns, Busy
  <2>2. \A s \in Threads : call'[s].pc \notin Early => call'[s].name \in dirs
    BY <1>s, FileMoves DEF Filed
  <2>3. QED BY <1>b, <1>p, <1>s, <2>1, <2>2 DEF Filed
<1>d. ASSUME NEW d \in Calls, Continues(t, d) PROVE call'[t] = d
  BY <1>d, ContinuesTypes
<1>o. t \in Watchers => Owns(t)
  BY DEF Filed
<1>i. Idle.pc = "idle"
  BY DEF Idle
<1>1. CASE OpenProfile(t)
  <2>1. PICK d \in Calls : /\ Continues(t, d) /\ d.pc = "profile_text" /\ d.name = call[t].name
                           /\ d.creating = call[t].creating
    BY <1>1, OpenProfileEffect
  <2>2. call[t].pc = "profile"
    BY <1>1 DEF OpenProfile, At
  <2>3. t \in Watchers => Owns(t)'
    BY <1>b, <1>d, <1>o, <2>1, <2>2 DEF Owns, Busy, Early, Forming, Moving
  <2>4. QED BY <1>d, <1>n, <1>s, <2>1, <2>2, <2>3 DEF Early
<1>2. CASE WriteProfile(t)
  <2>1. PICK d \in Calls :
          /\ Continues(t, d)
          /\ \/ d = Idle
             \/ /\ t # "gui" /\ d.name = call[t].name /\ d.creating = call[t].creating
                /\ IF d.creating THEN d.pc = "state" /\ d.target = "DEVICE_ATTACHED"
                                 ELSE d.pc = "move"
    BY <1>2, WriteProfileEffect
  <2>2. call[t].pc = "profile_text"
    BY <1>2 DEF WriteProfile, At
  <2>3. t \in Watchers => Owns(t)'
    BY <1>b, <1>d, <1>i, <1>o, <2>1, <2>2 DEF Owns, Busy, Early, Forming, Moving
  <2>4. QED BY <1>d, <1>i, <1>n, <1>s, <2>1, <2>2, <2>3 DEF Early
<1>3. CASE OpenUser(t)
  <2>1. PICK d \in Calls : /\ Continues(t, d) /\ d.pc = "user_text" /\ d.name = call[t].name
                           /\ d.creating = call[t].creating
    BY <1>3, OpenUserEffect
  <2>2. call[t].pc = "user"
    BY <1>3 DEF OpenUser, At
  <2>3. t \in Watchers => Owns(t)'
    BY <1>b, <1>d, <1>o, <2>1, <2>2 DEF Owns, Busy, Early, Forming, Moving
  <2>4. QED BY <1>d, <1>n, <1>s, <2>1, <2>2, <2>3 DEF Early
<1>4. CASE WriteUser(t)
  <2>1. PICK d \in Calls :
          /\ Continues(t, d)
          /\ d = Idle \/ (d.name = call[t].name /\ d.pc \in {"move", "profile"} /\ ~d.creating)
    BY <1>4, WriteUserEffect
  <2>2. call[t].pc = "user_text"
    BY <1>4 DEF WriteUser, At
  <2>3. Owns(t)'
    BY <1>d, <1>i, <2>1 DEF Owns, Busy, Early, Forming, Moving
  <2>4. QED BY <1>d, <1>i, <1>n, <1>s, <2>1, <2>2, <2>3 DEF Early
<1>5. QED BY <1>1, <1>2, <1>3, <1>4 DEF FileStep

\* Every step keeps states whole and in their directories.
LEMMA FiledNext == Types /\ Solo /\ Filed /\ [Next]_vars => Filed'
<1> SUFFICES ASSUME Types, Solo, Filed, [Next]_vars PROVE Filed'
  OBVIOUS
<1>1. CASE UNCHANGED <<dirs, profile, state, staging, call>>
  BY <1>1 DEF Filed, Owns, Busy
<1>2. CASE Crash
  BY <1>2, Constants DEF Crash, Idle, Filed, Owns, Busy, Early, Moving, disk
<1>s. ASSUME NEW t \in Threads, NEW d \in Calls, call'[t] = d,
             \A s \in Threads \ {t} : call'[s] = call[s],
             UNCHANGED <<dirs, profile, state, staging>>, d.pc \in {"probe", "user"},
             ~d.creating, d.pc = "user" => d.name \in dirs
      PROVE  Filed'
  <2>1. Owns(t)'
    BY <1>s DEF Owns, Early, Forming, Moving
  <2>2. \A v \in Watchers \ {t} : Owns(v)'
    BY <1>s, Constants DEF Filed, Owns, Busy
  <2>3. QED BY <1>s, <2>1, <2>2 DEF Filed, Early
<1>3. CASE SaveForm
  <2>1. PICK d \in Calls : /\ Continues("gui", d) /\ d.pc = "user" /\ d.name \in dirs
                           /\ ~d.creating
    BY <1>3, SaveFormEffect
  <2>2. UNCHANGED <<dirs, profile, state, staging>>
    BY <1>3 DEF SaveForm, disk
  <2>3. QED BY <1>s, <2>1, <2>2, Constants, ContinuesTypes
<1>4. ASSUME NEW w \in Watchers, Notice(w) PROVE Filed'
  <2>1. PICK d \in Calls : /\ Placed(w, d) /\ call' = [call EXCEPT ![w] = d] /\ d.pc = "probe"
                           /\ ~d.creating
    BY <1>4, NoticeEffect
  <2>2. w \in Threads /\ UNCHANGED <<dirs, profile, state, staging>>
    BY <1>4, Constants DEF Notice, disk
  <2>3. QED BY <1>s, <2>1, <2>2, GoTypes
<1>5. ASSUME NEW e \in Events, Attach(e) \/ Detach(e) PROVE Filed'
  BY <1>1, <1>5 DEF Attach, Detach, disk
<1>6. CASE Midnight \/ UNCHANGED vars
  BY <1>1, <1>6 DEF Midnight, vars, disk
<1>7. QED BY <1>2, <1>3, <1>4, <1>5, <1>6, FiledHandle, FiledFile DEF Next

\* No state file is ever torn, and everything lies in a session's directory.
LEMMA FiledInvariant == ASSUME OneWatcher PROVE Spec => []Filed
<1>1. Init => Filed
  BY Constants DEF Init, Filed, Owns, Busy, Idle, Early, Moving
<1>2. Spec => []Solo
  BY SoloInvariant
<1>3. QED BY <1>1, <1>2, FiledNext, TypeInvariant, PTL DEF Spec

\* Only the renaming changes what a reader of session-state.json finds, and it
\* is a creation or a transition of StateFile.
LEMMA PromiseStep == Types /\ Solo /\ Filed /\ [Next]_vars => [Promise!Next]_state
<1> SUFFICES ASSUME Types, Filed, Next PROVE Promise!Next \/ UNCHANGED state
  BY DEF vars, disk
<1>1. CASE \E w \in Watchers : ReplaceState(w)
  <2>1. PICK w \in Watchers : ReplaceState(w)
    BY <1>1
  <2> DEFINE n == call[w].name
  <2>2. n \in Names /\ call[w].pc = "rename" /\ Owns(w)
    BY <2>1, ReplaceStateEffect DEF Filed
  <2>3. staging[n] = call[w].target
    BY <2>2 DEF Owns
  <2>4. CASE Die(w)
    BY <2>4 DEF Die, disk
  <2>5. CASE state' = [state EXCEPT ![n] = staging[n]]
    <3>1. CASE call[w].creating
      <4>1. state[n] = "none" /\ call[w].target = "DEVICE_ATTACHED"
        BY <2>2, <3>1 DEF Owns, Busy, Early, Forming, Moving
      <4>2. QED BY <2>2, <2>3, <2>5, <4>1 DEF Promise!Next, Promise!Create
    <3>2. CASE ~call[w].creating
      <4>1. state[n] \in SessionStateName /\ call[w].target \in ALLOWED_TRANSITIONS[state[n]]
        BY <2>2, <3>2 DEF Owns, Moving
      <4>2. state[n] # "none"
        BY <4>1, States
      <4>3. Promise!ALLOWED_TRANSITIONS = ALLOWED_TRANSITIONS
        BY DEF Promise!ALLOWED_TRANSITIONS, ALLOWED_TRANSITIONS
      <4>4. QED BY <2>2, <2>3, <2>5, <4>1, <4>2, <4>3 DEF Promise!Next, Promise!Transition
    <3>3. QED BY <3>1, <3>2
  <2>6. QED BY <2>1, <2>4, <2>5, ReplaceStateEffect
<1>2. ASSUME NEW w \in Watchers, WriteStaging(w) PROVE UNCHANGED state
  <2>1. call[w].fd = "staging"
    BY SMTT(30), <1>2 DEF WriteStaging, At, Filed, Owns
  <2>2. QED BY <1>2, <2>1 DEF WriteStaging
<1>3. ASSUME NEW w \in Watchers, Notice(w) \/ Probe(w) \/ Lookup(w) \/ LoadState(w)
                                 \/ OpenStaging(w) \/ LoadUser(w)
      PROVE  UNCHANGED state
  BY <1>3, ProbeEffect, LookupEffect, LoadStateEffect, LoadUserEffect
  DEF Notice, OpenStaging, disk
<1>4. ASSUME NEW t \in Threads, FileStep(t) PROVE UNCHANGED state
  BY <1>4 DEF FileStep, OpenProfile, WriteProfile, OpenUser, WriteUser
<1>5. ASSUME NEW e \in Events, Attach(e) \/ Detach(e) PROVE UNCHANGED state
  BY <1>5 DEF Attach, Detach, disk
<1>6. CASE Midnight \/ Crash \/ SaveForm
  BY <1>6 DEF Midnight, Crash, SaveForm, disk
<1>7. QED BY <1>1, <1>2, <1>3, <1>4, <1>5, <1>6 DEF Next, Handle

\* session-state.json implements StateFile: its readers find complete states
\* only, moved along the table and never lost in a crash, as long as no two
\* watchers handle events at the same time (session_manager.py, io_utils.py).
THEOREM PromiseTheorem == ASSUME OneWatcher PROVE Spec => KeepsPromise
<1>1. Init => Promise!Init
  BY DEF Init, Promise!Init
<1>2. Spec => []Solo
  BY SoloInvariant
<1>3. Spec => []Filed
  BY FiledInvariant
<1>4. QED BY <1>1, <1>2, <1>3, PromiseStep, TypeInvariant, PTL DEF Spec, KeepsPromise, Promise!Spec

-----------------------------------------------------------------------------
(* user-profile.json.  A watcher that is making a session, or writing the  *)
(* defaults of a form, does it where no form has been saved.               *)

Guards(w) ==
  (call[w].pc \in Forming \/ (call[w].pc \notin Early /\ call[w].creating))
    => call[w].name \notin saved
Forms ==
  /\ saved \subseteq dirs
  /\ \A n \in saved : user[n] \in {"torn", "saved"}
  /\ \A w \in Watchers : Guards(w)

\* A handler writes defaults only where no form was saved.
LEMMA FormsHandle ==
  ASSUME Types, Forms, NEW w \in Watchers, Handle(w)
  PROVE  Forms'
<1> w \in Threads /\ w # "gui"
  BY Constants
<1>u. UNCHANGED <<user, saved>> /\ dirs \subseteq dirs'
  <2>1. Handle(w) => World
    BY ProbeEffect, LookupEffect, LoadStateEffect, ReplaceStateEffect, LoadUserEffect
    DEF Handle, OpenStaging, WriteStaging
  <2>2. UNCHANGED user /\ dirs \subseteq dirs'
    BY ProbeEffect, LookupEffect, LoadStateEffect, ReplaceStateEffect, LoadUserEffect
    DEF Handle, OpenStaging, WriteStaging, disk, Die
  <2>3. QED BY <2>1, <2>2 DEF World
<1>s. ASSUME Guards(w)' PROVE Forms'
  <2>1. \A v \in Watchers \ {w} : Guards(v)'
    BY <1>u, Constants, HandleMoves DEF Forms, Guards, SameBut
  <2>2. QED BY <1>u, <1>s, <2>1 DEF Forms
<1>0. ASSUME Die(w) PROVE Forms'
  BY <1>0, <1>s, DieTypes DEF Guards, Idle, Early, Forming
<1>d. ASSUME NEW d \in Calls, Continues(w, d) PROVE call'[w] = d
  BY <1>d, ContinuesTypes
<1>o. Guards(w)
  BY DEF Forms
<1>1. CASE Probe(w)
  BY <1>0, <1>d, <1>s, <1>1, ProbeEffect DEF Guards, Forming
<1>2. CASE Lookup(w)
  <2>1. ASSUME NEW d \in Calls, Continues(w, d), d.pc = "profile", ~d.creating \/ d.name \notin dirs
        PROVE  Guards(w)'
    BY <1>d, <1>u, <2>1 DEF Guards, Forming, Forms
  <2>2. QED BY <1>0, <1>s, <1>2, <2>1, LookupEffect
<1>3. CASE LoadState(w)
  BY <1>0, <1>d, <1>s, <1>3, LoadStateEffect DEF Guards, Forming
<1>4. CASE OpenStaging(w)
  <2>1. call[w].pc = "state"
    BY <1>4 DEF OpenStaging, At
  <2>2. QED BY <1>d, <1>o, <1>s, <1>u, <1>4, <2>1, OpenStagingEffect DEF Guards, Forming, Early
<1>5. CASE WriteStaging(w)
  <2>1. call[w].pc = "state_text"
    BY <1>5 DEF WriteStaging, At
  <2>2. QED BY <1>d, <1>o, <1>s, <1>u, <1>5, <2>1, WriteStagingEffect DEF Guards, Forming, Early
<1>6. CASE ReplaceState(w)
  BY <1>0, <1>o, <1>s, <1>u, <1>6, ReplaceStateEffect DEF Guards, Forming, Early
<1>7. CASE LoadUser(w)
  <2>1. user[call[w].name] = "none" => call[w].name \notin saved
    BY DEF Forms
  <2>2. Idle.pc = "idle"
    BY DEF Idle
  <2>3. QED BY <1>0, <1>d, <1>s, <1>u, <1>7, <2>1, <2>2, LoadUserEffect DEF Guards, Forming, Early
<1>8. QED BY <1>1, <1>2, <1>3, <1>4, <1>5, <1>6, <1>7 DEF Handle

\* A write of the user profile replaces no saved form.
LEMMA FormsFile ==
  ASSUME Types, Single, Filed, Forms, NEW t \in Threads, FileStep(t)
  PROVE  Forms'
<1>d. ASSUME NEW d \in Calls, Continues(t, d) PROVE call'[t] = d
  BY <1>d, ContinuesTypes
<1>o. Placed(t, call[t]) /\ (t # "gui" => t \in Watchers /\ Guards(t))
  BY DEF Forms, Threads, Types
<1>b. \A s \in Threads \ {t} : call[s].pc = "idle" /\ call'[s].pc = "idle"
  BY FileMoves DEF Single, Busy
<1>w. UNCHANGED dirs
  BY DEF FileStep, OpenProfile, WriteProfile, OpenUser, WriteUser
<1>v. \A v \in Watchers \ {t} : Guards(v)'
  BY <1>b, Constants DEF Guards, Early, Forming
<1>i. Idle.pc = "idle"
  BY DEF Idle
<1>1. CASE OpenProfile(t)
  <2>1. UNCHANGED <<user, saved>> /\ call[t].pc = "profile"
    BY <1>1 DEF OpenProfile, World, At
  <2>2. t \in Watchers => Guards(t)'
    BY <1>d, <1>o, <1>1, <2>1, Constants, OpenProfileEffect DEF Guards, Early, Forming
  <2>3. QED BY <1>v, <1>w, <2>1, <2>2 DEF Forms
<1>2. CASE WriteProfile(t)
  <2>1. UNCHANGED <<user, saved>> /\ call[t].pc = "profile_text"
    BY <1>2 DEF WriteProfile, World, At
  <2>2. t \in Watchers => Guards(t)'
    BY <1>d, <1>i, <1>o, <1>2, <2>1, Constants, WriteProfileEffect DEF Guards, Early, Forming
  <2>3. QED BY <1>v, <1>w, <2>1, <2>2 DEF Forms
<1>3. CASE OpenUser(t)
  <2>1. UNCHANGED saved /\ call[t].pc = "user" /\ user' = [user EXCEPT ![call[t].name] = "torn"]
    BY <1>3 DEF OpenUser, World, At
  <2>2. t \in Watchers => Guards(t)'
    BY <1>d, <1>o, <1>3, <2>1, Constants, OpenUserEffect DEF Guards, Early, Forming
  <2>3. \A n \in saved : user'[n] \in {"torn", "saved"}
    BY <2>1 DEF Forms, Types
  <2>4. QED BY <1>v, <1>w, <2>1, <2>2, <2>3 DEF Forms
<1>4. CASE WriteUser(t)
  <2> DEFINE n == call[t].name
  <2>1. call[t].pc = "user_text" /\ n \in dirs /\ n \in Names
    BY <1>4 DEF WriteUser, At, Filed, Types, Early
  <2>2. CASE t = "gui"
    <3>1. user' = [user EXCEPT ![n] = "saved"] /\ saved' = saved \cup {n}
      BY <1>4, <2>2 DEF WriteUser
    <3>2. \A m \in saved' : user'[m] \in {"torn", "saved"}
      BY <2>1, <3>1 DEF Forms, Types
    <3>3. QED BY <1>v, <1>w, <2>1, <2>2, <3>1, <3>2, Constants DEF Forms
  <2>3. CASE t # "gui"
    <3>1. user' = [user EXCEPT ![n] = "default"] /\ saved' = saved /\ n \notin saved
      BY <1>4, <1>o, <2>1, <2>3 DEF WriteUser, Guards, Forming
    <3>2. \A m \in saved : user'[m] \in {"torn", "saved"}
      BY <3>1 DEF Forms, Types
    <3>3. Guards(t)'
      BY <1>d, <1>4, <2>3, WriteUserEffect DEF Guards, Forming
    <3>4. QED BY <1>v, <1>w, <3>1, <3>2, <3>3 DEF Forms
  <2>4. QED BY <2>2, <2>3
<1>5. QED BY <1>1, <1>2, <1>3, <1>4 DEF FileStep

\* Every step keeps the saved forms.
LEMMA FormsNext == Types /\ Single /\ Filed /\ Forms /\ [Next]_vars => Forms'
<1> SUFFICES ASSUME Types, Single, Filed, Forms, [Next]_vars PROVE Forms'
  OBVIOUS
<1>1. ASSUME UNCHANGED <<dirs, user, saved>>,
             \A w \in Watchers : call'[w] = call[w] \/ call'[w].pc \in Early
      PROVE  Forms'
  BY <1>1 DEF Forms, Guards, Early, Forming
<1>2. CASE Crash
  BY <1>1, <1>2, Constants DEF Crash, Idle, Early, disk
<1>3. CASE SaveForm
  <2>1. \A s \in Threads \ {"gui"} : call'[s] = call[s]
    BY <1>3, Constants, SaveFormEffect, ContinuesTypes
  <2>2. QED BY <1>1, <1>3, <2>1, Constants DEF SaveForm, World, disk
<1>4. ASSUME NEW w \in Watchers, Notice(w) PROVE Forms'
  <2>1. PICK d \in Calls : Placed(w, d) /\ call' = [call EXCEPT ![w] = d] /\ d.pc = "probe"
    BY <1>4, NoticeEffect
  <2>2. \A v \in Watchers : call'[v] = call[v] \/ call'[v].pc \in Early
    BY <2>1, Constants, GoTypes DEF Early
  <2>3. QED BY <1>1, <1>4, <2>2 DEF Notice, disk
<1>5. ASSUME NEW e \in Events, Attach(e) \/ Detach(e) PROVE Forms'
  BY <1>1, <1>5 DEF Attach, Detach, disk
<1>6. CASE Midnight \/ UNCHANGED vars
  BY <1>1, <1>6 DEF Midnight, vars, disk
<1>7. QED BY <1>2, <1>3, <1>4, <1>5, <1>6, FormsHandle, FormsFile DEF Next

\* A form the operator has saved, the attestation of lawful use in it, is never
\* replaced by the defaults: for any number of crashes and events, as long as
\* the calls of the watchers and the operator do not overlap
\* (session_manager.py, control_app.py).
THEOREM SavedTheorem == ASSUME MaxInFlight = 1 PROVE Spec => []SavedFormKept
<1>1. Init => Forms
  BY Constants DEF Init, Forms, Guards, Idle, Early, Forming
<1>2. Forms => SavedFormKept
  BY DEF Forms, SavedFormKept
<1>3. Spec => []Single
  BY SingleInvariant
<1>4. Spec => []Filed
  BY FiledInvariant DEF OneWatcher
<1>5. QED BY <1>1, <1>2, <1>3, <1>4, FormsNext, TypeInvariant, PTL DEF Spec

-----------------------------------------------------------------------------
(* The causes of a watcher's death.  A session is sound when each of its   *)
(* files can be read, or a call is on its way to write it.  Steps of calls *)
(* neither break a session nor repair one; only a crash breaks.            *)

Makes(t, n) == call[t].pc \notin Early /\ call[t].creating /\ call[t].name = n
Fills(t, n) == call[t].pc \in Forming /\ call[t].name = n

\* The three files, as far as thread t answers for them.
ProfileBy(t, n) == Readable(n) \/ Works(t, n)
StateBy(t, n)   == state[n] # "none" \/ Makes(t, n)
FormBy(t, n)    == user[n] # "torn" \/ Fills(t, n) \/ Makes(t, n)

Sound(n) == /\ \E t \in Threads : ProfileBy(t, n)
            /\ \E t \in Threads : StateBy(t, n)
            /\ \E t \in Threads : FormBy(t, n)
Stuck(n) == n \in dirs /\ ~Sound(n)

BadEvent(w) == \E e \in Events : /\ e.watcher = w /\ e.transport \notin Transports
                                 /\ e.serial \in seen[w]
Causes ==
  /\ crashed = 0 => \A n \in Names : ~Stuck(n)
  /\ \A w \in Watchers : call[w].pc = "probe" => call[w].event.serial \in seen[w]
  /\ \A w \in Watchers : ~alive[w] => BadEvent(w) \/ (crashed > 0 /\ \E n \in Names : Stuck(n))

\* A step that leaves a session's own files and writers alone leaves its soundness.
LEMMA SoundStep ==
  ASSUME NEW t \in Threads, NEW n \in Names,
         \A s \in Threads \ {t} : SameBut(call[s], call'[s]),
         (ProfileBy(t, n)' <=> ProfileBy(t, n)), (StateBy(t, n)' <=> StateBy(t, n)),
         (FormBy(t, n)' <=> FormBy(t, n))
  PROVE  Sound(n)' <=> Sound(n)
<1>1. \A s \in Threads \ {t} : /\ (Works(s, n)' <=> Works(s, n)) /\ (Makes(s, n)' <=> Makes(s, n))
                               /\ (Fills(s, n)' <=> Fills(s, n))
  BY DEF SameBut, Works, Makes, Fills
<1>2. (\E s \in Threads : ProfileBy(s, n))' <=> \E s \in Threads : ProfileBy(s, n)
  BY <1>1 DEF ProfileBy
<1>3. (\E s \in Threads : StateBy(s, n))' <=> \E s \in Threads : StateBy(s, n)
  BY <1>1 DEF StateBy
<1>4. (\E s \in Threads : FormBy(s, n))' <=> \E s \in Threads : FormBy(s, n)
  BY <1>1 DEF FormBy
<1>5. QED BY <1>2, <1>3, <1>4 DEF Sound

\* A handler leaves sound sessions sound and makes sound ones.
LEMMA HandleSound ==
  ASSUME Types, Filed, NEW w \in Watchers, Handle(w), NEW n \in Names
  PROVE  /\ n \in dirs => (Sound(n)' <=> Sound(n))
         /\ n \in dirs' \ dirs => Sound(n)'
<1> w \in Threads /\ w # "gui"
  BY Constants
<1> USE DEF ProfileBy, StateBy, FormBy, Works, Makes, Fills, Early, Profiling, Forming, Moving
<1>s. ASSUME UNCHANGED dirs,
             n \in dirs => /\ (ProfileBy(w, n)' <=> ProfileBy(w, n))
                           /\ (StateBy(w, n)' <=> StateBy(w, n)) /\ (FormBy(w, n)' <=> FormBy(w, n))
      PROVE  /\ n \in dirs => (Sound(n)' <=> Sound(n))
             /\ n \in dirs' \ dirs => Sound(n)'
  BY <1>s, SoundStep, HandleMoves
<1>p. Placed(w, call[w]) /\ Owns(w)
  BY DEF Types, Filed
<1>0. ASSUME Die(w), call[w].pc \in {"probe", "lookup", "move"}
      PROVE  /\ n \in dirs => (Sound(n)' <=> Sound(n))
             /\ n \in dirs' \ dirs => Sound(n)'
  <2>1. UNCHANGED disk /\ call'[w].pc = "idle" /\ ~call[w].creating
    BY <1>0, <1>p, DieTypes DEF Idle, Placed
  <2>2. QED BY <1>0, <1>s, <2>1 DEF disk, Readable
<1>d. ASSUME NEW d \in Calls, Continues(w, d) PROVE call'[w] = d
  BY <1>d, ContinuesTypes
<1>1. CASE Probe(w)
  <2>1. UNCHANGED disk /\ call[w].pc = "probe"
    BY <1>1, ProbeEffect DEF Probe, At
  <2>2. ASSUME NEW d \in Calls, Continues(w, d), ~d.creating,
               d.pc = "lookup" \/ (d.pc = "profile" /\ d.name \in Waiting(d.event.serial))
        PROVE  n \in dirs => (Sound(n)' <=> Sound(n))
    <3>1. d.pc = "profile" => Readable(d.name)
      BY <2>2 DEF Waiting
    <3>2. QED BY <1>d, <1>s, <2>1, <2>2, <3>1 DEF disk, Readable
  <2>3. QED BY SMTT(30), <1>0, <1>1, <2>1, <2>2, ProbeEffect DEF disk
<1>2. CASE Lookup(w)
  <2>1. UNCHANGED <<profile, state, staging, user>> /\ call[w].pc = "lookup"
    BY ZenonT(40), <1>2, LookupEffect DEF Lookup, At
  <2>2. ASSUME NEW d \in Calls, Continues(w, d), ~d.creating, d.pc = "profile",
               Readable(d.name), dirs' = dirs
        PROVE  /\ n \in dirs => (Sound(n)' <=> Sound(n))
               /\ n \in dirs' \ dirs => Sound(n)'
    BY <1>d, <1>s, <2>1, <2>2 DEF Readable
  <2>3. ASSUME NEW d \in Calls, Continues(w, d), d.creating, d.pc = "profile",
               d.name \notin dirs, dirs' = dirs \cup {d.name}
        PROVE  /\ n \in dirs => (Sound(n)' <=> Sound(n))
               /\ n \in dirs' \ dirs => Sound(n)'
    <3>1. CASE n \in dirs
      <4>1. /\ (ProfileBy(w, n)' <=> ProfileBy(w, n)) /\ (StateBy(w, n)' <=> StateBy(w, n))
            /\ (FormBy(w, n)' <=> FormBy(w, n))
        BY <1>d, <2>1, <2>3, <3>1 DEF Readable
      <4>2. QED BY <3>1, <4>1, SoundStep, HandleMoves
    <3>2. CASE n \in dirs' \ dirs
      <4>1. ProfileBy(w, n)' /\ StateBy(w, n)' /\ FormBy(w, n)'
        BY <1>d, <2>3, <3>2
      <4>2. QED BY <3>2, <4>1 DEF Sound
    <3>3. QED BY <3>1, <3>2
  <2>4. QED BY <1>0, <1>2, <2>1, <2>2, <2>3, LookupEffect
<1>3. CASE LoadState(w)
  <2>1. UNCHANGED disk /\ call[w].pc = "move" /\ ~call[w].creating
    BY <1>3, <1>p, LoadStateEffect DEF LoadState, At, Placed
  <2>2. ASSUME NEW d \in Calls, Continues(w, d), ~d.creating, d.pc \in {"move", "state"}
        PROVE  n \in dirs => (Sound(n)' <=> Sound(n))
    BY <1>d, <1>s, <2>1, <2>2 DEF disk, Readable
  <2>3. QED BY SMTT(30), <1>0, <1>3, <2>1, <2>2, LoadStateEffect DEF disk
<1>4. CASE OpenStaging(w)
  <2>1. UNCHANGED <<dirs, profile, state, user>> /\ call[w].pc = "state"
    BY <1>4 DEF OpenStaging, At
  <2>2. QED BY <1>d, <1>s, <1>4, <2>1, OpenStagingEffect DEF Readable
<1>5. CASE WriteStaging(w)
  <2>1. call[w].pc = "state_text" /\ UNCHANGED <<dirs, profile, state, user>>
    BY <1>5, <1>p DEF WriteStaging, At, Owns
  <2>2. QED BY <1>d, <1>s, <1>5, <2>1, WriteStagingEffect DEF Readable
<1>6. CASE ReplaceState(w)
  <2> DEFINE m == call[w].name
  <2>1. m \in Names /\ call[w].pc = "rename" /\ UNCHANGED <<dirs, profile, user>>
    BY <1>6, ReplaceStateEffect
  <2>2. staging[m] \in SessionStateName /\ staging[m] # "none"
    BY <1>p, <2>1, States DEF Owns, Placed
  <2>3. /\ state' = [state EXCEPT ![m] = staging[m]]
        /\ call'[w].name = m /\ call'[w].creating = call[w].creating
        /\ call'[w].pc = IF call[w].creating THEN "user" ELSE "move"
    BY <1>6, <2>2, ReplaceStateEffect
  <2>4. ~call[w].creating => state[m] # "none"
    BY <1>p, <2>1, States DEF Owns
  <2>5. /\ (ProfileBy(w, n)' <=> ProfileBy(w, n)) /\ (FormBy(w, n)' <=> FormBy(w, n))
    BY <2>1, <2>3 DEF Readable
  <2>6. (StateBy(w, n)' <=> StateBy(w, n))
    BY <2>1, <2>2, <2>3, <2>4 DEF Types
  <2>7. QED BY <1>s, <2>1, <2>5, <2>6
<1>7. CASE LoadUser(w)
  <2>1. UNCHANGED disk /\ call[w].pc = "move" /\ ~call[w].creating
    BY <1>7, <1>p, LoadUserEffect DEF LoadUser, At, Placed
  <2>2. ASSUME NEW d \in Calls, Continues(w, d),
               \/ d = Idle \/ (d.pc = "move" /\ ~d.creating)
               \/ (d.pc = "user" /\ ~d.creating /\ user[d.name] = "none")
        PROVE  n \in dirs => (Sound(n)' <=> Sound(n))
    BY <1>d, <1>s, <2>1, <2>2 DEF disk, Readable, Idle
  <2>3. QED BY SMTT(30), <1>0, <1>7, <2>1, <2>2, LoadUserEffect DEF disk
<1>8. QED BY <1>1, <1>2, <1>3, <1>4, <1>5, <1>6, <1>7 DEF Handle

\* A write of a file leaves sound sessions sound.
LEMMA FileSound ==
  ASSUME Types, Filed, NEW t \in Threads, FileStep(t), NEW n \in Names
  PROVE  Sound(n)' <=> Sound(n)
<1> USE DEF ProfileBy, StateBy, FormBy, Works, Makes, Fills, Early, Profiling, Forming, Moving
<1>s. ASSUME (ProfileBy(t, n)' <=> ProfileBy(t, n)), (StateBy(t, n)' <=> StateBy(t, n)),
             (FormBy(t, n)' <=> FormBy(t, n))
      PROVE  Sound(n)' <=> Sound(n)
  BY <1>s, SoundStep, FileMoves DEF SameBut
<1>p. Placed(t, call[t]) /\ (t # "gui" => Owns(t))
  BY DEF Types, Filed, Threads
<1>d. ASSUME NEW d \in Calls, Continues(t, d) PROVE call'[t] = d
  BY <1>d, ContinuesTypes
<1>i. Idle.pc = "idle"
  BY DEF Idle
<1>1. CASE OpenProfile(t)
  <2>1. PICK d \in Calls : /\ Continues(t, d) /\ d.pc = "profile_text" /\ d.name = call[t].name
                           /\ d.creating = call[t].creating
    BY <1>1, OpenProfileEffect
  <2>2. /\ UNCHANGED <<state, user>> /\ call[t].pc = "profile"
        /\ profile' = [profile EXCEPT ![call[t].name] = TornProfile]
    BY <1>1 DEF OpenProfile, At
  <2>3. ProfileBy(t, n)' <=> ProfileBy(t, n)
    BY <1>d, <2>1, <2>2 DEF Readable, Types
  <2>4. (StateBy(t, n)' <=> StateBy(t, n)) /\ (FormBy(t, n)' <=> FormBy(t, n))
    BY <1>d, <2>1, <2>2
  <2>5. QED BY <1>s, <2>3, <2>4
<1>2. CASE WriteProfile(t)
  <2>1. PICK d \in Calls :
          /\ Continues(t, d)
          /\ \/ d = Idle
             \/ /\ d.name = call[t].name /\ d.creating = call[t].creating
                /\ d.pc = IF d.creating THEN "state" ELSE "move"
          /\ d = Idle => t = "gui"
    BY <1>2, WriteProfileEffect
  <2>2. /\ UNCHANGED <<state, user>> /\ call[t].pc = "profile_text"
        /\ profile' = [profile EXCEPT ![call[t].name] = Written(call[t])]
        /\ Written(call[t]) \in Identities
    BY <1>2, WriteProfileEffect DEF WriteProfile, At, Written
  <2>3. d = Idle => ~call[t].creating
    BY <1>p, <2>1 DEF Placed
  <2>4. ProfileBy(t, n)' <=> ProfileBy(t, n)
    BY <1>d, <1>i, <2>1, <2>2, NoIdentity DEF Readable, Types
  <2>5. (StateBy(t, n)' <=> StateBy(t, n)) /\ (FormBy(t, n)' <=> FormBy(t, n))
    BY <1>d, <1>i, <2>1, <2>2, <2>3
  <2>6. QED BY <1>s, <2>4, <2>5
<1>3. CASE OpenUser(t)
  <2>1. PICK d \in Calls : /\ Continues(t, d) /\ d.pc = "user_text" /\ d.name = call[t].name
                           /\ d.creating = call[t].creating
    BY <1>3, OpenUserEffect
  <2>2. /\ UNCHANGED <<state, profile>> /\ call[t].pc = "user"
        /\ user' = [user EXCEPT ![call[t].name] = "torn"]
    BY <1>3 DEF OpenUser, At
  <2>3. FormBy(t, n)' <=> FormBy(t, n)
    BY <1>d, <2>1, <2>2 DEF Types
  <2>4. (StateBy(t, n)' <=> StateBy(t, n)) /\ (ProfileBy(t, n)' <=> ProfileBy(t, n))
    BY <1>d, <2>1, <2>2 DEF Readable
  <2>5. QED BY <1>s, <2>3, <2>4
<1>4. CASE WriteUser(t)
  <2>1. PICK d \in Calls :
          /\ Continues(t, d)
          /\ \/ d = Idle \/ (d.pc = "move" /\ ~d.creating)
             \/ (d.pc = "profile" /\ ~d.creating /\ d.name = call[t].name /\ Readable(d.name))
    BY <1>4, WriteUserEffect
  <2>2. /\ UNCHANGED <<state, profile>> /\ call[t].pc = "user_text"
        /\ user' = [user EXCEPT ![call[t].name] = IF t = "gui" THEN "saved" ELSE "default"]
    BY <1>4 DEF WriteUser, At
  <2>3. call[t].creating => state[call[t].name] # "none"
    BY <1>p, <2>2 DEF Placed, Owns
  <2>4. FormBy(t, n)' <=> FormBy(t, n)
    BY <1>d, <1>i, <2>1, <2>2 DEF Types
  <2>5. (StateBy(t, n)' <=> StateBy(t, n)) /\ (ProfileBy(t, n)' <=> ProfileBy(t, n))
    BY <1>d, <1>i, <2>1, <2>2, <2>3 DEF Readable
  <2>6. QED BY <1>s, <2>4, <2>5
<1>5. QED BY <1>1, <1>2, <1>3, <1>4 DEF FileStep

\* No step of a call breaks or repairs a session.
LEMMA StuckStays ==
  ASSUME Types, Filed, [Next]_vars, NEW n \in Names
  PROVE  /\ Stuck(n) => Stuck(n)'
         /\ ~Crash /\ ~Stuck(n) => ~Stuck(n)'
<1>1. ASSUME UNCHANGED <<dirs, profile, state, user, call>> PROVE Stuck(n)' <=> Stuck(n)
  BY <1>1 DEF Stuck, Sound, ProfileBy, StateBy, FormBy, Works, Makes, Fills, Readable
<1>2. ASSUME Crash, Stuck(n) PROVE Stuck(n)'
  <2>1. \A t \in Threads : ~Works(t, n)' /\ ~Makes(t, n)' /\ ~Fills(t, n)'
    BY <1>2 DEF Crash, Idle, Works, Makes, Fills, Early, Profiling, Forming
  <2>2. UNCHANGED <<dirs, profile, state, user>>
    BY <1>2 DEF Crash, disk
  <2>3. QED BY <1>2, <2>1, <2>2 DEF Stuck, Sound, ProfileBy, StateBy, FormBy, Readable
<1>s. ASSUME NEW t \in Threads, NEW d \in Calls, call[t].pc = "idle", call'[t] = d,
             \A s \in Threads \ {t} : call'[s] = call[s],
             UNCHANGED <<dirs, profile, state, user>>,
             \/ d.pc = "probe" \/ (d.pc = "user" /\ ~d.creating /\ user[d.name] # "torn")
      PROVE  Stuck(n)' <=> Stuck(n)
  <2>1. /\ ProfileBy(t, n)' <=> ProfileBy(t, n)
        /\ StateBy(t, n)' <=> StateBy(t, n)
        /\ FormBy(t, n)' <=> FormBy(t, n)
    BY <1>s DEF ProfileBy, StateBy, FormBy, Works, Makes, Fills, Early, Profiling, Forming, Readable
  <2>2. Sound(n)' <=> Sound(n)
    BY <1>s, <2>1, SoundStep DEF SameBut
  <2>3. QED BY <1>s, <2>2 DEF Stuck
<1>3. CASE SaveForm
  <2>1. PICK d \in Calls : /\ Continues("gui", d) /\ d.pc = "user" /\ ~d.creating
                           /\ user[d.name] # "torn"
    BY <1>3, SaveFormEffect
  <2>2. UNCHANGED <<dirs, profile, state, user>> /\ call["gui"].pc = "idle"
    BY <1>3 DEF SaveForm, disk, At
  <2>3. QED BY <1>s, <2>1, <2>2, Constants, ContinuesTypes
<1>4. ASSUME NEW w \in Watchers, Notice(w) PROVE Stuck(n)' <=> Stuck(n)
  <2>1. PICK d \in Calls : /\ Placed(w, d) /\ call' = [call EXCEPT ![w] = d] /\ d.pc = "probe"
    BY <1>4, NoticeEffect
  <2>2. w \in Threads /\ UNCHANGED <<dirs, profile, state, user>> /\ call[w].pc = "idle"
    BY <1>4, Constants DEF Notice, disk, At
  <2>3. QED BY <1>s, <2>1, <2>2, GoTypes
<1>5. ASSUME NEW w \in Watchers, Handle(w) PROVE Stuck(n)' <=> Stuck(n)
  <2>1. dirs \subseteq dirs'
    BY <1>5, ProbeEffect, LookupEffect, LoadStateEffect, ReplaceStateEffect, LoadUserEffect
    DEF Handle, OpenStaging, WriteStaging, disk, Die
  <2>2. QED BY <1>5, <2>1, HandleSound DEF Stuck
<1>6. ASSUME NEW t \in Threads, FileStep(t) PROVE Stuck(n)' <=> Stuck(n)
  <2>1. UNCHANGED dirs
    BY <1>6 DEF FileStep, OpenProfile, WriteProfile, OpenUser, WriteUser
  <2>2. QED BY <1>6, <2>1, FileSound DEF Stuck
<1>7. ASSUME NEW e \in Events, Attach(e) \/ Detach(e) PROVE Stuck(n)' <=> Stuck(n)
  BY <1>1, <1>7 DEF Attach, Detach, disk
<1>8. CASE Midnight \/ UNCHANGED vars
  BY <1>1, <1>8 DEF Midnight, vars, disk
<1>9. QED BY <1>2, <1>3, <1>4, <1>5, <1>6, <1>7, <1>8 DEF Next

\* A handler raises over an event the probe does not know, or over a session
\* that nobody is about to complete.
LEMMA DeathCause ==
  ASSUME Types, Single, Filed, Causes, NEW w \in Watchers, Handle(w), Die(w), alive[w]
  PROVE  BadEvent(w) \/ \E n \in Names : Stuck(n)
<1> w \in Threads /\ w # "gui"
  BY Constants
<1>1. \A s \in Threads \ {w} : call[s].pc = "idle"
  BY HandleMoves DEF Single, Busy
<1>2. Placed(w, call[w]) /\ Owns(w)
  BY DEF Types, Filed
<1>3. call'[w] = Idle
  BY DieTypes
<1>c. \A d \in Calls : Continues(w, d) => d = Idle
  BY <1>3, ContinuesTypes
<1>4. CASE Probe(w)
  <2>1. call[w].pc = "probe"
    BY <1>4 DEF Probe, At
  <2>2. \A d \in Calls : Continues(w, d) => d.pc = "idle"
    BY <1>c DEF Idle
  <2>3. QED BY <1>4, <2>1, <2>2, ProbeEffect DEF Causes, BadEvent
<1>5. CASE Lookup(w)
  <2>1. call[w].pc = "lookup"
    BY <1>5 DEF Lookup, At
  <2>2. \A d \in Calls : Continues(w, d) => d.pc = "idle"
    BY <1>c DEF Idle
  <2>3. PICK n \in Names : (n \in dirs /\ ~Readable(n)) \/ profile[n] = TornProfile
    BY <1>5, <2>2, LookupEffect
  <2>4. n \in dirs /\ ~Readable(n)
    BY <2>3, NoIdentity DEF Filed, Readable
  <2>5. \A t \in Threads : ~Works(t, n)
    BY <1>1, <2>1 DEF Works, Profiling
  <2>6. QED BY <2>4, <2>5 DEF Stuck, Sound, ProfileBy
<1>6. CASE LoadState(w)
  <2>1. call[w].pc = "move" /\ ~call[w].creating
    BY <1>2, <1>6 DEF LoadState, At, Placed
  <2>2. \A d \in Calls : Continues(w, d) => d.pc = "idle"
    BY <1>c DEF Idle
  <2>3. call[w].name \in Names /\ state[call[w].name] \in Unreadable
    BY <1>6, <2>2, LoadStateEffect
  <2>4. state[call[w].name] = "none" /\ call[w].name \in dirs
    BY <2>1, <2>3 DEF Filed, Unreadable, Early
  <2>5. \A t \in Threads : ~Makes(t, call[w].name)
    BY <1>1, <2>1 DEF Makes, Early
  <2>6. QED BY <2>3, <2>4, <2>5 DEF Stuck, Sound, StateBy
<1>7. CASE ReplaceState(w)
  <2>1. call[w].pc = "rename" /\ staging[call[w].name] # "none"
    BY <1>2, <1>7, States, ReplaceStateEffect DEF Owns, Placed, Moving
  <2>2. call'[w].pc # "idle"
    BY <1>7, <2>1, ReplaceStateEffect
  <2>3. QED BY <1>3, <2>2 DEF Idle
<1>8. CASE LoadUser(w)
  <2>1. call[w].pc = "move" /\ ~call[w].creating
    BY <1>2, <1>8 DEF LoadUser, At, Placed
  <2>2. CASE user[call[w].name] = "torn"
    <3>1. call[w].name \in Names /\ call[w].name \in dirs
      BY <1>8, <2>1, LoadUserEffect DEF Filed, Early
    <3>2. \A t \in Threads : ~Makes(t, call[w].name) /\ ~Fills(t, call[w].name)
      BY <1>1, <2>1 DEF Makes, Fills, Early, Forming
    <3>3. QED BY <2>2, <3>1, <3>2 DEF Stuck, Sound, FormBy
  <2>3. CASE user[call[w].name] # "torn"
    <3>1. UNCHANGED alive
      BY <1>8, <2>3, LoadUserEffect, ContinuesTypes
    <3>2. ~alive'[w]
      BY DEF Die
    <3>3. QED BY <3>1, <3>2
  <2>4. QED BY <2>2, <2>3
<1>9. CASE OpenStaging(w) \/ WriteStaging(w)
  <2>1. call'[w].pc # "idle"
    BY <1>9, OpenStagingEffect, WriteStagingEffect, ContinuesTypes
  <2>2. QED BY <1>3, <2>1 DEF Idle
<1>10. QED BY <1>4, <1>5, <1>6, <1>7, <1>8, <1>9 DEF Handle

\* Every step keeps the causes of what can end a watcher.
LEMMA CausesNext == Types /\ Single /\ Filed /\ Causes /\ [Next]_vars => Causes'
<1> SUFFICES ASSUME Types, Single, Filed, Causes, [Next]_vars PROVE Causes'
  OBVIOUS
<1>1. CASE Crash
  <2>1. crashed' > 0 /\ crashed' \in Nat
    BY <1>1 DEF Crash, Types
  <2>2. \A w \in Watchers : alive'[w] /\ call'[w].pc = "idle"
    BY <1>1, Constants DEF Crash, Idle
  <2>3. QED BY <2>1, <2>2 DEF Causes
<1>2. CASE ~Crash
  <2>1. \A n \in Names : Stuck(n)' <=> Stuck(n)
    BY <1>2, StuckStays
  <2>2. UNCHANGED crashed
    <3>1. ASSUME NEW w \in Watchers, Handle(w) PROVE UNCHANGED crashed
      BY <3>1, ProbeEffect, LookupEffect, LoadStateEffect, ReplaceStateEffect, LoadUserEffect
      DEF Handle, OpenStaging, WriteStaging, World
    <3>2. ASSUME NEW t \in Threads, FileStep(t) PROVE UNCHANGED crashed
      BY <3>2 DEF FileStep, OpenProfile, WriteProfile, OpenUser, WriteUser, World
    <3>3. QED BY <1>2, <3>1, <3>2
          DEF Next, Attach, Detach, Midnight, SaveForm, Notice, World, vars
  <2>3. crashed' = 0 => \A n \in Names : ~Stuck(n)'
    BY <2>1, <2>2 DEF Causes
  <2>s. ASSUME \A w \in Watchers : seen[w] \subseteq seen'[w],
               \A w \in Watchers : call'[w].pc = "probe" => call'[w].event.serial \in seen'[w],
               \A w \in Watchers : alive'[w] = alive[w] \/ BadEvent(w) \/ \E n \in Names : Stuck(n)
        PROVE  Causes'
    <3>1. \A w \in Watchers : BadEvent(w) => BadEvent(w)'
      BY <2>s DEF BadEvent
    <3>2. (\E n \in Names : Stuck(n)) => crashed > 0
      BY DEF Causes, Types
    <3>3. \A w \in Watchers : ~alive'[w] =>
            BadEvent(w)' \/ (crashed' > 0 /\ \E n \in Names : Stuck(n)')
      BY <2>s, <2>1, <2>2, <3>1, <3>2 DEF Causes
    <3>4. QED BY <2>s, <2>3, <3>3 DEF Causes
  <2>4. CASE UNCHANGED <<seen, alive, call>>
    BY <2>s, <2>4 DEF Causes
  <2>5. CASE SaveForm
    <3>1. PICK d \in Calls : Continues("gui", d)
      BY <2>5, SaveFormEffect
    <3>2. UNCHANGED <<seen, alive>> /\ \A w \in Watchers : call'[w] = call[w]
      BY <3>1, Constants, ContinuesTypes
    <3>3. QED BY <2>s, <3>2 DEF Causes
  <2>6. ASSUME NEW w \in Watchers, Notice(w) PROVE Causes'
    <3>1. PICK d \in Calls : /\ Placed(w, d) /\ call' = [call EXCEPT ![w] = d] /\ UNCHANGED alive
                             /\ seen' = [seen EXCEPT ![w] = @ \cup {d.event.serial}]
      BY <2>6, NoticeEffect
    <3>2. \A v \in Watchers : seen[v] \subseteq seen'[v] /\ d.event.serial \in seen'[w]
      BY <3>1 DEF Types
    <3>3. call'[w] = d /\ \A v \in Watchers \ {w} : call'[v] = call[v]
      BY <3>1, Constants, GoTypes
    <3>4. QED BY <2>s, <3>1, <3>2, <3>3 DEF Causes
  <2>7. ASSUME NEW w \in Watchers, Handle(w) PROVE Causes'
    <3>1. \A v \in Watchers \ {w} : /\ call'[v].pc = call[v].pc /\ call'[v].event = call[v].event
      BY <2>7, Constants, HandleMoves DEF SameBut
    <3>2. UNCHANGED seen /\ call'[w].pc # "probe" /\ (Die(w) \/ UNCHANGED alive)
      <4> w \in Threads
        BY Constants
      <4>1. ASSUME Die(w) PROVE UNCHANGED seen /\ call'[w].pc # "probe"
        BY <4>1, DieTypes DEF Idle
      <4>2. ASSUME NEW d \in Calls, Continues(w, d), d.pc # "probe"
            PROVE  UNCHANGED <<seen, alive>> /\ call'[w].pc # "probe"
        BY <4>2, ContinuesTypes
      <4>3. Idle.pc # "probe"
        BY DEF Idle
      <4>4. CASE Probe(w) \/ Lookup(w) \/ LoadState(w) \/ LoadUser(w)
        BY <4>1, <4>2, <4>3, <4>4, ProbeEffect, LookupEffect, LoadStateEffect, LoadUserEffect
      <4>5. CASE OpenStaging(w) \/ WriteStaging(w)
        BY <4>2, <4>5, OpenStagingEffect, WriteStagingEffect
      <4>6. CASE ReplaceState(w)
        BY <4>1, <4>6, ReplaceStateEffect
      <4>7. QED BY <2>7, <4>4, <4>5, <4>6 DEF Handle
    <3>3. \A v \in Watchers : alive'[v] = alive[v] \/ BadEvent(v) \/ \E n \in Names : Stuck(n)
      <4>1. CASE Die(w) /\ alive[w]
        BY <2>7, <4>1, DeathCause, DieTypes
      <4>2. CASE Die(w) /\ ~alive[w]
        BY <4>2 DEF Die, Types
      <4>3. QED BY <3>2, <4>1, <4>2
    <3>4. QED BY <2>s, <3>1, <3>2, <3>3 DEF Causes
  <2>8. ASSUME NEW t \in Threads, FileStep(t) PROVE Causes'
    <3>1. PICK d \in Calls : Continues(t, d) /\ d.pc # "probe"
      <4>1. Idle.pc # "probe"
        BY DEF Idle
      <4>2. QED BY <2>8, <4>1, OpenProfileEffect, WriteProfileEffect, OpenUserEffect, WriteUserEffect
                DEF FileStep
    <3>2. UNCHANGED <<seen, alive>> /\ call'[t] = d /\ \A s \in Threads \ {t} : call'[s] = call[s]
      BY <3>1, ContinuesTypes
    <3>3. \A w \in Watchers : call'[w].pc = "probe" => call'[w].event.serial \in seen'[w]
      BY <3>1, <3>2, Constants DEF Causes
    <3>4. QED BY <2>s, <3>2, <3>3
  <2>9. ASSUME NEW e \in Events, Attach(e) \/ Detach(e) PROVE Causes'
    BY <2>4, <2>9 DEF Attach, Detach
  <2>10. CASE Midnight \/ UNCHANGED vars
    BY <2>4, <2>10 DEF Midnight, vars
  <2>11. QED BY <1>2, <2>5, <2>6, <2>7, <2>8, <2>9, <2>10 DEF Next
<1>3. QED BY <1>1, <1>2

\* With one call at a time, what ends a watcher's thread is an event whose
\* transport the probe does not know, or a session some crash has left broken:
\* for any number of sessions, days and crashes (event_bus.py, the watchers).
THEOREM DeathsTheorem == ASSUME MaxInFlight = 1 PROVE Spec => []DeathsHaveCause
<1>1. Init => Causes
  BY Constants DEF Init, Causes, Stuck, Idle
<1>2. Types /\ Filed /\ Causes => DeathsHaveCause
  <2> SUFFICES ASSUME Types, Filed, Causes PROVE DeathsHaveCause
    OBVIOUS
  <2>1. \A n \in Names : Stuck(n) => Broken(n)
    BY Constants DEF Stuck, Sound, ProfileBy, StateBy, FormBy, Broken, Unreadable
  <2>2. QED BY <2>1 DEF Causes, DeathsHaveCause, BadEvent
<1>3. Spec => []Single
  BY SingleInvariant
<1>4. Spec => []Filed
  BY FiledInvariant DEF OneWatcher
<1>5. QED BY <1>1, <1>2, <1>3, <1>4, CausesNext, TypeInvariant, PTL DEF Spec

=============================================================================
