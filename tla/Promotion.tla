------------------------------ MODULE Promotion ------------------------------
(***************************************************************************)
(* How a generated adapter reaches master/: CodegenRuntime generates and   *)
(* self-tests one for a device that has none, PatchExecutor and            *)
(* AdapterRegistry file it under promotion/adapters/<key>/, and            *)
(* PromotionEngine, called at the end of every device event, copies it to  *)
(* master/ when the rules allow it.  KnowledgeEngine's outcomes confirm a  *)
(* promoted adapter in the audit of the next start.                        *)
(*                                                                         *)
(* Adapters and meta.json are written in place, so each write is two       *)
(* steps, "torn" in between.  The playbook travels with its adapter.  An   *)
(* adapter is the number of the call that generated it.  The threshold     *)
(* path of PromotionEngine.evaluate never promotes: it asks for            *)
(* promotion/adapters/<maker>:<model>, a name no adapter is filed under.   *)
(***************************************************************************)
EXTENDS Integers, FiniteSets

CONSTANTS Sessions,    \* devices/<session>
          Keys,        \* adapter keys <maker>_<model>
          KeyOf,       \* the key of a session's device
          MaxCalls,    \* bound on calls of the orchestrator
          MaxInFlight, \* bound on the calls that overlap
          MaxChanges,  \* bound on edits of promotion_rules.json
          MaxCrashes   \* bound on crashes

ASSUME KeysAssumption   == KeyOf \in [Sessions -> Keys]
ASSUME BoundsAssumption == {MaxCalls, MaxInFlight, MaxChanges, MaxCrashes} \subseteq Nat

Calls    == 1..MaxCalls
NoText   == 0
Torn     == -1
Texts    == Calls \cup {NoText, Torn}
Evidence == {"probe_pass", "probe_no_device", "adapter_failed"}

VARIABLES auto,      \* promotion_rules.json: auto_apply_master_changes
          draft,     \* per session: adapters/<key>.py
          review,    \* per key: promotion/adapters/<key>/<key>.py
          meta,      \* per key: its meta.json
          master,    \* per key: master/integrations/oem_adapters/<key>.py
          outcomes,  \* session_outcomes.json: sessions with a real serial number
          call,      \* per call: its locals
          tested,    \* history: per adapter, what its self-test said
          changes, crashed, overlapped

vars == <<auto, draft, review, meta, master, outcomes, call, tested, changes, crashed, overlapped>>
files == <<draft, review, meta, master, outcomes>>
history == <<tested, changes, crashed, overlapped>>

NoMeta   == [status |-> "none", text |-> "none"]
TornMeta == [status |-> "torn", text |-> "none"]

New      == [pc |-> "new", session |-> "none", event |-> FALSE, text |-> NoText,
             result |-> "none", known |-> {}, todo |-> {}, key |-> "none"]
Ended    == [New EXCEPT !.pc = "end"]
InFlight == {c \in Calls : call[c].pc \notin {"new", "end"}}

Init == /\ auto \in BOOLEAN
        /\ draft = [s \in Sessions |-> NoText]
        /\ review = [k \in Keys |-> NoText]
        /\ meta = [k \in Keys |-> NoMeta]
        /\ master = [k \in Keys |-> NoText]
        /\ outcomes = {}
        /\ call = [c \in Calls |-> New]
        /\ tested = [c \in Calls |-> "none"]
        /\ changes = 0 /\ crashed = 0 /\ overlapped = FALSE

Key(c) == KeyOf[call[c].session]
Goes(c, from, to) == call[c].pc = from /\ call' = [call EXCEPT ![c].pc = to]

\* After the runtime cycle only a device event records and promotes.
AfterCycle(event) == IF event THEN "load" ELSE "end"

(***************************************************************************)
(* The runtime cycle: generate, test and register.                         *)
(***************************************************************************)
HasMasterAdapter(key) == master[key] # NoText

\* A call starts; without a master adapter a cycle that runs workers makes one.
Begin(c) ==
  /\ call[c].pc = "new" /\ Cardinality(InFlight) < MaxInFlight
  /\ \A d \in 1..(c - 1) : call[d].pc # "new"
  /\ \E s \in Sessions, event, workers \in BOOLEAN :
       call' = [call EXCEPT ![c] =
         [New EXCEPT !.session = s, !.event = event,
                     !.pc = IF workers /\ ~HasMasterAdapter(KeyOf[s]) THEN "generate" ELSE AfterCycle(event)]]
  /\ overlapped' = (overlapped \/ InFlight # {})
  /\ UNCHANGED <<auto, files, tested, changes, crashed>>

\* generate_device_adapter.
Generate(c) == /\ Goes(c, "generate", "generating")
               /\ draft' = [draft EXCEPT ![call[c].session] = Torn]
               /\ UNCHANGED <<auto, review, meta, master, outcomes, history>>

Generated(c) == /\ Goes(c, "generating", "test")
                /\ draft' = [draft EXCEPT ![call[c].session] = c]
                /\ UNCHANGED <<auto, review, meta, master, outcomes, history>>

\* Mutant of Passed: any structured answer is taken for a pass.
Passed_Any(result) == result \in Evidence

Passed(result) == result \in {"probe_pass", "probe_no_device"}

\* execute_adapter_self_test: the device may be gone; a torn adapter fails.
SelfTest(c) ==
  LET text == draft[call[c].session] IN
  /\ call[c].pc = "test"
  /\ \E result \in IF text = Torn THEN {"adapter_failed"} ELSE Evidence :
       /\ call' = [call EXCEPT ![c].result = result,
                               ![c].pc = IF Passed(result) THEN "register" ELSE AfterCycle(call[c].event)]
       /\ tested' = IF text = Torn THEN tested ELSE [tested EXCEPT ![text] = result]
  /\ UNCHANGED <<auto, files, changes, crashed, overlapped>>

\* register_session_adapter: the adapter, then its meta.json.
Register(c) == /\ call[c].pc = "register"
               /\ call' = [call EXCEPT ![c].pc = "copying", ![c].text = draft[call[c].session]]
               /\ review' = [review EXCEPT ![Key(c)] = Torn]
               /\ UNCHANGED <<auto, draft, meta, master, outcomes, history>>

Copied(c) == /\ Goes(c, "copying", "describe")
             /\ review' = [review EXCEPT ![Key(c)] = call[c].text]
             /\ UNCHANGED <<auto, draft, meta, master, outcomes, history>>

Describe(c) == /\ Goes(c, "describe", "describing")
               /\ meta' = [meta EXCEPT ![Key(c)] = TornMeta]
               /\ UNCHANGED <<auto, draft, review, master, outcomes, history>>

\* Mutant of Described: the whole answer of the self-test is filed as its status.
Described_Raw(c) == /\ Goes(c, "describing", AfterCycle(call[c].event))
                    /\ meta' = [meta EXCEPT ![Key(c)] = [status |-> call[c].result, text |-> call[c].result]]
                    /\ UNCHANGED <<auto, draft, review, master, outcomes, history>>

Described(c) == /\ Goes(c, "describing", AfterCycle(call[c].event))
                /\ meta' = [meta EXCEPT ![Key(c)] = [status |-> "pending_review", text |-> call[c].result]]
                /\ UNCHANGED <<auto, draft, review, master, outcomes, history>>

(***************************************************************************)
(* The end of a device event: record, then promote.                        *)
(***************************************************************************)
\* record_session_outcome: load, change and write without a lock.  The profile
\* has the real serial number or the one the USB watcher made up.
Load(c) == /\ call[c].pc = "load"
           /\ call' = [call EXCEPT ![c].pc = "record", ![c].known = outcomes]
           /\ UNCHANGED <<auto, files, history>>

Record(c) == /\ Goes(c, "record", "rules")
             /\ outcomes' \in {call[c].known \cup {call[c].session}, call[c].known \ {call[c].session}}
             /\ UNCHANGED <<auto, draft, review, meta, master, history>>

\* _auto_promote_tested_adapters reads the rules once.
Rules(c) ==
  /\ call[c].pc = "rules"
  /\ call' = IF auto THEN [call EXCEPT ![c].pc = "scan", ![c].todo = Keys] ELSE [call EXCEPT ![c] = Ended]
  /\ UNCHANGED <<auto, files, history>>

\* Mutant of Promotable: only an adapter that saw its device is promoted.
Promotable_Seen(key) == /\ meta[key].status = "pending_review" /\ meta[key].text = "probe_pass"
                        /\ ~HasMasterAdapter(key)

\* A meta.json that does not parse is passed over.
Promotable(key) == /\ meta[key].status = "pending_review"
                   /\ Passed(meta[key].text)
                   /\ ~HasMasterAdapter(key)
                   /\ review[key] # NoText

\* The next entry of promotion/adapters, in the order of the directory.
Consider(c) ==
  /\ call[c].pc = "scan"
  /\ \E key \in call[c].todo :
       IF Promotable(key)
       THEN /\ master' = [master EXCEPT ![key] = Torn]
            /\ call' = [call EXCEPT ![c].pc = "promoting", ![c].key = key, ![c].todo = @ \ {key},
                                    ![c].result = meta[key].text]
       ELSE /\ call' = [call EXCEPT ![c].todo = @ \ {key}]
            /\ UNCHANGED master
  /\ UNCHANGED <<auto, draft, review, meta, outcomes, history>>

\* Mutant of Promote: meta.json is written before the copy is made.
Promote_MetaFirst(c) ==
  /\ Goes(c, "promoting", "marking")
  /\ meta' = [meta EXCEPT ![call[c].key] = [status |-> "promoted", text |-> call[c].result]]
  /\ UNCHANGED <<auto, draft, review, master, outcomes, history>>

\* apply_to_master: the copy, then meta.json.
Promote(c) == /\ Goes(c, "promoting", "mark")
              /\ master' = [master EXCEPT ![call[c].key] = review[call[c].key]]
              /\ UNCHANGED <<auto, draft, review, meta, outcomes, history>>

Mark(c) == /\ Goes(c, "mark", "marking")
           /\ meta' = [meta EXCEPT ![call[c].key] = TornMeta]
           /\ UNCHANGED <<auto, draft, review, master, outcomes, history>>

\* Mutant of Marked: being promoted counts as having passed.
Marked_AsPassed(c) == /\ Goes(c, "marking", "scan")
                      /\ meta' = [meta EXCEPT ![call[c].key] = [status |-> "promoted", text |-> "probe_pass"]]
                      /\ UNCHANGED <<auto, draft, review, master, outcomes, history>>

Marked(c) == /\ Goes(c, "marking", "scan")
             /\ meta' = [meta EXCEPT ![call[c].key] = [status |-> "promoted", text |-> call[c].result]]
             /\ UNCHANGED <<auto, draft, review, master, outcomes, history>>

EventEnds(c) == /\ call[c].pc = "scan" /\ call[c].todo = {}
                /\ call' = [call EXCEPT ![c] = Ended]
                /\ UNCHANGED <<auto, files, history>>

\* The operator edits promotion_rules.json.
EditRules == /\ changes < MaxChanges
             /\ auto' = ~auto
             /\ changes' = changes + 1
             /\ UNCHANGED <<files, call, tested, crashed, overlapped>>

Crash == /\ crashed < MaxCrashes /\ InFlight # {}
         /\ call' = [c \in Calls |-> IF c \in InFlight THEN Ended ELSE call[c]]
         /\ crashed' = crashed + 1
         /\ UNCHANGED <<auto, files, tested, changes, overlapped>>

Step(c) == \/ Begin(c) \/ Generate(c) \/ Generated(c) \/ SelfTest(c) \/ Register(c) \/ Copied(c)
           \/ Describe(c) \/ Described(c) \/ Load(c) \/ Record(c) \/ Rules(c) \/ Consider(c)
           \/ Promote(c) \/ Mark(c) \/ Marked(c) \/ EventEnds(c)

Next == EditRules \/ Crash \/ \E c \in Calls : Step(c)

Spec == Init /\ [][Next]_vars

(***************************************************************************)
(* Properties.                                                             *)
(***************************************************************************)
Confirmed == {KeyOf[s] : s \in outcomes}

\* audit_promoted_adapters.
Audit == {key \in Keys : /\ meta[key].status = "promoted"
                         /\ meta[key].text = "probe_no_device"
                         /\ key \notin Confirmed}

Quiet == InFlight = {} /\ ~overlapped

\* The values of the files and of the calls' locals.
TypeOK ==
  /\ auto \in BOOLEAN /\ outcomes \subseteq Sessions
  /\ draft \in [Sessions -> Texts] /\ review \in [Keys -> Texts] /\ master \in [Keys -> Texts]
  /\ meta \in [Keys -> {NoMeta, TornMeta} \cup [status : {"pending_review", "promoted"}, text : Evidence]]
  /\ \A c \in Calls : /\ call[c].session \in Sessions \cup {"none"}
                      /\ call[c].text \in Texts /\ call[c].todo \subseteq Keys
  /\ tested \in [Calls -> Evidence \cup {"none"}]
  /\ changes \in 0..MaxChanges /\ crashed \in 0..MaxCrashes /\ overlapped \in BOOLEAN

\* Only what passed its self-test becomes the adapter of every later session:
\* a torn or failing one takes a crash or two calls at once.
MasterIsTested ==
  \A key \in Keys : /\ master[key] \in Calls /\ ~overlapped
                       => tested[master[key]] \in {"probe_pass", "probe_no_device"}
                    /\ Quiet /\ crashed = 0 => master[key] # Torn

\* meta.json says promoted only of an adapter that is in master/, wherever the
\* process died.
PromotedIsInMaster ==
  \A key \in Keys : meta[key].status = "promoted" =>
    /\ HasMasterAdapter(key)
    /\ ~overlapped => master[key] = review[key]

\* The audit of the next start names every master adapter that never saw its
\* device and has no session with the real device since.
AuditIsComplete ==
  Quiet /\ crashed = 0 =>
    \A key \in Keys : /\ master[key] \in Calls
                      /\ tested[master[key]] = "probe_no_device"
                      /\ key \notin Confirmed
                      => key \in Audit

\* orchestrator.py:2042: "on the next (or same) orchestration cycle this method
\* copies it into master/": no tested adapter is left behind by a promotion.
EventPromotes ==
  [][\A c \in Calls : EventEnds(c) /\ ~overlapped =>
       \A key \in Keys : meta[key].status = "pending_review" => HasMasterAdapter(key)]_vars

=============================================================================
