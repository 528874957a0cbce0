------------------------------ MODULE SelfHeal ------------------------------
(***************************************************************************)
(* The self-heal loop of a runtime cycle                                   *)
(* (Orchestrator._run_local_worker_fix_loop) and the operator's grant of   *)
(* further rounds (ControlApp.approve_extra_fix_loop).  Both read, change  *)
(* and write runtime/self-heal-policy.json without a lock, from different  *)
(* threads; the loop keeps the copy it read for its whole life.            *)
(*                                                                         *)
(* A cycler is a thread that may run a full cycle: a watcher thread, or    *)
(* the background thread of the GUI.  policy and report are files and      *)
(* survive Crash; loop, click and button are memory.  clicks and spent are *)
(* history.                                                                *)
(***************************************************************************)
EXTENDS WorkerRouting

CONSTANTS Cyclers,    \* threads that run full cycles
          Hosts,      \* hosts the program may find itself on
          Dispatches, \* what a cycle may hand to the workers: sequences of task names
          MaxCycles,  \* bound on full cycles
          MaxClicks,  \* bound on grants
          MaxCrashes  \* bound on crashes

ASSUME BoundsAssumption == MaxCycles \in Nat /\ MaxClicks \in Nat /\ MaxCrashes \in Nat

Task(topic, risk, edit, architecture, repetitive, budget) ==
  [topic |-> topic, risk |-> risk, needs_repo_edit |-> edit,
   architecture_level |-> architecture, repetitive |-> repetitive,
   local_retry_count |-> 0, retry_budget |-> budget]

\* The tasks _run_runtime_cycle hands to the workers before the loop.
TaskOf == [device_discovery        |-> Task("other", "low", FALSE, FALSE, TRUE, 1),
           use_case_recommendation |-> Task("other", "medium", FALSE, FALSE, FALSE, 1),
           artifact_research       |-> Task("research", "medium", FALSE, FALSE, TRUE, 1)]

\* The repair the loop asks for in every round.
WorkerSelfHeal == Task("other", "medium", TRUE, FALSE, TRUE, 1)

ASSUME DispatchesAssumption ==
  \A d \in Dispatches : d \in Seq(DOMAIN TaskOf) /\ Len(d) <= Cardinality(DOMAIN TaskOf)

DEFAULT_SELF_HEAL_ROUNDS    == 3
EXTRA_SELF_HEAL_ROUND_BATCH == 3

VARIABLES host,    \* executables, models and variables, fixed at start
          policy,  \* runtime/self-heal-policy.json
          report,  \* worker_self_heal.status of reports/retry-plan.json
          loop,    \* per cycler: the locals of its cycle
          click,   \* approve_extra_fix_loop between its read and its write
          button,  \* allow_extra_fix_button as of the last refresh
          clicks,  \* history: grants written
          spent,   \* history: rounds run after the first of a loop
          cycles, crashes

vars == <<host, policy, report, loop, click, button, clicks, spent, cycles, crashes>>

Policies == [granted : Nat, consumed : Nat]
Statuses == {"not_needed", "attempted", "recovered", "repair_failed",
             "permission_required", "retry_failed"}
Asking   == {"permission_required", "retry_failed", "repair_failed"}

\* A failing task with its count of local retries and, as history, how often
\* it has been run by a local worker in this cycle.
Failures == [task : DOMAIN TaskOf, count : Nat, local : Nat]

NoPolicy == [granted |-> 0, consumed |-> 0]
NoClick  == [pc |-> "idle", policy |-> NoPolicy]
Idle == [pc |-> "idle", policy |-> NoPolicy, available |-> 0,
         remaining |-> <<>>, next |-> <<>>, round |-> 0, clean |-> TRUE,
         repair |-> "not_run", status |-> "not_needed"]

\* Mutant of Extra: the difference is not cut off at zero.
Extra_Signed(p) == p.granted - p.consumed

Extra(p) == IF p.granted > p.consumed THEN p.granted - p.consumed ELSE 0

Init ==
  /\ host \in Hosts
  /\ policy = NoPolicy
  /\ report = "not_needed"
  /\ loop = [c \in Cyclers |-> Idle]
  /\ click = NoClick
  /\ button = FALSE
  /\ clicks = 0 /\ spent = 0
  /\ cycles = 0 /\ crashes = 0

-----------------------------------------------------------------------------
(* A full cycle up to the loop, and the loop.                              *)

Failing(e)   == e.status \in {"failed", "unavailable"} \/ e.repeated_failure
MayFail(h, t) == \E e \in Execute(h, Route(h, t), t) : Failing(e)
MayPass(h, t) == \E e \in Execute(h, Route(h, t), t) : ~Failing(e)

\* The dispatched tasks of the local tier that may fail together, in the order
\* of their dispatch.
FailingTriplets(h, d) ==
  LET local  == {i \in DOMAIN d : tier(Route(h, TaskOf[d[i]])) = "LOCAL"}
      chosen == {S \in SUBSET local :
                   /\ \A i \in S : MayFail(h, TaskOf[d[i]])
                   /\ \A i \in local \ S : MayPass(h, TaskOf[d[i]])}
      orders == {o \in UNION {[1..Cardinality(S) -> S] : S \in chosen} :
                   \A j, k \in DOMAIN o : j < k => o[j] < o[k]}
  IN  {[k \in DOMAIN o |-> [task |-> d[o[k]], count |-> 0, local |-> 1]] : o \in orders}

FirstThree(s) == IF Len(s) <= 3 THEN s ELSE SubSeq(s, 1, 3)

\* The workers run, the policy is read, and the loop starts with the first
\* three failures, or is not needed.
Begin(c) ==
  /\ loop[c].pc = "idle" /\ cycles < MaxCycles
  /\ cycles' = cycles + 1
  /\ \E d \in Dispatches : \E failing \in FailingTriplets(host, d) :
       loop' = [loop EXCEPT ![c] =
         [Idle EXCEPT !.policy = policy, !.available = Extra(policy),
                      !.remaining = FirstThree(failing),
                      !.pc = IF failing = <<>> THEN "report" ELSE "repair"]]
  /\ UNCHANGED <<host, policy, report, click, button, clicks, spent, crashes>>

\* One round: the repair is run by the worker it is routed to ...
Repair(c) ==
  /\ loop[c].pc = "repair"
  /\ \E e \in Execute(host, Route(host, WorkerSelfHeal), WorkerSelfHeal) :
       loop' = [loop EXCEPT ![c].repair = e.status, ![c].pc = "retry", ![c].next = <<>>]
  /\ spent' = IF loop[c].round > 0 THEN spent + 1 ELSE spent
  /\ UNCHANGED <<host, policy, report, click, button, clicks, cycles, crashes>>

\* Mutant of RetryTask: the count starts again from the dispatched task.
RetryTask_FromDispatch(f, round) ==
  [TaskOf[f.task] EXCEPT !.local_retry_count = @ + 1, !.retry_budget = 1, !.repetitive = TRUE]

\* ... and each remaining failure is tried again, with a count that grows by
\* the number of the round.
RetryTask(f, round) == [TaskOf[f.task] EXCEPT !.local_retry_count = f.count + 1 + round,
                                              !.retry_budget = 1, !.repetitive = TRUE]

Retried(f, round, worker) ==
  [f EXCEPT !.count = f.count + 1 + round,
            !.local = IF tier(worker) = "LOCAL" THEN f.local + 1 ELSE f.local]

Retry(c) ==
  /\ loop[c].pc = "retry" /\ loop[c].remaining # <<>>
  /\ LET f      == Head(loop[c].remaining)
         t      == RetryTask(f, loop[c].round)
         worker == Route(host, t)
     IN  \E e \in Execute(host, worker, t) :
           loop' = [loop EXCEPT ![c].remaining = Tail(loop[c].remaining),
                      ![c].clean = loop[c].clean /\ e.status = "completed",
                      ![c].next = IF e.status = "completed" THEN loop[c].next
                                  ELSE Append(loop[c].next, Retried(f, loop[c].round, worker))]
  /\ UNCHANGED <<host, policy, report, click, button, clicks, spent, cycles, crashes>>

\* Mutant of Allowed: one round more than granted.
Allowed_OneMore(available) == DEFAULT_SELF_HEAL_ROUNDS + available + 1

\* The next round, or the end of the loop: nothing remains, or the rounds
\* are used up.
Allowed(available) == DEFAULT_SELF_HEAL_ROUNDS + available

EndRound(c) ==
  /\ loop[c].pc = "retry" /\ loop[c].remaining = <<>>
  /\ LET more == loop[c].next # <<>> /\ loop[c].round + 1 < Allowed(loop[c].available)
     IN  loop' = [loop EXCEPT ![c].remaining = loop[c].next, ![c].next = <<>>,
                              ![c].round = IF more THEN @ + 1 ELSE @,
                              ![c].pc = IF more THEN "repair" ELSE "account"]
  /\ UNCHANGED <<host, policy, report, click, button, clicks, spent, cycles, crashes>>

\* Mutant of LoopStatus: only a loop without any grant asks.
LoopStatus_AsksOnce(l) == CASE l.clean -> "recovered"
                            [] l.remaining # <<>> /\ l.available = 0 -> "permission_required"
                            [] OTHER -> "attempted"

\* The status of a loop that has run; "recovered" needs every retry of every
\* round to have completed (retried = recovered).
LoopStatus(l) == CASE l.clean -> "recovered"
                   [] l.repair # "completed" -> "repair_failed"
                   [] l.remaining # <<>> /\ l.available = 0 -> "permission_required"
                   [] l.remaining # <<>> -> "retry_failed"
                   [] OTHER -> "attempted"

\* Mutant of Account: the first round is counted as well.
Account_CountsFirst(c) ==
  /\ loop[c].pc = "account"
  /\ policy' = [loop[c].policy EXCEPT !.consumed = @ + loop[c].round + 1]
  /\ loop' = [loop EXCEPT ![c].pc = "report", ![c].status = LoopStatus(loop[c])]
  /\ UNCHANGED <<host, report, click, button, clicks, spent, cycles, crashes>>

\* Every round after the first counts as consumed, the free ones too; the
\* copy of the policy read by Begin is written back with it.
Account(c) ==
  /\ loop[c].pc = "account"
  /\ policy' = IF loop[c].round > 0
               THEN [loop[c].policy EXCEPT !.consumed = @ + loop[c].round] ELSE policy
  /\ loop' = [loop EXCEPT ![c].pc = "report", ![c].status = LoopStatus(loop[c])]
  /\ UNCHANGED <<host, report, click, button, clicks, spent, cycles, crashes>>

\* The cycle ends with writing reports/retry-plan.json.
Report(c) ==
  /\ loop[c].pc = "report"
  /\ report' = loop[c].status
  /\ loop' = [loop EXCEPT ![c] = Idle]
  /\ UNCHANGED <<host, policy, click, button, clicks, spent, cycles, crashes>>

\* A lightweight cycle runs no worker and reports that none was needed.
Lightweight ==
  /\ report' = "not_needed"
  /\ UNCHANGED <<host, policy, loop, click, button, clicks, spent, cycles, crashes>>

-----------------------------------------------------------------------------
(* The operator.                                                           *)

Refresh ==
  /\ click.pc = "idle"
  /\ button' = (report \in Asking)
  /\ UNCHANGED <<host, policy, report, loop, click, clicks, spent, cycles, crashes>>

Approve ==
  /\ click.pc = "idle" /\ button /\ clicks < MaxClicks
  /\ click' = [pc |-> "read", policy |-> policy]
  /\ UNCHANGED <<host, policy, report, loop, button, clicks, spent, cycles, crashes>>

WriteGrant ==
  /\ click.pc = "read"
  /\ policy' = [click.policy EXCEPT !.granted = @ + EXTRA_SELF_HEAL_ROUND_BATCH]
  /\ click' = NoClick
  /\ button' = (report \in Asking)
  /\ clicks' = clicks + 1
  /\ UNCHANGED <<host, report, loop, spent, cycles, crashes>>

Crash ==
  /\ crashes < MaxCrashes
  /\ crashes' = crashes + 1
  /\ loop' = [c \in Cyclers |-> Idle]
  /\ click' = NoClick
  /\ button' = FALSE
  /\ UNCHANGED <<host, policy, report, clicks, spent, cycles>>

Next == \/ \E c \in Cyclers : Begin(c) \/ Repair(c) \/ Retry(c) \/ EndRound(c)
                                \/ Account(c) \/ Report(c)
        \/ Lightweight \/ Refresh \/ Approve \/ WriteGrant \/ Crash

Spec == Init /\ [][Next]_vars
-----------------------------------------------------------------------------
(* Properties.                                                             *)

LoopTypes ==
  [pc : {"idle", "repair", "retry", "account", "report"}, policy : Policies, available : Nat,
   remaining : Seq(Failures), next : Seq(Failures), round : Nat, clean : BOOLEAN,
   repair : {"not_run", "completed", "failed"}, status : Statuses]

\* Files, the loops' locals and the operator's click keep their types; in
\* particular the rounds available to a loop are never negative, although
\* more rounds may be consumed than were ever granted.
TypeOK ==
  /\ policy \in Policies /\ report \in Statuses
  /\ loop \in [Cyclers -> LoopTypes]
  /\ click \in [pc : {"idle", "read"}, policy : Policies]
  /\ button \in BOOLEAN
  /\ clicks \in Nat /\ spent \in Nat /\ cycles \in Nat /\ crashes \in Nat

\* self-heal-policy.json never claims more than happened: not more granted
\* than the operator approved, nor more consumed than rounds were run,
\* however stale the copies are that loop and operator write over each other.
PolicyIsHonest == /\ policy.granted <= EXTRA_SELF_HEAL_ROUND_BATCH * clicks
                  /\ policy.consumed <= spent

\* No loop runs more rounds than the free ones and all the operator ever
\* granted (rounds_allowed).
LoopWithinGrants ==
  \A c \in Cyclers : loop[c].round < DEFAULT_SELF_HEAL_ROUNDS + EXTRA_SELF_HEAL_ROUND_BATCH * clicks

\* A task that keeps failing is run by a local worker at most twice in a
\* cycle, once dispatched and once retried; further rounds take it to the
\* frontier, however many of them are granted.
OneLocalRetry ==
  \A c \in Cyclers : \A q \in {loop[c].remaining, loop[c].next} :
    \A i \in DOMAIN q : q[i].local <= 2

\* A loop that gives up on a task reports a status that lets the operator
\* approve more rounds, and one that reports recovery has given up on none.
StuckIsTold ==
  \A c \in Cyclers : loop[c].pc = "report" =>
    /\ loop[c].remaining # <<>> => loop[c].status \in Asking
    /\ loop[c].status = "recovered" => loop[c].remaining = <<>>

\* On a host whose general worker is ready, every task that may reach it is
\* given a model that is installed there or hosted elsewhere.
ModelsAreUsable ==
  \A name \in DOMAIN TaskOf : \A again \in BOOLEAN :
    LET t == IF again THEN RetryTask([task |-> name, count |-> 0, local |-> 1], 0) ELSE TaskOf[name]
    IN  Route(host, t) = "LOCAL_GENERAL" => Usable(host, Select(host, RoleForTask(t)))
=============================================================================
