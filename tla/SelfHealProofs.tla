--------------------------- MODULE SelfHealProofs ---------------------------
(***************************************************************************)
(* Proofs about SelfHeal, for any threads, hosts and numbers of cycles,    *)
(* grants and crashes: the shared policy file never claims more than       *)
(* happened, loops stay within the grants, a stuck task leaves the local   *)
(* tier and is told, and the general worker has a usable model.            *)
(***************************************************************************)
EXTENDS SelfHeal, TLAPS, SequenceTheorems, FiniteSetTheorems, WellFoundedInduction

-----------------------------------------------------------------------------
(* Workers and tasks.                                                      *)

\* A worker's process completes or fails; only a host without the general
\* worker answers otherwise.
LEMMA RunStatus ==
  ASSUME NEW b, NEW e \in RunFrontier(b)
  PROVE  e.status \in {"completed", "failed"}
<1>1. CASE e \in RunAdapter(b)
  <2>1. PICK s \in Tries(b) : \E r \in {FALSE, MayRepeat(s)} :
          e = Execution(IF Completed(s) THEN "completed" ELSE "failed", Confidence(s, b, r), r)
    BY <1>1 DEF RunAdapter
  <2>2. QED BY <2>1 DEF Execution
<1>2. CASE e \in {Execution("completed", 65, FALSE), Execution("failed", 10, FALSE)}
  BY <1>2 DEF Execution
<1>3. QED BY <1>1, <1>2 DEF RunFrontier

\* The repair goes to the editor or to the frontier.
LEMMA RepairStatus ==
  ASSUME NEW h, NEW e \in Execute(h, Route(h, WorkerSelfHeal), WorkerSelfHeal)
  PROVE  e.status \in {"completed", "failed"}
<1>1. Route(h, WorkerSelfHeal) \in {"LOCAL_EDITOR", "FRONTIER_ARCHITECT"}
  BY DEF Route, Decision, WorkerSelfHeal, Task, tier
<1>2. e \in RunFrontier(WorkerSelfHeal.retry_budget)
  BY <1>1 DEF Execute, RunFrontier
<1>3. QED BY <1>2, RunStatus

\* What a cycle hands to the loop: tasks that a local worker has run once.
LEMMA TripletsType ==
  ASSUME NEW h, NEW d \in Dispatches, NEW q \in FailingTriplets(h, d)
  PROVE  q \in Seq(Failures) /\ \A i \in DOMAIN q : q[i].local = 1
<1>1. d \in Seq(DOMAIN TaskOf)
  BY DispatchesAssumption
<1>2. PICK S \in SUBSET DOMAIN d : \E o \in [1..Cardinality(S) -> S] :
        q = [k \in DOMAIN o |-> [task |-> d[o[k]], count |-> 0, local |-> 1]]
  BY DEF FailingTriplets
<1>o. PICK o \in [1..Cardinality(S) -> S] :
        q = [k \in DOMAIN o |-> [task |-> d[o[k]], count |-> 0, local |-> 1]]
  BY <1>2
<1>3. Cardinality(S) \in Nat
  <2>1. DOMAIN d = 1..Len(d) /\ Len(d) \in Nat
    BY <1>1
  <2>2. IsFiniteSet(DOMAIN d)
    BY <2>1, FS_Interval
  <2>3. QED BY <2>2, FS_Subset, FS_CardinalityType
<1>4. \A k \in DOMAIN o : q[k] \in Failures /\ q[k].local = 1
  BY <1>1, <1>o DEF Failures
<1>5. DOMAIN q = 1..Cardinality(S)
  BY <1>o
<1>6. QED BY <1>o, <1>3, <1>4, <1>5

\* The first three of them.
LEMMA FirstThreeType ==
  ASSUME NEW q \in Seq(Failures), \A i \in DOMAIN q : q[i].local = 1
  PROVE  FirstThree(q) \in Seq(Failures) /\ \A i \in DOMAIN FirstThree(q) : FirstThree(q)[i].local = 1
BY DEF FirstThree

\* A retry after the first round is routed to the frontier, and a retry adds at
\* most one run of a local worker.
LEMMA RetriedType ==
  ASSUME NEW h, NEW f \in Failures, NEW round \in Nat,
         NEW worker, worker = Route(h, RetryTask(f, round))
  PROVE  /\ Retried(f, round, worker) \in Failures
         /\ Retried(f, round, worker).local <= f.local + 1
         /\ round > 0 => Retried(f, round, worker).local = f.local
<1>1. f.count \in Nat /\ f.local \in Nat /\ f.task \in DOMAIN TaskOf
  BY DEF Failures
<1>2. round > 0 => tier(worker) # "LOCAL"
  <2> SUFFICES ASSUME round > 0 PROVE tier(worker) # "LOCAL"
    OBVIOUS
  <2> DEFINE t == RetryTask(f, round)
  <2>1. t.local_retry_count >= 2
    BY <1>1 DEF RetryTask, TaskOf, Task
  <2>2. ~t.needs_repo_edit
    BY <1>1 DEF RetryTask, TaskOf, Task
  <2>3. worker = Decision(h, "FRONTIER_ARCHITECT")
    <3> HIDE DEF t
    <3> QED BY <2>1, <2>2 DEF Route, t
  <2>4. QED BY <2>3 DEF Decision, tier
<1>3. Retried(f, round, worker) = [f EXCEPT !.count = f.count + 1 + round,
                                           !.local = IF tier(worker) = "LOCAL" THEN f.local + 1 ELSE f.local]
  BY DEF Retried
<1>4. Retried(f, round, worker) = [task |-> f.task, count |-> f.count + 1 + round,
                                   local |-> IF tier(worker) = "LOCAL" THEN f.local + 1 ELSE f.local]
  BY <1>3 DEF Failures
<1>5. QED BY <1>1, <1>2, <1>4 DEF Failures

\* A loop's status is one of the known ones.
LEMMA LoopStatusType ==
  ASSUME NEW l PROVE LoopStatus(l) \in Statuses
BY DEF LoopStatus, Statuses

-----------------------------------------------------------------------------
(* Type correctness.                                                       *)

\* The values a thread and a click fall back to.
LEMMA IdleType == NoPolicy \in Policies /\ Idle \in LoopTypes
                  /\ NoClick \in [pc : {"idle", "read"}, policy : Policies]
BY DEF NoPolicy, Policies, Idle, NoClick, LoopTypes, Statuses

\* Every initial state is well typed.
LEMMA InitType == Init => TypeOK
<1> SUFFICES ASSUME Init PROVE TypeOK
  OBVIOUS
<1>1. loop \in [Cyclers -> LoopTypes]
  BY IdleType DEF Init
<1>2. button \in BOOLEAN
  BY Zenon DEF Init
<1>3. QED BY <1>1, <1>2, IdleType DEF Init, TypeOK, Statuses

\* The rounds a policy leaves over are a natural number.
LEMMA ExtraType ==
  ASSUME NEW p \in Policies
  PROVE  Extra(p) \in Nat /\ Extra(p) <= p.granted
BY DEF Extra, Policies

\* The beginning of a round and its end keep a loop's type.
LEMMA RoundType ==
  ASSUME NEW l \in LoopTypes, NEW repair \in {"completed", "failed"}, NEW more \in BOOLEAN
  PROVE  /\ [l EXCEPT !.repair = repair, !.pc = "retry", !.next = <<>>] \in LoopTypes
         /\ [l EXCEPT !.remaining = l.next, !.next = <<>>, !.round = IF more THEN @ + 1 ELSE @,
                      !.pc = IF more THEN "repair" ELSE "account"] \in LoopTypes
<1> DEFINE n == IF more THEN l.round + 1 ELSE l.round
           pc == IF more THEN "repair" ELSE "account"
<1>1. l.next \in Seq(Failures) /\ l.round \in Nat /\ <<>> \in Seq(Failures)
  BY DEF LoopTypes
<1>2. n \in Nat /\ pc \in {"repair", "account"}
  BY <1>1
<1> HIDE DEF n, pc
<1>3. [l EXCEPT !.remaining = l.next, !.next = <<>>, !.round = n, !.pc = pc] \in LoopTypes
  BY <1>1, <1>2 DEF LoopTypes
<1>4. [l EXCEPT !.repair = repair, !.pc = "retry", !.next = <<>>] \in LoopTypes
  BY <1>1 DEF LoopTypes
<1>5. QED BY <1>3, <1>4 DEF n, pc

\* The steps of a cycle keep the types.
LEMMA CycleType ==
  ASSUME TypeOK, NEW c \in Cyclers
  PROVE  Begin(c) \/ Repair(c) \/ Retry(c) \/ EndRound(c) \/ Account(c) \/ Report(c) => TypeOK'
<1>1. loop[c] \in LoopTypes /\ policy \in Policies
  BY DEF TypeOK
<1>2. CASE Begin(c)
  <2>1. PICK d \in Dispatches : \E failing \in FailingTriplets(host, d) :
          loop' = [loop EXCEPT ![c] =
            [Idle EXCEPT !.policy = policy, !.available = Extra(policy),
                         !.remaining = FirstThree(failing),
                         !.pc = IF failing = <<>> THEN "report" ELSE "repair"]]
    BY <1>2 DEF Begin
  <2>2. PICK failing \in FailingTriplets(host, d) :
          loop' = [loop EXCEPT ![c] =
            [Idle EXCEPT !.policy = policy, !.available = Extra(policy),
                         !.remaining = FirstThree(failing),
                         !.pc = IF failing = <<>> THEN "report" ELSE "repair"]]
    BY <2>1
  <2>3. FirstThree(failing) \in Seq(Failures)
    BY TripletsType, FirstThreeType
  <2>4. loop'[c] \in LoopTypes
    BY ZenonT(40), <1>1, <2>2, <2>3, IdleType, ExtraType DEF LoopTypes, TypeOK
  <2>5. loop' \in [Cyclers -> LoopTypes]
    BY <2>2, <2>4 DEF TypeOK
  <2>6. cycles' \in Nat
    BY <1>2 DEF Begin, TypeOK
  <2>7. QED BY <1>2, <2>5, <2>6, Zenon DEF Begin, TypeOK
<1>3. CASE Repair(c)
  <2>1. PICK e \in Execute(host, Route(host, WorkerSelfHeal), WorkerSelfHeal) :
          loop' = [loop EXCEPT ![c].repair = e.status, ![c].pc = "retry", ![c].next = <<>>]
    BY <1>3 DEF Repair
  <2>2. e.status \in {"completed", "failed"}
    BY RepairStatus
  <2>3. [loop[c] EXCEPT !.repair = e.status, !.pc = "retry", !.next = <<>>] \in LoopTypes
    BY ZenonT(40), <1>1, <2>2, RoundType
  <2>4. loop' \in [Cyclers -> LoopTypes]
    BY <2>1, <2>3 DEF TypeOK
  <2>5. spent' \in Nat
    BY SMTT(30), <1>3 DEF Repair, TypeOK
  <2>6. QED BY <1>3, <2>4, <2>5, Zenon DEF Repair, TypeOK
<1>4. CASE Retry(c)
  <2> DEFINE f == Head(loop[c].remaining)
             worker == Route(host, RetryTask(f, loop[c].round))
  <2>1. PICK e : loop' = [loop EXCEPT ![c].remaining = Tail(loop[c].remaining),
                      ![c].clean = loop[c].clean /\ e.status = "completed",
                      ![c].next = IF e.status = "completed" THEN loop[c].next
                                  ELSE Append(loop[c].next, Retried(f, loop[c].round, worker))]
    BY <1>4 DEF Retry
  <2>2. f \in Failures /\ Tail(loop[c].remaining) \in Seq(Failures)
    <3>1. loop[c].remaining \in Seq(Failures) /\ loop[c].remaining # <<>>
      BY <1>1, <1>4 DEF LoopTypes, Retry
    <3>2. QED BY <3>1
  <2>3. Retried(f, loop[c].round, worker) \in Failures
    BY <1>1, <2>2, RetriedType DEF LoopTypes
  <2> HIDE DEF f, worker
  <2>4. Append(loop[c].next, Retried(f, loop[c].round, worker)) \in Seq(Failures)
    BY <1>1, <2>3 DEF LoopTypes
  <2>5. loop' \in [Cyclers -> LoopTypes]
    BY <1>1, <2>1, <2>2, <2>4 DEF LoopTypes, TypeOK
  <2>6. QED BY ZenonT(40), <1>4, <2>5 DEF Retry, TypeOK
<1>5. CASE EndRound(c)
  <2> DEFINE more == loop[c].next # <<>> /\ loop[c].round + 1 < Allowed(loop[c].available)
             l == [loop[c] EXCEPT !.remaining = loop[c].next, !.next = <<>>,
                                  !.round = IF more THEN @ + 1 ELSE @,
                                  !.pc = IF more THEN "repair" ELSE "account"]
  <2>1. loop' = [loop EXCEPT ![c] = l]
    BY <1>5 DEF EndRound
  <2>2. l \in LoopTypes
    <3>1. more \in BOOLEAN
      OBVIOUS
    <3> HIDE DEF more
    <3>2. QED BY ZenonT(40), <1>1, <3>1, RoundType
  <2> HIDE DEF l
  <2>3. loop' \in [Cyclers -> LoopTypes]
    BY <2>1, <2>2 DEF TypeOK
  <2>4. QED BY <1>5, <2>3, Zenon DEF EndRound, TypeOK
<1>6. CASE Account(c)
  <2>1. loop' \in [Cyclers -> LoopTypes]
    BY <1>1, <1>6, LoopStatusType DEF Account, LoopTypes, TypeOK
  <2>2. policy' \in Policies
    BY SMTT(30), <1>1, <1>6 DEF Account, LoopTypes, Policies
  <2>3. QED BY <1>6, <2>1, <2>2 DEF Account, TypeOK
<1>7. CASE Report(c)
  BY <1>1, <1>7, IdleType DEF Report, LoopTypes, TypeOK
<1>8. QED BY <1>2, <1>3, <1>4, <1>5, <1>6, <1>7

\* So do the operator and the environment.
LEMMA OperatorType ==
  ASSUME TypeOK, Lightweight \/ Refresh \/ Approve \/ WriteGrant \/ Crash
  PROVE  TypeOK'
<1>1. CASE Lightweight
  BY <1>1 DEF Lightweight, TypeOK, Statuses
<1>2. CASE Refresh
  BY <1>2 DEF Refresh, TypeOK
<1>3. CASE Approve
  BY <1>3 DEF Approve, TypeOK
<1>4. CASE WriteGrant
  <2>1. policy' \in Policies
    BY <1>4 DEF WriteGrant, TypeOK, Policies, EXTRA_SELF_HEAL_ROUND_BATCH
  <2>2. QED BY <1>4, <2>1, IdleType DEF WriteGrant, TypeOK
<1>5. CASE Crash
  <2>1. loop' \in [Cyclers -> LoopTypes] /\ crashes' \in Nat
    BY <1>5, IdleType DEF Crash, TypeOK
  <2>2. QED BY <1>5, <2>1, IdleType, Zenon DEF Crash, TypeOK
<1>6. QED BY <1>1, <1>2, <1>3, <1>4, <1>5

\* Files, the loops' locals and the operator's click keep their types, for any
\* number of threads and rounds (orchestrator.py, control_app.py).
THEOREM TypeCorrect == Spec => []TypeOK
<1>1. TypeOK /\ [Next]_vars => TypeOK'
  <2> SUFFICES ASSUME TypeOK, [Next]_vars PROVE TypeOK'
    OBVIOUS
  <2>1. CASE UNCHANGED vars
    BY <2>1 DEF vars, TypeOK
  <2>2. CASE Next
    BY <2>2, CycleType, OperatorType DEF Next
  <2>3. QED BY <2>1, <2>2
<1>2. QED BY <1>1, InitType, PTL DEF Spec

-----------------------------------------------------------------------------
(* The policy file and the rounds.  A copy of the policy is honest when it *)
(* was read and stays so, because grants and rounds are never taken back;  *)
(* a loop has paid for all rounds it has begun but the one it is to begin. *)

\* A copy of the policy against g grants and s rounds.
Honest(p, g, s) == p.granted <= EXTRA_SELF_HEAL_ROUND_BATCH * g /\ p.consumed <= s

\* The locals of a loop against g grants and s rounds.
Covered(l, g, s) ==
  /\ l.policy.granted <= EXTRA_SELF_HEAL_ROUND_BATCH * g
  /\ l.policy.consumed + l.round <= (IF l.pc = "repair" /\ l.round > 0 THEN s + 1 ELSE s)
  /\ l.available <= EXTRA_SELF_HEAL_ROUND_BATCH * g
  /\ l.round < DEFAULT_SELF_HEAL_ROUNDS + l.available

CountInv == /\ Honest(policy, clicks, spent)
            /\ Honest(click.policy, clicks, spent)
            /\ \A c \in Cyclers : Covered(loop[c], clicks, spent)

\* More grants and more rounds leave honest copies honest.
LEMMA HonestGrows ==
  ASSUME NEW p \in Policies, NEW g \in Nat, NEW s \in Nat, NEW h \in Nat, NEW t \in Nat,
         g <= h, s <= t, Honest(p, g, s)
  PROVE  Honest(p, h, t)
BY DEF Honest, Policies, EXTRA_SELF_HEAL_ROUND_BATCH

\* And loops covered.
LEMMA CoveredGrows ==
  ASSUME NEW l \in LoopTypes, NEW g \in Nat, NEW s \in Nat, NEW h \in Nat, NEW t \in Nat,
         g <= h, s <= t, Covered(l, g, s)
  PROVE  Covered(l, h, t)
<1>1. l.policy.granted \in Nat /\ l.policy.consumed \in Nat /\ l.round \in Nat /\ l.available \in Nat
  BY DEF LoopTypes, Policies
<1>2. QED BY <1>1 DEF Covered, EXTRA_SELF_HEAL_ROUND_BATCH, DEFAULT_SELF_HEAL_ROUNDS

\* A thread without a cycle is covered.
LEMMA IdleCovered ==
  ASSUME NEW g \in Nat, NEW s \in Nat
  PROVE  Covered(Idle, g, s) /\ Honest(NoPolicy, g, s)
BY DEF Covered, Honest, Idle, NoPolicy, EXTRA_SELF_HEAL_ROUND_BATCH, DEFAULT_SELF_HEAL_ROUNDS

\* A step of one thread that is covered afterwards, with as many rounds paid
\* for as before or more, and an honest policy, preserves the invariant.
LEMMA CycleStep ==
  ASSUME TypeOK, CountInv, NEW c \in Cyclers, NEW l,
         loop' = [loop EXCEPT ![c] = l], Covered(l, clicks, spent'),
         spent' \in Nat, spent <= spent', clicks' = clicks, click' = click,
         Honest(policy', clicks, spent')
  PROVE  CountInv'
<1>1. \A d \in Cyclers : loop'[d] = IF d = c THEN l ELSE loop[d]
  BY DEF TypeOK
<1>2. \A d \in Cyclers : Covered(loop[d], clicks, spent')
  BY CoveredGrows DEF TypeOK, CountInv
<1>3. \A d \in Cyclers : Covered(loop'[d], clicks, spent')
  BY <1>1, <1>2
<1>4. Honest(click.policy, clicks, spent')
  BY HonestGrows DEF TypeOK, CountInv
<1>5. QED BY <1>3, <1>4 DEF CountInv

\* In particular one that begins no round.
LEMMA QuietStep ==
  ASSUME TypeOK, CountInv, NEW c \in Cyclers, NEW l,
         loop' = [loop EXCEPT ![c] = l], Covered(l, clicks, spent),
         spent' = spent, clicks' = clicks, click' = click,
         Honest(policy', clicks, spent)
  PROVE  CountInv'
<1>1. spent' \in Nat /\ spent <= spent'
  BY DEF TypeOK
<1>2. Covered(l, clicks, spent') /\ Honest(policy', clicks, spent')
  OBVIOUS
<1>3. QED BY <1>1, <1>2, CycleStep

\* The steps of a cycle preserve the invariant.
LEMMA CycleCounts ==
  ASSUME TypeOK, CountInv, NEW c \in Cyclers
  PROVE  Begin(c) \/ Repair(c) \/ Retry(c) \/ EndRound(c) \/ Account(c) \/ Report(c) => CountInv'
<1>1. /\ loop[c] \in LoopTypes /\ Covered(loop[c], clicks, spent)
      /\ policy \in Policies /\ Honest(policy, clicks, spent)
      /\ clicks \in Nat /\ spent \in Nat
  BY DEF TypeOK, CountInv
<1>2. /\ loop[c].policy.granted \in Nat /\ loop[c].policy.consumed \in Nat
      /\ loop[c].round \in Nat /\ loop[c].available \in Nat
  BY <1>1 DEF LoopTypes, Policies
<1>3. CASE Begin(c)
  <2>1. PICK d \in Dispatches : \E failing \in FailingTriplets(host, d) :
          loop' = [loop EXCEPT ![c] =
            [Idle EXCEPT !.policy = policy, !.available = Extra(policy),
                         !.remaining = FirstThree(failing),
                         !.pc = IF failing = <<>> THEN "report" ELSE "repair"]]
    BY <1>3 DEF Begin
  <2>2. PICK failing \in FailingTriplets(host, d) :
          loop' = [loop EXCEPT ![c] =
            [Idle EXCEPT !.policy = policy, !.available = Extra(policy),
                         !.remaining = FirstThree(failing),
                         !.pc = IF failing = <<>> THEN "report" ELSE "repair"]]
    BY <2>1
  <2> DEFINE l == [Idle EXCEPT !.policy = policy, !.available = Extra(policy),
                               !.remaining = FirstThree(failing),
                               !.pc = IF failing = <<>> THEN "report" ELSE "repair"]
  <2>3. l.policy = policy /\ l.round = 0 /\ l.available = Extra(policy)
    BY DEF Idle
  <2>4. loop' = [loop EXCEPT ![c] = l]
    BY <2>2
  <2> HIDE DEF l
  <2>5. Extra(policy) \in Nat /\ Extra(policy) <= policy.granted
    BY <1>1, ExtraType
  <2>6. Covered(l, clicks, spent)
    BY <1>1, <2>3, <2>5 DEF Covered, Honest, Policies, EXTRA_SELF_HEAL_ROUND_BATCH, DEFAULT_SELF_HEAL_ROUNDS
  <2>7. spent' = spent /\ clicks' = clicks /\ click' = click /\ policy' = policy
    BY <1>3 DEF Begin
  <2>8. QED BY <1>1, <2>4, <2>6, <2>7, QuietStep
<1>4. CASE Repair(c)
  <2>1. PICK e : loop' = [loop EXCEPT ![c].repair = e.status, ![c].pc = "retry", ![c].next = <<>>]
    BY <1>4 DEF Repair
  <2> DEFINE l == [loop[c] EXCEPT !.repair = e.status, !.pc = "retry", !.next = <<>>]
  <2>2. loop' = [loop EXCEPT ![c] = l]
    BY <2>1
  <2>3. /\ l.policy = loop[c].policy /\ l.round = loop[c].round
        /\ l.available = loop[c].available /\ l.pc = "retry"
    BY <1>1 DEF LoopTypes
  <2> HIDE DEF l
  <2>4. /\ loop[c].pc = "repair" /\ spent' = (IF loop[c].round > 0 THEN spent + 1 ELSE spent)
        /\ clicks' = clicks /\ click' = click /\ policy' = policy
    BY <1>4 DEF Repair
  <2>5. Covered(l, clicks, spent')
    BY <1>1, <1>2, <2>3, <2>4 DEF Covered
  <2>6. spent' \in Nat /\ spent <= spent'
    BY <1>1, <2>4
  <2>7. Honest(policy', clicks, spent')
    BY <1>1, <2>4, <2>6, HonestGrows
  <2>8. QED BY <2>2, <2>4, <2>5, <2>6, <2>7, CycleStep
<1>5. CASE Retry(c)
  <2> DEFINE f == Head(loop[c].remaining)
             worker == Route(host, RetryTask(f, loop[c].round))
  <2>1. PICK e : loop' = [loop EXCEPT ![c].remaining = Tail(loop[c].remaining),
                      ![c].clean = loop[c].clean /\ e.status = "completed",
                      ![c].next = IF e.status = "completed" THEN loop[c].next
                                  ELSE Append(loop[c].next, Retried(f, loop[c].round, worker))]
    BY <1>5 DEF Retry
  <2> DEFINE l == [loop[c] EXCEPT !.remaining = Tail(loop[c].remaining),
                      !.clean = loop[c].clean /\ e.status = "completed",
                      !.next = IF e.status = "completed" THEN loop[c].next
                               ELSE Append(loop[c].next, Retried(f, loop[c].round, worker))]
  <2> HIDE DEF f, worker
  <2>2. loop' = [loop EXCEPT ![c] = l]
    BY <2>1
  <2>3. /\ l.policy = loop[c].policy /\ l.round = loop[c].round
        /\ l.available = loop[c].available /\ l.pc = loop[c].pc
    BY <1>1 DEF LoopTypes
  <2> HIDE DEF l
  <2>4. Covered(l, clicks, spent)
    BY <1>1, <2>3 DEF Covered
  <2>5. spent' = spent /\ clicks' = clicks /\ click' = click /\ policy' = policy
    BY <1>5 DEF Retry
  <2>6. QED BY <1>1, <2>2, <2>4, <2>5, QuietStep
<1>6. CASE EndRound(c)
  <2> DEFINE more == loop[c].next # <<>> /\ loop[c].round + 1 < Allowed(loop[c].available)
             l == [loop[c] EXCEPT !.remaining = loop[c].next, !.next = <<>>,
                                  !.round = IF more THEN @ + 1 ELSE @,
                                  !.pc = IF more THEN "repair" ELSE "account"]
  <2>1. loop' = [loop EXCEPT ![c] = l] /\ loop[c].pc = "retry"
    BY <1>6 DEF EndRound
  <2>2. /\ l.policy = loop[c].policy /\ l.available = loop[c].available
        /\ l.round = IF more THEN loop[c].round + 1 ELSE loop[c].round
        /\ l.pc = IF more THEN "repair" ELSE "account"
    BY <1>1 DEF LoopTypes
  <2>3. more => loop[c].round + 1 < DEFAULT_SELF_HEAL_ROUNDS + loop[c].available
    BY DEF Allowed
  <2> HIDE DEF l, more
  <2>4. Covered(l, clicks, spent)
    BY <1>1, <1>2, <2>1, <2>2, <2>3 DEF Covered
  <2>5. spent' = spent /\ clicks' = clicks /\ click' = click /\ policy' = policy
    BY <1>6 DEF EndRound
  <2>6. QED BY <1>1, <2>1, <2>4, <2>5, QuietStep
<1>7. CASE Account(c)
  <2> DEFINE l == [loop[c] EXCEPT !.pc = "report", !.status = LoopStatus(loop[c])]
  <2>1. loop' = [loop EXCEPT ![c] = l] /\ loop[c].pc = "account"
    BY <1>7 DEF Account
  <2>2. /\ l.policy = loop[c].policy /\ l.available = loop[c].available
        /\ l.round = loop[c].round /\ l.pc = "report"
    BY <1>1 DEF LoopTypes
  <2> HIDE DEF l
  <2>3. Covered(l, clicks, spent)
    BY <1>1, <2>1, <2>2 DEF Covered
  <2>4. spent' = spent /\ clicks' = clicks /\ click' = click
    BY <1>7 DEF Account
  <2>5. loop[c].policy.granted <= EXTRA_SELF_HEAL_ROUND_BATCH * clicks
        /\ loop[c].policy.consumed + loop[c].round <= spent
    BY <1>1, <2>1 DEF Covered
  <2>6. Honest(policy', clicks, spent)
    <3>1. CASE loop[c].round > 0
      <4>1. policy' = [loop[c].policy EXCEPT !.consumed = @ + loop[c].round]
        BY <1>7, <3>1 DEF Account
      <4>2. policy'.granted = loop[c].policy.granted
            /\ policy'.consumed = loop[c].policy.consumed + loop[c].round
        BY <1>1, <4>1 DEF LoopTypes, Policies
      <4>3. QED BY <2>5, <4>2 DEF Honest
    <3>2. CASE ~(loop[c].round > 0)
      BY <1>1, <1>7, <3>2 DEF Account
    <3>3. QED BY <3>1, <3>2
  <2>7. QED BY <1>1, <2>1, <2>3, <2>4, <2>6, QuietStep
<1>8. CASE Report(c)
  <2>1. /\ loop' = [loop EXCEPT ![c] = Idle]
        /\ spent' = spent /\ clicks' = clicks /\ click' = click /\ policy' = policy
    BY <1>8 DEF Report
  <2>2. QED BY <1>1, <2>1, IdleCovered, QuietStep
<1>9. QED BY <1>3, <1>4, <1>5, <1>6, <1>7, <1>8

\* The operator's steps, a lightweight refresh and a crash preserve it.
LEMMA OperatorCounts ==
  ASSUME TypeOK, CountInv
  PROVE  Lightweight \/ Refresh \/ Approve \/ WriteGrant \/ Crash => CountInv'
<1>1. CASE Lightweight
  BY <1>1 DEF Lightweight, CountInv
<1>2. CASE Refresh
  BY <1>2 DEF Refresh, CountInv
<1>3. CASE Approve
  BY <1>3 DEF Approve, CountInv
<1>4. CASE WriteGrant
  <2>1. /\ policy' = [click.policy EXCEPT !.granted = @ + EXTRA_SELF_HEAL_ROUND_BATCH]
        /\ click' = NoClick /\ clicks' = clicks + 1 /\ spent' = spent /\ loop' = loop
    BY <1>4 DEF WriteGrant
  <2>2. clicks \in Nat /\ spent \in Nat /\ click.policy \in Policies
    BY DEF TypeOK
  <2>3. Honest(policy', clicks', spent')
    <3>1. policy'.granted = click.policy.granted + EXTRA_SELF_HEAL_ROUND_BATCH
          /\ policy'.consumed = click.policy.consumed
      BY <2>1, <2>2 DEF Policies
    <3>2. Honest(click.policy, clicks, spent)
      BY DEF CountInv
    <3>3. QED BY <2>1, <2>2, <3>1, <3>2 DEF Honest, Policies, EXTRA_SELF_HEAL_ROUND_BATCH
  <2>4. \A d \in Cyclers : Covered(loop'[d], clicks', spent')
    <3> SUFFICES ASSUME NEW d \in Cyclers PROVE Covered(loop[d], clicks + 1, spent)
      BY <2>1
    <3>1. loop[d] \in LoopTypes /\ Covered(loop[d], clicks, spent)
      BY DEF TypeOK, CountInv
    <3>2. QED BY <2>2, <3>1, CoveredGrows
  <2>5. Honest(click'.policy, clicks', spent')
    <3>1. click'.policy = NoPolicy
      BY <2>1 DEF NoClick
    <3>2. clicks' \in Nat /\ spent' \in Nat
      BY <2>1, <2>2
    <3>3. QED BY <3>1, <3>2, IdleCovered
  <2>6. QED BY <2>3, <2>4, <2>5 DEF CountInv
<1>5. CASE Crash
  <2>1. /\ loop' = [c \in Cyclers |-> Idle] /\ click' = NoClick
        /\ policy' = policy /\ clicks' = clicks /\ spent' = spent
    BY <1>5 DEF Crash
  <2>2. clicks \in Nat /\ spent \in Nat
    BY DEF TypeOK
  <2>3. \A d \in Cyclers : Covered(loop'[d], clicks', spent')
    BY <2>1, <2>2, IdleCovered
  <2>4. Honest(click'.policy, clicks', spent')
    BY <2>1, <2>2, IdleCovered DEF NoClick
  <2>5. QED BY <2>1, <2>3, <2>4 DEF CountInv
<1>6. QED BY <1>1, <1>2, <1>3, <1>4, <1>5

\* The invariant holds in every state.
LEMMA CountCorrect == Spec => []CountInv
<1>1. Init => CountInv
  <2> SUFFICES ASSUME Init PROVE CountInv
    OBVIOUS
  <2>1. policy = NoPolicy /\ click.policy = NoPolicy /\ clicks = 0 /\ spent = 0
    BY DEF Init, NoClick
  <2>2. \A c \in Cyclers : loop[c] = Idle
    BY DEF Init
  <2>3. QED BY <2>1, <2>2, IdleCovered DEF CountInv
<1>2. TypeOK /\ CountInv /\ [Next]_vars => CountInv'
  <2> SUFFICES ASSUME TypeOK, CountInv, [Next]_vars PROVE CountInv'
    OBVIOUS
  <2>1. CASE UNCHANGED vars
    BY <2>1 DEF vars, CountInv
  <2>2. CASE Next
    BY <2>2, CycleCounts, OperatorCounts DEF Next
  <2>3. QED BY <2>1, <2>2
<1>3. QED BY <1>1, <1>2, TypeCorrect, PTL DEF Spec

\* self-heal-policy.json never claims more than happened, however many loops and
\* grants write stale copies over each other
\* (orchestrator.py, _run_local_worker_fix_loop; control_app.py, approve_extra_fix_loop).
THEOREM HonestTheorem == Spec => []PolicyIsHonest
<1>1. CountInv => PolicyIsHonest
  BY DEF CountInv, Honest, PolicyIsHonest
<1>2. QED BY <1>1, CountCorrect, PTL

\* No loop runs more rounds than the free ones and all the operator granted
\* (orchestrator.py, _run_local_worker_fix_loop).
THEOREM GrantsTheorem == Spec => []LoopWithinGrants
<1>1. TypeOK /\ CountInv => LoopWithinGrants
  <2> SUFFICES ASSUME TypeOK, CountInv, NEW c \in Cyclers
               PROVE  loop[c].round < DEFAULT_SELF_HEAL_ROUNDS + EXTRA_SELF_HEAL_ROUND_BATCH * clicks
    BY DEF LoopWithinGrants
  <2>1. loop[c].round \in Nat /\ loop[c].available \in Nat /\ clicks \in Nat
    BY DEF TypeOK, LoopTypes
  <2>2. Covered(loop[c], clicks, spent)
    BY DEF CountInv
  <2>3. QED BY <2>1, <2>2 DEF Covered, EXTRA_SELF_HEAL_ROUND_BATCH, DEFAULT_SELF_HEAL_ROUNDS
<1>2. QED BY <1>1, TypeCorrect, CountCorrect, PTL

-----------------------------------------------------------------------------
(* Stuck tasks.  In the first round every remaining task has had one local *)
(* run; from then on none is added, because the count of retries has left  *)
(* the local tier.  A loop that is still clean has nothing to try again.   *)

Told(l) ==
  /\ \A i \in DOMAIN l.remaining :
       l.remaining[i].local <= (IF l.pc \in {"repair", "retry"} /\ l.round = 0 THEN 1 ELSE 2)
  /\ \A i \in DOMAIN l.next : l.next[i].local <= 2
  /\ l.clean => l.next = <<>>
  /\ l.clean /\ l.pc = "account" => l.remaining = <<>>
  /\ l.pc = "report" => /\ l.remaining # <<>> => l.status \in Asking
                        /\ l.status = "recovered" => l.remaining = <<>>

TaskInv == \A c \in Cyclers : Told(loop[c])

\* A thread without a cycle has nothing to tell.
LEMMA IdleTold == Told(Idle)
BY DEF Told, Idle

\* A step that changes one loop preserves the invariant when it keeps that one.
LEMMA ToldStep ==
  ASSUME TypeOK, TaskInv, NEW c \in Cyclers, NEW l, loop' = [loop EXCEPT ![c] = l], Told(l)
  PROVE  TaskInv'
BY DEF TypeOK, TaskInv

\* A retry moves a task from those that remain to those of the next round, or
\* drops it.
LEMMA RetryTold ==
  ASSUME NEW l \in LoopTypes, Told(l), l.pc = "retry", l.remaining # <<>>, NEW done \in BOOLEAN,
         NEW f \in Failures, f.local <= Head(l.remaining).local + 1,
         l.round > 0 => f.local = Head(l.remaining).local
  PROVE  Told([l EXCEPT !.remaining = Tail(l.remaining), !.clean = l.clean /\ done,
                        !.next = IF done THEN l.next ELSE Append(l.next, f)])
<1> DEFINE n == IF done THEN l.next ELSE Append(l.next, f)
           m == [l EXCEPT !.remaining = Tail(l.remaining), !.clean = l.clean /\ done, !.next = n]
<1>1. /\ l.remaining \in Seq(Failures) /\ l.next \in Seq(Failures)
      /\ l.round \in Nat /\ l.clean \in BOOLEAN
  BY DEF LoopTypes
<1>2. /\ m.remaining = Tail(l.remaining) /\ m.next = n /\ m.clean = (l.clean /\ done)
      /\ m.pc = "retry" /\ m.round = l.round
  BY DEF LoopTypes
<1>3. \A i \in DOMAIN l.remaining : l.remaining[i].local <= (IF l.round = 0 THEN 1 ELSE 2)
  BY DEF Told
<1>4. \A i \in DOMAIN Tail(l.remaining) : i + 1 \in DOMAIN l.remaining
                                           /\ Tail(l.remaining)[i] = l.remaining[i + 1]
  BY <1>1
<1>5. Head(l.remaining) \in Failures /\ Head(l.remaining) = l.remaining[1] /\ 1 \in DOMAIN l.remaining
  BY <1>1
<1>6. f.local <= 2
  <2>1. f.local \in Nat /\ Head(l.remaining).local \in Nat
    BY <1>5 DEF Failures
  <2>2. Head(l.remaining).local <= (IF l.round = 0 THEN 1 ELSE 2)
    BY <1>3, <1>5
  <2>3. QED BY <1>1, <2>1, <2>2
<1>7. \A i \in DOMAIN n : n[i].local <= 2
  <2>1. \A i \in DOMAIN l.next : l.next[i].local <= 2
    BY DEF Told
  <2>2. CASE done
    BY <2>1, <2>2
  <2>3. CASE ~done
    <3>1. n = Append(l.next, f)
      BY <2>3
    <3>2. QED BY <1>1, <1>6, <2>1, <3>1
  <2>4. QED BY <2>2, <2>3
<1>8. l.clean /\ done => n = <<>>
  BY DEF Told
<1> HIDE DEF n, m
<1>9. \A i \in DOMAIN Tail(l.remaining) :
        Tail(l.remaining)[i].local <= (IF l.round = 0 THEN 1 ELSE 2)
  BY <1>3, <1>4
<1>10. Told(m)
  BY <1>2, <1>7, <1>8, <1>9 DEF Told
<1>11. QED BY <1>10 DEF n, m

\* The steps of a cycle preserve the invariant.
LEMMA CycleTold ==
  ASSUME TypeOK, TaskInv, NEW c \in Cyclers
  PROVE  Begin(c) \/ Repair(c) \/ Retry(c) \/ EndRound(c) \/ Account(c) \/ Report(c) => TaskInv'
<1>1. loop[c] \in LoopTypes /\ Told(loop[c])
  BY DEF TypeOK, TaskInv
<1>2. CASE Begin(c)
  <2>1. PICK d \in Dispatches : \E failing \in FailingTriplets(host, d) :
          loop' = [loop EXCEPT ![c] =
            [Idle EXCEPT !.policy = policy, !.available = Extra(policy),
                         !.remaining = FirstThree(failing),
                         !.pc = IF failing = <<>> THEN "report" ELSE "repair"]]
    BY <1>2 DEF Begin
  <2>2. PICK failing \in FailingTriplets(host, d) :
          loop' = [loop EXCEPT ![c] =
            [Idle EXCEPT !.policy = policy, !.available = Extra(policy),
                         !.remaining = FirstThree(failing),
                         !.pc = IF failing = <<>> THEN "report" ELSE "repair"]]
    BY <2>1
  <2> DEFINE l == [Idle EXCEPT !.policy = policy, !.available = Extra(policy),
                               !.remaining = FirstThree(failing),
                               !.pc = IF failing = <<>> THEN "report" ELSE "repair"]
  <2>3. /\ l.remaining = FirstThree(failing) /\ l.next = <<>> /\ l.round = 0
        /\ l.pc = (IF failing = <<>> THEN "report" ELSE "repair") /\ l.status = "not_needed"
    BY DEF Idle
  <2>4. loop' = [loop EXCEPT ![c] = l]
    BY <2>2
  <2> HIDE DEF l
  <2>5. /\ failing \in Seq(Failures)
        /\ \A i \in DOMAIN FirstThree(failing) : FirstThree(failing)[i].local = 1
    BY TripletsType, FirstThreeType
  <2>6. failing = <<>> => FirstThree(failing) = <<>>
    BY DEF FirstThree
  <2>7. Told(l)
    BY <2>3, <2>5, <2>6 DEF Told
  <2>8. QED BY <2>4, <2>7, ToldStep
<1>3. CASE Repair(c)
  <2>1. PICK e : loop' = [loop EXCEPT ![c].repair = e.status, ![c].pc = "retry", ![c].next = <<>>]
    BY <1>3 DEF Repair
  <2> DEFINE l == [loop[c] EXCEPT !.repair = e.status, !.pc = "retry", !.next = <<>>]
  <2>2. loop' = [loop EXCEPT ![c] = l]
    BY <2>1
  <2>3. /\ l.remaining = loop[c].remaining /\ l.round = loop[c].round
        /\ l.next = <<>> /\ l.pc = "retry" /\ loop[c].pc = "repair"
    BY <1>1, <1>3 DEF LoopTypes, Repair
  <2> HIDE DEF l
  <2>4. Told(l)
    BY <1>1, <2>3 DEF Told
  <2>5. QED BY <2>2, <2>4, ToldStep
<1>4. CASE Retry(c)
  <2> DEFINE f == Head(loop[c].remaining)
             worker == Route(host, RetryTask(f, loop[c].round))
  <2>1. PICK e : loop' = [loop EXCEPT ![c].remaining = Tail(loop[c].remaining),
                      ![c].clean = loop[c].clean /\ e.status = "completed",
                      ![c].next = IF e.status = "completed" THEN loop[c].next
                                  ELSE Append(loop[c].next, Retried(f, loop[c].round, worker))]
    BY <1>4 DEF Retry
  <2>2. loop[c].pc = "retry" /\ loop[c].remaining # <<>>
        /\ loop[c].remaining \in Seq(Failures) /\ loop[c].round \in Nat
    BY <1>1, <1>4 DEF LoopTypes, Retry
  <2>3. f \in Failures
    BY <2>2
  <2> DEFINE g == Retried(f, loop[c].round, worker)
             done == e.status = "completed"
  <2>4. g \in Failures /\ g.local <= f.local + 1 /\ (loop[c].round > 0 => g.local = f.local)
    BY <2>2, <2>3, RetriedType
  <2>5. loop' = [loop EXCEPT ![c] = [loop[c] EXCEPT !.remaining = Tail(loop[c].remaining),
                      !.clean = loop[c].clean /\ done,
                      !.next = IF done THEN loop[c].next ELSE Append(loop[c].next, g)]]
    BY <2>1
  <2>6. done \in BOOLEAN
    OBVIOUS
  <2> HIDE DEF g, done, worker
  <2>7. Told([loop[c] EXCEPT !.remaining = Tail(loop[c].remaining), !.clean = loop[c].clean /\ done,
                      !.next = IF done THEN loop[c].next ELSE Append(loop[c].next, g)])
    BY <1>1, <2>2, <2>4, <2>6, RetryTold
  <2>8. QED BY <2>5, <2>7, ToldStep
<1>5. CASE EndRound(c)
  <2> DEFINE more == loop[c].next # <<>> /\ loop[c].round + 1 < Allowed(loop[c].available)
             l == [loop[c] EXCEPT !.remaining = loop[c].next, !.next = <<>>,
                                  !.round = IF more THEN @ + 1 ELSE @,
                                  !.pc = IF more THEN "repair" ELSE "account"]
  <2>1. loop' = [loop EXCEPT ![c] = l]
    BY <1>5 DEF EndRound
  <2>2. /\ l.remaining = loop[c].next /\ l.next = <<>> /\ l.clean = loop[c].clean
        /\ l.round = (IF more THEN loop[c].round + 1 ELSE loop[c].round)
        /\ l.pc = (IF more THEN "repair" ELSE "account") /\ loop[c].round \in Nat
    BY <1>1 DEF LoopTypes
  <2> HIDE DEF l, more
  <2>3. Told(l)
    BY <1>1, <2>2 DEF Told
  <2>4. QED BY <2>1, <2>3, ToldStep
<1>6. CASE Account(c)
  <2> DEFINE l == [loop[c] EXCEPT !.pc = "report", !.status = LoopStatus(loop[c])]
  <2>1. loop' = [loop EXCEPT ![c] = l] /\ loop[c].pc = "account"
    BY <1>6 DEF Account
  <2>2. /\ l.remaining = loop[c].remaining /\ l.next = loop[c].next /\ l.clean = loop[c].clean
        /\ l.pc = "report" /\ l.status = LoopStatus(loop[c])
    BY <1>1 DEF LoopTypes
  <2> HIDE DEF l
  <2>3. loop[c].clean => loop[c].remaining = <<>>
    BY <1>1, <2>1 DEF Told
  <2>4. /\ loop[c].remaining # <<>> => LoopStatus(loop[c]) \in Asking
        /\ LoopStatus(loop[c]) = "recovered" => loop[c].remaining = <<>>
    BY <2>3 DEF LoopStatus, Asking
  <2>5. Told(l)
    BY <1>1, <2>1, <2>2, <2>4 DEF Told
  <2>6. QED BY <2>1, <2>5, ToldStep
<1>7. CASE Report(c)
  BY <1>7, IdleTold, ToldStep DEF Report
<1>8. QED BY <1>2, <1>3, <1>4, <1>5, <1>6, <1>7

\* The invariant holds in every state.
LEMMA TaskCorrect == Spec => []TaskInv
<1>1. Init => TaskInv
  BY IdleTold DEF Init, TaskInv
<1>2. TypeOK /\ TaskInv /\ [Next]_vars => TaskInv'
  <2> SUFFICES ASSUME TypeOK, TaskInv, [Next]_vars PROVE TaskInv'
    OBVIOUS
  <2>1. CASE UNCHANGED vars
    BY <2>1 DEF vars, TaskInv
  <2>2. CASE Lightweight \/ Refresh \/ Approve \/ WriteGrant
    BY <2>2 DEF Lightweight, Refresh, Approve, WriteGrant, TaskInv
  <2>3. CASE Crash
    BY <2>3, IdleTold DEF Crash, TaskInv
  <2>4. CASE Next
    BY <2>2, <2>3, <2>4, CycleTold DEF Next
  <2>5. QED BY <2>1, <2>4
<1>3. QED BY <1>1, <1>2, TypeCorrect, PTL DEF Spec

\* However many rounds are granted, a task that keeps failing is run by a local
\* worker at most twice in a cycle
\* (model_router.py and the retry tasks of the fix loop).
THEOREM RetryTheorem == Spec => []OneLocalRetry
<1>1. TypeOK /\ TaskInv => OneLocalRetry
  <2> SUFFICES ASSUME TypeOK, TaskInv, NEW c \in Cyclers
               PROVE  /\ \A i \in DOMAIN loop[c].remaining : loop[c].remaining[i].local <= 2
                      /\ \A i \in DOMAIN loop[c].next : loop[c].next[i].local <= 2
    BY DEF OneLocalRetry
  <2>1. Told(loop[c])
    BY DEF TaskInv
  <2>2. loop[c].remaining \in Seq(Failures)
    BY DEF TypeOK, LoopTypes
  <2>3. \A i \in DOMAIN loop[c].remaining : loop[c].remaining[i] \in Failures
    BY <2>2
  <2>4. \A i \in DOMAIN loop[c].remaining : loop[c].remaining[i].local \in Nat
    BY <2>3 DEF Failures
  <2>5. QED BY <2>1, <2>4 DEF Told
<1>2. QED BY <1>1, TypeCorrect, TaskCorrect, PTL

\* A loop that gives up tells the operator, and one that reports recovery has
\* given up on nothing (retry_planner.py, retry-plan.json).
THEOREM ToldTheorem == Spec => []StuckIsTold
<1>1. TaskInv => StuckIsTold
  BY DEF TaskInv, Told, StuckIsTold
<1>2. QED BY <1>1, TaskCorrect, PTL

-----------------------------------------------------------------------------
(* Ends.  What a cycle has still to do is a number that its own steps make *)
(* smaller, although a round may leave as many failures as it was given.   *)

\* A round has the first three failures to try, and adds none.
Few(l) == Len(l.remaining) + Len(l.next) <= 3

\* The repair, three retries and the end of the round, for each round that may follow.
RoundsLeft(l) == Allowed(l.available) - l.round - 1

CycleLeft(l) ==
  CASE l.pc = "repair"  -> 5 * RoundsLeft(l) + Len(l.remaining) + 4
    [] l.pc = "retry"   -> 5 * RoundsLeft(l) + Len(l.remaining) + 3
    [] l.pc = "account" -> 2
    [] l.pc = "report"  -> 1
    [] l.pc = "idle"    -> 0

FewInv == \A c \in Cyclers : Few(loop[c])

\* The steps of a cycle that has begun.
CycleSteps(c) == Repair(c) \/ Retry(c) \/ EndRound(c) \/ Account(c) \/ Report(c)

\* The numbers of a loop.
LEMMA LoopNumbers ==
  ASSUME TypeOK, CountInv, NEW c \in Cyclers
  PROVE  /\ Len(loop[c].remaining) \in Nat /\ Len(loop[c].next) \in Nat
         /\ RoundsLeft(loop[c]) \in Nat
         /\ RoundsLeft(loop[c]) <= 2 + loop[c].available
         /\ loop[c].available \in Nat /\ loop[c].available <= 3 * clicks /\ clicks \in Nat
         /\ loop[c].round \in Nat
<1>1. loop[c] \in LoopTypes /\ Covered(loop[c], clicks, spent) /\ clicks \in Nat
  BY DEF TypeOK, CountInv
<1>2. loop[c].available \in Nat /\ loop[c].round \in Nat
      /\ loop[c].remaining \in Seq(Failures) /\ loop[c].next \in Seq(Failures)
  BY <1>1 DEF LoopTypes
<1>3. Len(loop[c].remaining) \in Nat /\ Len(loop[c].next) \in Nat
  BY <1>2
<1>4. loop[c].round < 3 + loop[c].available /\ loop[c].available <= 3 * clicks
  BY <1>1 DEF Covered, EXTRA_SELF_HEAL_ROUND_BATCH, DEFAULT_SELF_HEAL_ROUNDS
<1>5. RoundsLeft(loop[c]) = 3 + loop[c].available - loop[c].round - 1
  BY SMTT(30), <1>2 DEF RoundsLeft, Allowed, DEFAULT_SELF_HEAL_ROUNDS
<1>6. RoundsLeft(loop[c]) \in Nat /\ RoundsLeft(loop[c]) <= 2 + loop[c].available
  <2> DEFINE a == loop[c].available
             n == loop[c].round
  <2>1. a \in Nat /\ n \in Nat /\ n < 3 + a
    BY <1>2, <1>4
  <2> HIDE DEF a, n
  <2>2. 3 + a - n - 1 \in Nat /\ 3 + a - n - 1 <= 2 + a
    BY <2>1
  <2>3. QED BY <1>5, <2>2 DEF a, n
<1>7. QED BY <1>1, <1>2, <1>3, <1>4, <1>6

\* A step of a cycle leaves it less to do and no more failures.
LEMMA CycleShrinks ==
  ASSUME TypeOK, CountInv, FewInv, NEW c \in Cyclers, CycleSteps(c)
  PROVE  \E l : loop' = [loop EXCEPT ![c] = l] /\ Few(l) /\ CycleLeft(l) < CycleLeft(loop[c])
<1> DEFINE m == Len(loop[c].remaining)
           n == Len(loop[c].next)
           k == RoundsLeft(loop[c])
<1>1. loop[c] \in LoopTypes /\ Few(loop[c])
  BY DEF TypeOK, FewInv
<1>n. m \in Nat /\ n \in Nat /\ k \in Nat /\ m + n <= 3
  BY <1>1, LoopNumbers DEF Few
<1>k. /\ loop[c].pc = "repair" => CycleLeft(loop[c]) = 5 * k + m + 4
      /\ loop[c].pc = "retry" => CycleLeft(loop[c]) = 5 * k + m + 3
  BY DEF CycleLeft
<1> HIDE DEF m, n, k
<1>2. CASE Repair(c)
  <2>1. PICK e : loop' = [loop EXCEPT ![c].repair = e.status, ![c].pc = "retry", ![c].next = <<>>]
    BY <1>2 DEF Repair
  <2> DEFINE l == [loop[c] EXCEPT !.repair = e.status, !.pc = "retry", !.next = <<>>]
  <2>2. loop' = [loop EXCEPT ![c] = l] /\ loop[c].pc = "repair"
    BY <1>2, <2>1 DEF Repair
  <2>3. /\ l.round = loop[c].round /\ l.available = loop[c].available /\ l.pc = "retry"
        /\ l.remaining = loop[c].remaining /\ l.next = <<>>
    BY <1>1 DEF LoopTypes
  <2> HIDE DEF l
  <2>4. RoundsLeft(l) = k /\ Len(l.remaining) = m /\ Len(l.next) = 0
    BY <2>3 DEF RoundsLeft, k, m
  <2>5. Few(l)
    BY <1>n, <2>4 DEF Few
  <2>6. CycleLeft(l) = 5 * k + m + 3
    BY <2>3, <2>4 DEF CycleLeft
  <2>7. CycleLeft(l) < CycleLeft(loop[c])
    BY <1>n, <1>k, <2>2, <2>6
  <2>8. QED BY <2>2, <2>5, <2>7
<1>3. CASE Retry(c)
  <2> DEFINE f == Head(loop[c].remaining)
             worker == Route(host, RetryTask(f, loop[c].round))
  <2>1. PICK e : loop' = [loop EXCEPT ![c].remaining = Tail(loop[c].remaining),
                      ![c].clean = loop[c].clean /\ e.status = "completed",
                      ![c].next = IF e.status = "completed" THEN loop[c].next
                                  ELSE Append(loop[c].next, Retried(f, loop[c].round, worker))]
    BY <1>3 DEF Retry
  <2> DEFINE g == Retried(f, loop[c].round, worker)
             after == IF e.status = "completed" THEN loop[c].next ELSE Append(loop[c].next, g)
             l == [loop[c] EXCEPT !.remaining = Tail(loop[c].remaining),
                      !.clean = loop[c].clean /\ e.status = "completed",
                      !.next = after]
  <2> HIDE DEF f, worker, g
  <2>2. loop[c].pc = "retry" /\ loop[c].remaining # <<>>
    BY <1>3 DEF Retry
  <2>3. loop' = [loop EXCEPT ![c] = l]
    BY <2>1 DEF g
  <2>4. /\ l.round = loop[c].round /\ l.available = loop[c].available /\ l.pc = loop[c].pc
        /\ l.remaining = Tail(loop[c].remaining) /\ l.next = after
    BY <1>1 DEF LoopTypes
  <2> HIDE DEF l
  <2>5. loop[c].remaining \in Seq(Failures) /\ loop[c].next \in Seq(Failures)
    BY <1>1 DEF LoopTypes
  <2>6. Len(Tail(loop[c].remaining)) = m - 1
    BY <2>2, <2>5 DEF m
  <2>7. Len(after) \in {n, n + 1}
    <3>1. Len(Append(loop[c].next, g)) = n + 1
      BY <2>5 DEF n
    <3>2. QED BY <3>1 DEF n
  <2> HIDE DEF after
  <2>8. RoundsLeft(l) = k /\ Len(l.remaining) = m - 1 /\ Len(l.next) \in {n, n + 1}
    BY <2>4, <2>6, <2>7 DEF RoundsLeft, k
  <2>9. Few(l)
    BY <1>n, <2>8 DEF Few
  <2>10. CycleLeft(l) = 5 * k + (m - 1) + 3
    BY <2>2, <2>4, <2>8 DEF CycleLeft
  <2>11. CycleLeft(l) < CycleLeft(loop[c])
    BY <1>n, <1>k, <2>2, <2>10
  <2>12. QED BY <2>3, <2>9, <2>11
<1>4. CASE EndRound(c)
  <2> DEFINE more == loop[c].next # <<>> /\ loop[c].round + 1 < Allowed(loop[c].available)
             l == [loop[c] EXCEPT !.remaining = loop[c].next, !.next = <<>>,
                                  !.round = IF more THEN @ + 1 ELSE @,
                                  !.pc = IF more THEN "repair" ELSE "account"]
  <2>1. loop' = [loop EXCEPT ![c] = l] /\ loop[c].pc = "retry" /\ m = 0
    BY <1>4 DEF EndRound, m
  <2>2. /\ l.available = loop[c].available
        /\ l.round = (IF more THEN loop[c].round + 1 ELSE loop[c].round)
        /\ l.pc = (IF more THEN "repair" ELSE "account")
        /\ l.remaining = loop[c].next /\ l.next = <<>>
    BY <1>1 DEF LoopTypes
  <2> HIDE DEF l, more
  <2>3. Len(l.remaining) = n /\ Len(l.next) = 0
    BY <2>2 DEF n
  <2>4. Few(l)
    BY <1>n, <2>1, <2>3 DEF Few
  <2>5. CASE more
    <3>1. RoundsLeft(l) = k - 1
      <4> DEFINE a == loop[c].available
                 q == loop[c].round
      <4>1. a \in Nat /\ q \in Nat /\ l.available = a /\ l.round = q + 1
        BY <1>1, <2>2, <2>5 DEF LoopTypes
      <4>2. k = 3 + a - q - 1
        BY <4>1 DEF k, RoundsLeft, Allowed, DEFAULT_SELF_HEAL_ROUNDS
      <4> HIDE DEF a, q
      <4>3. RoundsLeft(l) = 3 + a - (q + 1) - 1
        BY <4>1 DEF RoundsLeft, Allowed, DEFAULT_SELF_HEAL_ROUNDS
      <4>4. QED BY <4>1, <4>2, <4>3
    <3>2. CycleLeft(l) = 5 * (k - 1) + n + 4
      BY <2>2, <2>3, <2>5, <3>1 DEF CycleLeft
    <3>3. CycleLeft(l) < CycleLeft(loop[c])
      BY <1>n, <1>k, <2>1, <3>2
    <3>4. QED BY <2>1, <2>4, <3>3
  <2>6. CASE ~more
    <3>1. CycleLeft(l) = 2
      BY <2>2, <2>6 DEF CycleLeft
    <3>2. CycleLeft(l) < CycleLeft(loop[c])
      BY <1>n, <1>k, <2>1, <3>1
    <3>3. QED BY <2>1, <2>4, <3>2
  <2>7. QED BY <2>5, <2>6
<1>5. CASE Account(c)
  <2> DEFINE l == [loop[c] EXCEPT !.pc = "report", !.status = LoopStatus(loop[c])]
  <2>1. loop' = [loop EXCEPT ![c] = l] /\ loop[c].pc = "account"
    BY <1>5 DEF Account
  <2>2. l.remaining = loop[c].remaining /\ l.next = loop[c].next /\ l.pc = "report"
    BY <1>1 DEF LoopTypes
  <2> HIDE DEF l
  <2>3. Few(l)
    BY <1>1, <2>2 DEF Few
  <2>4. CycleLeft(l) = 1 /\ CycleLeft(loop[c]) = 2
    BY <2>1, <2>2 DEF CycleLeft
  <2>5. CycleLeft(l) < CycleLeft(loop[c])
    BY <2>4
  <2>6. QED BY <2>1, <2>3, <2>5
<1>6. CASE Report(c)
  <2>1. loop' = [loop EXCEPT ![c] = Idle] /\ loop[c].pc = "report"
    BY <1>6 DEF Report
  <2>2. Few(Idle) /\ CycleLeft(Idle) = 0
    BY DEF Few, Idle, CycleLeft
  <2>3. CycleLeft(Idle) < CycleLeft(loop[c])
    <3>1. CycleLeft(loop[c]) = 1
      BY <2>1 DEF CycleLeft
    <3>2. QED BY <2>2, <3>1
  <2>4. QED BY <2>1, <2>2, <2>3
<1>7. QED BY <1>2, <1>3, <1>4, <1>5, <1>6 DEF CycleSteps

\* A cycle begins with at most three failures, on a thread that had none.
LEMMA BeginFew ==
  ASSUME TypeOK, NEW c \in Cyclers, Begin(c)
  PROVE  /\ loop[c].pc = "idle"
         /\ \E l : loop' = [loop EXCEPT ![c] = l] /\ Few(l)
<1>1. PICK d \in Dispatches : \E failing \in FailingTriplets(host, d) :
        loop' = [loop EXCEPT ![c] =
          [Idle EXCEPT !.policy = policy, !.available = Extra(policy),
                       !.remaining = FirstThree(failing),
                       !.pc = IF failing = <<>> THEN "report" ELSE "repair"]]
  BY DEF Begin
<1>2. PICK failing \in FailingTriplets(host, d) :
        loop' = [loop EXCEPT ![c] =
          [Idle EXCEPT !.policy = policy, !.available = Extra(policy),
                       !.remaining = FirstThree(failing),
                       !.pc = IF failing = <<>> THEN "report" ELSE "repair"]]
  BY <1>1
<1> DEFINE l == [Idle EXCEPT !.policy = policy, !.available = Extra(policy),
                             !.remaining = FirstThree(failing),
                             !.pc = IF failing = <<>> THEN "report" ELSE "repair"]
<1>3. l.remaining = FirstThree(failing) /\ Len(l.next) = 0
  BY DEF Idle
<1>4. loop' = [loop EXCEPT ![c] = l] /\ loop[c].pc = "idle"
  BY <1>2 DEF Begin
<1> HIDE DEF l
<1>5. failing \in Seq(Failures)
  BY TripletsType
<1>6. Len(FirstThree(failing)) \in Nat /\ Len(FirstThree(failing)) <= 3
  BY <1>5 DEF FirstThree
<1>7. Few(l)
  BY <1>3, <1>6 DEF Few
<1>8. QED BY <1>4, <1>7

\* No loop ever has more than three failures in hand.
LEMMA FewCorrect == Spec => []FewInv
<1> DEFINE Inv == TypeOK /\ CountInv
<1>1. Init => FewInv
  BY DEF Init, FewInv, Few, Idle
<1>2. Inv /\ FewInv /\ [Next]_vars => FewInv'
  <2> SUFFICES ASSUME TypeOK, CountInv, FewInv, [Next]_vars, NEW c \in Cyclers PROVE Few(loop'[c])
    BY DEF FewInv
  <2>1. loop \in [Cyclers -> LoopTypes] /\ Few(loop[c])
    BY DEF TypeOK, FewInv
  <2>i. Few(Idle)
    BY DEF Few, Idle
  <2>2. CASE loop' = loop \/ loop' = [d \in Cyclers |-> Idle]
    BY <2>1, <2>i, <2>2
  <2>3. ASSUME NEW d \in Cyclers, Begin(d) \/ CycleSteps(d) PROVE Few(loop'[c])
    <3>1. PICK l : loop' = [loop EXCEPT ![d] = l] /\ Few(l)
      BY <2>3, BeginFew, CycleShrinks
    <3>2. QED BY <2>1, <3>1
  <2>4. QED BY <2>2, <2>3 DEF Next, CycleSteps, Lightweight, Refresh, Approve, WriteGrant, Crash, vars
<1>3. QED BY <1>1, <1>2, TypeCorrect, CountCorrect, PTL DEF Spec

\* A cycle in flight changes only by having less to do: by its own step, or by the crash
\* that ends it.
CycleNears(c) ==
  /\ CycleSteps(c) => CycleLeft(loop'[c]) < CycleLeft(loop[c])
  /\ loop[c].pc # "idle" /\ loop'[c] # loop[c] => CycleLeft(loop'[c]) < CycleLeft(loop[c])

\* At most five steps for each of the free and of the granted rounds, and two to report.
CycleIsShort ==
  \A c \in Cyclers : CycleLeft(loop[c]) \in 0 .. 17 + 5 * EXTRA_SELF_HEAL_ROUND_BATCH * clicks

\* However the workers fail and whatever the operator grants meanwhile, every step of a fix
\* loop brings the cycle nearer to its report, and it takes no more steps than the free
\* rounds and the operator's grants pay for
\* (orchestrator.py, _run_local_worker_fix_loop).
THEOREM EndsTheorem == Spec => []CycleIsShort /\ [][\A c \in Cyclers : CycleNears(c)]_vars
<1> DEFINE Inv == TypeOK /\ CountInv /\ FewInv
<1>1. Inv => CycleIsShort
  <2> SUFFICES ASSUME TypeOK, CountInv, FewInv, NEW c \in Cyclers
               PROVE  CycleLeft(loop[c]) \in 0 .. 17 + 15 * clicks
    BY DEF CycleIsShort, EXTRA_SELF_HEAL_ROUND_BATCH
  <2> DEFINE m == Len(loop[c].remaining)
             n == Len(loop[c].next)
             k == RoundsLeft(loop[c])
             a == loop[c].available
  <2>1. /\ m \in Nat /\ n \in Nat /\ m + n <= 3 /\ clicks \in Nat
        /\ k \in Nat /\ a \in Nat /\ k <= 2 + a /\ a <= 3 * clicks
    BY LoopNumbers DEF FewInv, Few
  <2>2. loop[c].pc \in {"idle", "repair", "retry", "account", "report"}
    BY DEF TypeOK, LoopTypes
  <2>3. CASE loop[c].pc \in {"repair", "retry"}
    <3>1. CycleLeft(loop[c]) \in {5 * k + m + 3, 5 * k + m + 4}
      BY <2>3 DEF CycleLeft
    <3> HIDE DEF m, n, k, a
    <3>2. QED BY <2>1, <3>1
  <2>4. CASE loop[c].pc \notin {"repair", "retry"}
    <3>1. CycleLeft(loop[c]) \in 0 .. 2
      BY <2>2, <2>4 DEF CycleLeft
    <3>2. QED BY <3>1, LoopNumbers
  <2>5. QED BY <2>3, <2>4
<1>2. Inv /\ [Next]_vars => [\A c \in Cyclers : CycleNears(c)]_vars
  <2> SUFFICES ASSUME TypeOK, CountInv, FewInv, Next, NEW c \in Cyclers PROVE CycleNears(c)
    OBVIOUS
  <2>1. loop \in [Cyclers -> LoopTypes]
    BY DEF TypeOK
  <2>2. ASSUME CycleSteps(c) PROVE CycleLeft(loop'[c]) < CycleLeft(loop[c])
    <3>1. PICK l : loop' = [loop EXCEPT ![c] = l] /\ CycleLeft(l) < CycleLeft(loop[c])
      BY <2>2, CycleShrinks
    <3>2. QED BY <2>1, <3>1
  <2>3. ASSUME loop[c].pc # "idle", loop'[c] # loop[c]
        PROVE  CycleLeft(loop'[c]) < CycleLeft(loop[c])
    <3>1. CASE Crash
      <4>1. loop'[c] = Idle /\ CycleLeft(Idle) = 0
        BY <3>1 DEF Crash, Idle, CycleLeft
      <4>2. CycleLeft(loop[c]) > 0
        <5>1. loop[c].pc \in {"repair", "retry", "account", "report"}
          BY <2>1, <2>3 DEF LoopTypes
        <5>2. QED BY SMTT(30), <5>1, LoopNumbers DEF CycleLeft
      <4>3. QED BY <4>1, <4>2
    <3>2. CASE Lightweight \/ Refresh \/ Approve \/ WriteGrant
      BY <2>3, <3>2 DEF Lightweight, Refresh, Approve, WriteGrant
    <3>3. ASSUME NEW d \in Cyclers, Begin(d) \/ CycleSteps(d) PROVE CycleSteps(c)
      <4>1. PICK l : loop' = [loop EXCEPT ![d] = l]
        BY <3>3, BeginFew, CycleShrinks
      <4>2. d = c
        BY <2>1, <2>3, <4>1
      <4>3. QED BY <2>3, <3>3, <4>2, BeginFew
    <3>4. QED BY <2>2, <3>1, <3>2, <3>3 DEF Next, CycleSteps
  <2>4. QED BY <2>2, <2>3 DEF CycleNears
<1>3. Spec => []Inv
  BY TypeCorrect, CountCorrect, FewCorrect, PTL
<1> HIDE DEF Inv
<1>4. QED BY <1>1, <1>2, <1>3, PTL DEF Spec

-----------------------------------------------------------------------------
(* Models.                                                                 *)

\* Every non-empty set of natural numbers has a least element.
LEMMA Least ==
  ASSUME NEW S \in SUBSET Nat, S # {}
  PROVE  \E i \in S : \A j \in S : i <= j
<1>1. PICK i \in S : \A j \in S : ~(<<j, i>> \in OpToRel(<, Nat))
  BY NatLessThanWellFounded, WFMin
<1>2. \A j \in S : ~(j < i)
  <2> SUFFICES ASSUME NEW j \in S, j < i PROVE FALSE
    OBVIOUS
  <2>1. <<j, i>> \in {ss \in Nat \X Nat : ss[1] < ss[2]}
    OBVIOUS
  <2>2. OpToRel(<, Nat) = {ss \in Nat \X Nat : ss[1] < ss[2]}
    BY Zenon DEF OpToRel
  <2>3. QED BY <1>1, <2>1, <2>2
<1>3. QED BY <1>2

\* The sequences the candidates are put together from.
LEMMA ShortSeqs ==
  ASSUME NEW S
  PROVE  /\ <<>> \in Seq(S)
         /\ \A x \in S : <<x>> \in Seq(S)
         /\ \A x, y \in S : <<x, y>> \in Seq(S)
OBVIOUS

\* The models a host may be asked for.
Models(h) == {h.base, "qwen3:8b", "deepseek-r1:14b", "gpt-oss:20b", "qwen2.5-coder:14b",
              "qwen3-coder:30b", "qwen3-vl:8b"} \cup {h.env[v] : v \in DOMAIN h.env}

\* The base model is the last of the candidates of a role.
LEMMA BaseIsLast ==
  ASSUME NEW h, NEW role \in Roles
  PROVE  LET c == Candidates(h, role)
         IN  c \in Seq(Models(h)) /\ Len(c) \in Nat \ {0} /\ c[Len(c)] = h.base
<1> DEFINE M == Models(h)
<1>1. /\ h.base \in M /\ \A v \in DOMAIN h.env : h.env[v] \in M
      /\ {"qwen3:8b", "deepseek-r1:14b", "gpt-oss:20b", "qwen2.5-coder:14b",
          "qwen3-coder:30b", "qwen3-vl:8b"} \subseteq M
  BY DEF Models
<1> HIDE DEF M
<1>2. \A v : Configured(h, v) \in Seq(M)
  BY <1>1, ShortSeqs, Zenon DEF Configured
<1>3. Defaults[role] \in Seq(M)
  <2>1. Defaults[role] \in {<<>>, <<"qwen3:8b">>, <<"deepseek-r1:14b", "gpt-oss:20b">>,
                            <<"qwen2.5-coder:14b", "qwen3-coder:30b">>,
                            <<"gpt-oss:20b", "deepseek-r1:14b">>, <<"qwen3-vl:8b">>}
    BY DEF Defaults, Roles
  <2>2. QED BY <1>1, <2>1, ShortSeqs, Zenon
<1> DEFINE a == Configured(h, RoleVariable[role])
           b == IF role = "coding" THEN Configured(h, "FORGEOS_AIDER_MODEL") ELSE <<>>
           d == IF role = "frontier" THEN Configured(h, "FORGEOS_REASONING_MODEL") ELSE <<>>
           e == a \o b \o Defaults[role] \o d
<1>4. a \in Seq(M) /\ b \in Seq(M) /\ d \in Seq(M)
  BY <1>2, ShortSeqs, Zenon
<1>5. e \in Seq(M)
  <2> HIDE DEF a, b, d
  <2>1. QED BY <1>3, <1>4
<1>6. Candidates(h, role) = e \o <<h.base>>
  BY Zenon DEF Candidates
<1> HIDE DEF e
<1>7. Candidates(h, role) \in Seq(M) /\ Len(Candidates(h, role)) \in Nat \ {0}
      /\ Candidates(h, role)[Len(Candidates(h, role))] = h.base
  BY <1>1, <1>5, <1>6
<1>8. QED BY <1>7 DEF M

\* The router finds a usable model whenever there is one among the candidates.
LEMMA SelectIsUsable ==
  ASSUME NEW h, NEW role \in Roles, Usable(h, h.base)
  PROVE  Usable(h, Select(h, role))
<1> DEFINE c      == Candidates(h, role)
           usable == {i \in DOMAIN c : Usable(h, c[i])}
           first  == CHOOSE i \in usable : \A j \in usable : i <= j
<1>1. c \in Seq(Models(h)) /\ Len(c) \in Nat \ {0} /\ c[Len(c)] = h.base
  BY BaseIsLast
<1>2. Select(h, role) = IF usable = {} THEN c[1] ELSE c[first]
  BY Zenon DEF Select
<1> HIDE DEF c
<1>3. usable # {} /\ usable \in SUBSET Nat
  BY <1>1
<1>4. first \in usable
  BY <1>3, Least, Zenon
<1>5. QED BY <1>2, <1>3, <1>4

\* On a host whose general worker is ready every task that reaches it is given
\* a model that can answer (model_router.py, host_capabilities.py).
THEOREM ModelsTheorem == Spec => []ModelsAreUsable
<1>1. ModelsAreUsable
  <2> SUFFICES ASSUME NEW name \in DOMAIN TaskOf, NEW again \in BOOLEAN,
                      NEW t, t = (IF again THEN RetryTask([task |-> name, count |-> 0, local |-> 1], 0)
                                  ELSE TaskOf[name]),
                      Route(host, t) = "LOCAL_GENERAL"
               PROVE  Usable(host, Select(host, RoleForTask(t)))
    BY Zenon DEF ModelsAreUsable
  <2>1. goose_ready(host)
    <3>1. ~Ready(host, "LOCAL_GENERAL") => Decision(host, "LOCAL_GENERAL") = "FRONTIER_ARCHITECT"
      BY DEF Decision, tier
    <3>2. \A w : Decision(host, w) \in {w, "FRONTIER_ARCHITECT"}
      BY DEF Decision
    <3>3. \E w : Route(host, t) = Decision(host, w)
      BY Zenon DEF Route
    <3>4. Ready(host, "LOCAL_GENERAL")
      BY <3>1, <3>2, <3>3
    <3>5. QED BY <3>4 DEF Ready
  <2>2. Usable(host, host.base)
    BY <2>1 DEF goose_ready, ollama_ready, model_available, Usable
  <2>3. RoleForTask(t) \in Roles
    BY DEF RoleForTask, Roles
  <2>4. QED BY <2>2, <2>3, SelectIsUsable
<1>2. QED BY <1>1, PTL
=============================================================================
