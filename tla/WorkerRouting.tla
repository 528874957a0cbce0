--------------------------- MODULE WorkerRouting ---------------------------
(***************************************************************************)
(* Which worker and which model a task is given, and how the outcome of a  *)
(* worker's process is read: the pure part of core/runtime_workers.py,     *)
(* core/model_router.py, core/gemma_engine.py and                          *)
(* core/host_capabilities.py.                                              *)
(*                                                                         *)
(* A host is a record: bin, the executables found; keys, whether aider has *)
(* a provider of its own (an API key or AIDER_MODEL); installed, the       *)
(* models `ollama list' names; base, FORGEOS_OLLAMA_MODEL or its default;  *)
(* env, the models the role variables set.  Prompts and answers are        *)
(* reduced to what the code tests of them.                                 *)
(***************************************************************************)
EXTENDS Integers, Sequences, FiniteSets

Risks   == {"low", "medium", "high", "critical"}
Workers == {"FRONTIER_ARCHITECT", "LOCAL_GENERAL", "LOCAL_EDITOR", "POLICY_GUARD"}
Roles   == {"fast_triage", "general_reasoning", "research", "coding", "frontier",
            "visual_inspection"}
\* What role_for_task looks for in the name of the task.
Topics  == {"vision", "research", "other"}

WorkerTask == [topic : Topics, risk : Risks, needs_repo_edit : BOOLEAN,
               architecture_level : BOOLEAN, repetitive : BOOLEAN,
               local_retry_count : Nat, retry_budget : Nat]

-----------------------------------------------------------------------------
(* core/host_capabilities.py and WorkerRegistry.discover.                  *)

\* Model names are taken in full, as `ollama list' prints them (the code looks
\* for the base model's name anywhere in the listing).
model_available(h) == h.base \in h.installed
ollama_ready(h)    == "ollama" \in h.bin /\ model_available(h)
goose_ready(h)     == "goose" \in h.bin /\ ollama_ready(h)
aider_ready(h)     == /\ "aider" \in h.bin
                      /\ \/ "FORGEOS_AIDER_MODEL" \in DOMAIN h.env
                         \/ h.keys
                         \/ ollama_ready(h)

\* WorkerRuntime.__init__: the helper only needs some model to be installed.
ollama_helper(h) == "ollama" \in h.bin /\ h.installed # {}

\* WorkerAdapter.available, as set by WorkerRegistry.discover.
Ready(h, worker) == CASE worker = "LOCAL_GENERAL"      -> goose_ready(h)
                      [] worker = "LOCAL_EDITOR"       -> aider_ready(h)
                      [] worker = "FRONTIER_ARCHITECT" -> "codex" \in h.bin
                      [] worker = "POLICY_GUARD"       -> TRUE

tier(worker) == CASE worker = "FRONTIER_ARCHITECT" -> "FRONTIER"
                  [] worker = "POLICY_GUARD"       -> "DETERMINISTIC"
                  [] OTHER                         -> "LOCAL"

\* WorkerRouter._decision: an unavailable local worker falls back to the
\* frontier, which has no fallback and is chosen available or not.
Decision(h, worker) ==
  IF tier(worker) = "LOCAL" /\ ~Ready(h, worker) THEN "FRONTIER_ARCHITECT" ELSE worker

\* WorkerRouter.route: the first rule that applies.
Route(h, t) ==
  Decision(h, CASE t.architecture_level \/ t.risk \in {"high", "critical"} -> "FRONTIER_ARCHITECT"
                [] t.needs_repo_edit        -> "LOCAL_EDITOR"
                [] t.local_retry_count >= 2 -> "FRONTIER_ARCHITECT"
                [] OTHER                    -> "LOCAL_GENERAL")

-----------------------------------------------------------------------------
(* core/model_router.py.                                                   *)

RoleForTask(t) == CASE t.needs_repo_edit   -> "coding"
                    [] t.topic = "vision"  -> "visual_inspection"
                    [] t.architecture_level \/ t.risk \in {"high", "critical"} -> "frontier"
                    [] t.topic = "research" -> "research"
                    [] t.repetitive \/ t.risk = "low" -> "fast_triage"
                    [] OTHER -> "general_reasoning"

RoleVariable == [fast_triage |-> "FORGEOS_FAST_MODEL",
                 general_reasoning |-> "FORGEOS_REASONING_MODEL",
                 research |-> "FORGEOS_RESEARCH_MODEL",
                 coding |-> "FORGEOS_CODING_MODEL",
                 frontier |-> "FORGEOS_FRONTIER_MODEL",
                 visual_inspection |-> "FORGEOS_VISION_MODEL"]

Defaults == [fast_triage |-> <<"qwen3:8b">>,
             general_reasoning |-> <<>>,
             research |-> <<"deepseek-r1:14b", "gpt-oss:20b">>,
             coding |-> <<"qwen2.5-coder:14b", "qwen3-coder:30b">>,
             frontier |-> <<"gpt-oss:20b", "deepseek-r1:14b">>,
             visual_inspection |-> <<"qwen3-vl:8b">>]

Configured(h, variable) == IF variable \in DOMAIN h.env THEN <<h.env[variable]>> ELSE <<>>

\* Mutant of Candidates: a role with defaults of its own does not fall back
\* on the base model.
Candidates_NoBase(h, role) ==
  Configured(h, RoleVariable[role])
    \o (IF Defaults[role] = <<>> THEN <<h.base>> ELSE Defaults[role])

\* ModelRouter._candidates, without the duplicates' removal: only the first
\* usable candidate counts.
Candidates(h, role) ==
  Configured(h, RoleVariable[role])
    \o (IF role = "coding" THEN Configured(h, "FORGEOS_AIDER_MODEL") ELSE <<>>)
    \o Defaults[role]
    \o (IF role = "frontier" THEN Configured(h, "FORGEOS_REASONING_MODEL") ELSE <<>>)
    \o <<h.base>>

\* Models of a provider (openai/, anthropic/) need not be installed.
Hosted == {"openai/gpt", "anthropic/claude"}
Usable(h, model) == model \in h.installed \cup Hosted

\* ModelRouter.select: the first usable candidate, or else the first one.
Select(h, role) ==
  LET c      == Candidates(h, role)
      usable == {i \in DOMAIN c : Usable(h, c[i])}
  IN  IF usable = {} THEN c[1] ELSE c[CHOOSE i \in usable : \A j \in usable : i <= j]

-----------------------------------------------------------------------------
(* WorkerRuntime: what running a task may come to.                         *)

\* One call of the process: exit code zero, whether it printed, and whether
\* what it printed (or its errors, when it printed nothing) parses to
\* something: _parse_output.
Attempts == {a \in [ok : BOOLEAN, stdout : BOOLEAN, stderr : BOOLEAN, structured : BOOLEAN] :
               ~a.stdout => a.structured = a.stderr}

\* The calls _run_adapter makes: until one succeeds with output, or the
\* budget is spent.
Tries(budget) ==
  LET n == IF budget < 1 THEN 1 ELSE budget
  IN  {s \in UNION {[1..k -> Attempts] : k \in 1..n} :
         /\ \A i \in 1..(Len(s) - 1) : ~(s[i].ok /\ s[i].stdout)
         /\ Len(s) = n \/ (s[Len(s)].ok /\ s[Len(s)].stdout)}

\* All outputs equal; outputs that differ in their text are not told apart
\* here, so a repetition is possible whenever none or all of them printed.
MayRepeat(s) == Len(s) > 1 /\ ~s[Len(s)].ok /\ Cardinality({s[i].stdout : i \in DOMAIN s}) = 1

\* _score_confidence in hundredths.
Confidence(s, budget, repeated) ==
  LET last  == s[Len(s)]
      score == 10 + (IF last.ok THEN 45 ELSE 0) + (IF last.stdout THEN 20 ELSE 0)
                  + (IF \E i \in DOMAIN s : s[i].structured THEN 15 ELSE 0)
                  - (IF last.stderr THEN 10 ELSE 0) - (IF repeated THEN 15 ELSE 0)
                  - (IF ~last.ok /\ Len(s) >= budget THEN 25 ELSE 0)
  IN  IF score < 0 THEN 0 ELSE IF score > 99 THEN 99 ELSE score

Completed(s) == s[Len(s)].ok

\* Executions: what the code keeps of a run (WorkerExecution).
Execution(status, confidence, repeated) ==
  [status |-> status, confidence |-> confidence, repeated_failure |-> repeated]

RunAdapter(budget) ==
  UNION {{Execution(IF Completed(s) THEN "completed" ELSE "failed", Confidence(s, budget, r), r) :
            r \in {FALSE, MayRepeat(s)}} : s \in Tries(budget)}

\* _run_gemma_frontier: a generated script is run, or else the model is
\* asked, and any answer that is a non-empty object counts.
RunFrontier(budget) == RunAdapter(budget) \cup {Execution("completed", 65, FALSE),
                                                Execution("failed", 10, FALSE)}

\* _run_local_general: the helper's answer if it is first and good enough,
\* else goose, else the helper, else nothing.
HelperFirst(t) == t.repetitive \/ t.risk = "low"
Accepted(e)    == e.confidence >= 55 /\ e.status = "completed"
RunLocalGeneral(h, t) ==
  LET runs   == RunAdapter(t.retry_budget)
      helper == HelperFirst(t) /\ ollama_helper(h)
      first  == IF helper THEN {e \in runs : Accepted(e)} ELSE {}
      goesOn == helper => \E e \in runs : ~Accepted(e)
  IN  first \cup IF ~goesOn THEN {}
                 ELSE IF goose_ready(h) \/ ollama_helper(h) THEN runs
                 ELSE {Execution("unavailable", 0, FALSE)}

\* WorkerRuntime.execute.
Execute(h, worker, t) == CASE worker = "LOCAL_GENERAL"      -> RunLocalGeneral(h, t)
                           [] worker = "LOCAL_EDITOR"       -> RunAdapter(t.retry_budget)
                           [] worker = "FRONTIER_ARCHITECT" -> RunFrontier(t.retry_budget)
                           [] worker = "POLICY_GUARD" -> {Execution("deterministic", 99, FALSE)}
=============================================================================
