----------------------------- MODULE MCSelfHeal -----------------------------
(***************************************************************************)
(* Instances of SelfHeal: hosts with and without the local workers, and    *)
(* what the cycles dispatch on them.                                       *)
(***************************************************************************)
EXTENDS SelfHeal

NoEnv == [v \in {} |-> ""]

Host(bin, keys, installed, env) ==
  [bin |-> bin, keys |-> keys, installed |-> installed, base |-> "gemma4:latest", env |-> env]

All == {"ollama", "goose", "aider", "codex"}

\* Everything installed; only the base model, with a research model set that is
\* not installed, and no aider; aider with a key and nothing else.
MCHosts ==
  {Host(All, FALSE, {"gemma4:latest", "qwen3:8b"}, NoEnv),
   Host(All \ {"aider"}, FALSE, {"gemma4:latest"},
        [v \in {"FORGEOS_RESEARCH_MODEL"} |-> "llama3:70b"]),
   Host({"aider"}, TRUE, {}, NoEnv)}

MCDispatches == {<<>>, <<"device_discovery", "use_case_recommendation", "artifact_research">>}
=============================================================================
