----------------------------- MODULE MCSettings -----------------------------
(***************************************************************************)
(* Instances of Settings for TLC: the admin page's form with every key, to *)
(* switch to Ollama or back, and requests with some of the keys only.      *)
(***************************************************************************)
EXTENDS Settings, TLC

CONSTANTS haiku, sonnet, local, remote, llama, qwen

MCDefault ==
    [k \in Keys |-> CASE k = "llm_provider" -> "anthropic"
                      [] k = "model_fast" -> haiku
                      [] k = "model_strong" -> sonnet
                      [] k = "ollama_url" -> local
                      [] k = "ollama_model" -> llama]

MCValues == {"anthropic", "ollama", haiku, sonnet, local, remote, llama, qwen}

\* The whole form of the admin page, to move to Ollama.
SwitchToOllama == [MCDefault EXCEPT !["llm_provider"] = "ollama",
                                    !["ollama_model"] = qwen]

\* Requests with some of the keys: another host, and the way back.
OllamaHost == [k \in {"ollama_url"} |-> remote]
Back == [k \in {"llm_provider"} |-> "anthropic"]

MCForms == {SwitchToOllama, OllamaHost, Back}

\* Forms are posted by interchangeable goroutines.
MCSymmetry == Permutations(Posts)
=============================================================================
