----------------------------- MODULE AgentLoop -----------------------------
(***************************************************************************)
(* How an agent's tool loop ends when no terminal tool has succeeded, what *)
(* the harness then does in the agent's place, and what a stage makes of a *)
(* loop that failed: run_strands_tool_loop, round_limit, classify_llm_     *)
(* failure.  Messages and transcripts are left out.                        *)
(***************************************************************************)

(* overflow: an error that speaks of the context window; transport: any    *)
(* other exception of the model call.                                      *)
Thrash     == {"no_submit", "max_tool_rounds"}
LoopErrors == Thrash \union {"truncated", "cancelled", "operator_abort", "overflow",
                             "transport"}

(* With continuations on, an overflow or a context under pressure is       *)
(* answered with one; the operator's abort is no exception.                *)
WantsContinue(err, pressure, enabled) == enabled /\ (err = "overflow" \/ pressure)

(* With force_submit_on_round_limit on, thrash is answered with a submit.  *)
WantsSubmit(err, enabled) == enabled /\ err \in Thrash

(* Infra trouble is retried, thrash aborts a hunt, the rest just fails.    *)
Failure(err) == CASE err = "transport" -> "infra"
                  [] err \in Thrash    -> "aborted"
                  [] OTHER             -> "error"
=============================================================================
