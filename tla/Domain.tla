------------------------------- MODULE Domain -------------------------------
(***************************************************************************)
(* The two state machines of crates/domain/src/state.rs, as the tables     *)
(* that every writer of the runs and effects tables is meant to obey.      *)
(* Nothing in the store calls these functions: the SQL handlers repeat     *)
(* their rules, and module RunLifecycle says what it means to follow them. *)
(***************************************************************************)

\* RunState.
RunStates == {"queued", "retry_wait", "leased", "running", "succeeded",
              "failed", "cancelled", "needs_reconciliation"}

\* RunState::terminal.
Terminal == {"succeeded", "failed", "cancelled"}

\* EffectState.
EffectStates == {"PREPARED", "DISPATCHING", "COMMITTED", "DEFINITELY_FAILED",
                 "OUTCOME_UNKNOWN"}

\* EffectState::unresolved: a request may be on the wire, or its fate is
\* unknown.
Unresolved == {"DISPATCHING", "OUTCOME_UNKNOWN"}

\* EffectState::transition.  An unknown outcome moves only on evidence, or
\* back to dispatching when an idempotent retry is eligible.
EffectTransition(from, to, evidencedResolution, eligibleRetry) ==
  \/ from = "PREPARED" /\ to = "DISPATCHING"
  \/ /\ from = "DISPATCHING"
     /\ to \in {"COMMITTED", "DEFINITELY_FAILED", "OUTCOME_UNKNOWN"}
  \/ /\ from = "OUTCOME_UNKNOWN"
     /\ \/ evidencedResolution /\ to \in {"COMMITTED", "DEFINITELY_FAILED"}
        \/ eligibleRetry /\ to = "DISPATCHING"

\* The pairs RunState::transition lists, the explicit resume apart.
Successors(from) ==
  CASE from = "queued" -> {"leased", "cancelled", "failed"}
    [] from = "leased" -> {"running", "queued", "retry_wait", "cancelled",
                           "failed", "needs_reconciliation"}
    [] from = "running" -> {"succeeded", "failed", "cancelled", "queued",
                            "retry_wait", "needs_reconciliation"}
    [] from = "retry_wait" -> {"queued", "cancelled", "failed",
                               "needs_reconciliation"}
    [] from = "needs_reconciliation" -> {"failed"}
    [] OTHER -> {}

\* RunState::transition.  While an effect is unresolved a run may neither end
\* nor go back to a queue.
RunTransition(from, to, unresolved, explicitResume) ==
  /\ unresolved => to \notin Terminal \cup {"queued", "retry_wait"}
  /\ \/ to \in Successors(from)
     \/ explicitResume /\ from = "needs_reconciliation" /\ to = "queued"
=============================================================================
