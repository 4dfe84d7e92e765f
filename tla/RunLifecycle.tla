---------------------------- MODULE RunLifecycle ----------------------------
(***************************************************************************)
(* What the product promises about one run and its effects: every change   *)
(* of state follows the tables of crates/domain/src/state.rs, and a remote *)
(* effect is put on the wire only while its run is executing.  Module      *)
(* Scheduler implements this specification.                                *)
(***************************************************************************)
EXTENDS Domain

CONSTANTS Runs,      \* identifiers of runs
          Ordinals   \* positions of a run's effects

VARIABLES state,     \* state[r]: a run's state, "absent" before admission
          effects    \* effects[r][o]: an effect's state, "NONE" before its row

lifecycleVars == <<state, effects>>

\* EXISTS(effect of the run in an unresolved state).
HasUnresolved(r) == \E o \in Ordinals : effects[r][o] \in Unresolved

LifecycleTypeOK ==
  /\ state \in [Runs -> RunStates \cup {"absent"}]
  /\ effects \in [Runs -> [Ordinals -> EffectStates \cup {"NONE"}]]

LifecycleInit ==
  /\ state = [r \in Runs |-> "absent"]
  /\ effects = [r \in Runs |-> [o \in Ordinals |-> "NONE"]]

\* A run is born queued.
Appear(r) ==
  /\ state[r] = "absent"
  /\ state' = [state EXCEPT ![r] = "queued"]
  /\ UNCHANGED effects

\* A run changes state as RunState::transition allows; no code of the
\* repository resumes a run explicitly.
Move(r) ==
  /\ \E to \in RunStates :
       /\ RunTransition(state[r], to, HasUnresolved(r), FALSE)
       /\ state' = [state EXCEPT ![r] = to]
  /\ UNCHANGED effects

\* An effect's row appears, or its state changes as EffectState::transition
\* allows; DISPATCHING is entered only while the run is running.
MoveEffect(r, o) ==
  /\ \E to \in EffectStates :
       /\ \/ effects[r][o] = "NONE" /\ to = "PREPARED"
          \/ EffectTransition(effects[r][o], to, TRUE, TRUE)
       /\ to \in {"PREPARED", "DISPATCHING"} => state[r] = "running"
       /\ effects' = [effects EXCEPT ![r][o] = to]
  /\ UNCHANGED state

LifecycleNext ==
  \E r \in Runs : Appear(r) \/ Move(r) \/ \E o \in Ordinals : MoveEffect(r, o)

LifecycleSpec == LifecycleInit /\ [][LifecycleNext]_lifecycleVars
=============================================================================
