------------------------------- MODULE Settings -------------------------------
(***************************************************************************)
(* The daemon's configuration (crates/control/src/config.rs), the policies *)
(* that run (effectlatchd.rs) and ApiState::new make of it, and the checks *)
(* of the same numbers that the store repeats in every call.               *)
(***************************************************************************)
EXTENDS Naturals, Sequences, Functions

AsU8(n) == n % 256

(***************************************************************************)
(* What serde makes of the file: numbers are not negative (u32 and u64).   *)
(***************************************************************************)
Adapters ==
    [idempotency : BOOLEAN, mode : STRING, retry_horizon_seconds : Nat, retention_seconds : Nat]

ConfigRecords ==
    [max_json_bytes : Nat, max_module_bytes : Nat,
     max_pending_global : Nat, max_pending_per_tenant : Nat,
     max_active_global : Nat, max_active_per_tenant : Nat, max_attempts : Nat,
     lease_ms : Nat, heartbeat_ms : Nat, sweep_ms : Nat,
     memory_bytes : Nat, max_effects : Nat, max_host_calls : Nat, max_log_bytes : Nat,
     wall_ms : Nat, fuel : Nat, payload_hours : Nat, metadata_days : Nat,
     adapters : Seq(Adapters), spelt : BOOLEAN]

(***************************************************************************)
(* Config::validate.  Each limit is at least 1 and at most the number      *)
(* written beside it there.  `spelt` stands for what is about spelling:    *)
(* aliases, URLs, project names and namespaces.                            *)
(***************************************************************************)
\* Mutant: operators may allow any number of attempts.
LooseCeiling ==
    [max_json_bytes |-> 131072, max_module_bytes |-> 2097152,
     max_pending_global |-> 1000, max_pending_per_tenant |-> 100,
     max_active_global |-> 4, max_active_per_tenant |-> 1, max_attempts |-> 1000,
     lease_ms |-> 6000, heartbeat_ms |-> 2000, sweep_ms |-> 1000,
     memory_bytes |-> 67108864, max_effects |-> 8, max_host_calls |-> 64,
     max_log_bytes |-> 16384, wall_ms |-> 60000]

Ceiling ==
    [max_json_bytes |-> 131072, max_module_bytes |-> 2097152,
     max_pending_global |-> 1000, max_pending_per_tenant |-> 100,
     max_active_global |-> 4, max_active_per_tenant |-> 1, max_attempts |-> 3,
     lease_ms |-> 6000, heartbeat_ms |-> 2000, sweep_ms |-> 1000,
     memory_bytes |-> 67108864, max_effects |-> 8, max_host_calls |-> 64,
     max_log_bytes |-> 16384, wall_ms |-> 60000]

AdapterOK(a) ==
    IF a.idempotency
    THEN a.mode = "idem" /\ a.retry_horizon_seconds = 82800 /\ a.retention_seconds >= 86400
    ELSE a.mode = "nonidem" /\ a.retry_horizon_seconds = 0 /\ a.retention_seconds = 0

ConfigValid(cfg) ==
    /\ \A field \in DOMAIN Ceiling : cfg[field] \in 1..Ceiling[field]
    /\ cfg.heartbeat_ms < cfg.lease_ms
    /\ cfg.max_pending_per_tenant <= cfg.max_pending_global
    /\ cfg.max_active_per_tenant <= cfg.max_active_global
    /\ cfg.fuel # 0
    /\ cfg.payload_hours = 24 /\ cfg.metadata_days = 30
    /\ Len(cfg.adapters) \in 1..16
    /\ \A a \in Range(cfg.adapters) : AdapterOK(a)
    /\ cfg.spelt

(***************************************************************************)
(* ClaimPolicy, ReapPolicy and the admission limits: three of the          *)
(* configured numbers are cut to eight bits.                               *)
(***************************************************************************)
Policy(cfg) ==
    [max_active_global |-> AsU8(cfg.max_active_global),
     max_active_per_tenant |-> AsU8(cfg.max_active_per_tenant),
     max_attempts |-> AsU8(cfg.max_attempts),
     lease_ms |-> cfg.lease_ms,
     max_pending_global |-> cfg.max_pending_global,
     max_pending_per_tenant |-> cfg.max_pending_per_tenant]

(***************************************************************************)
(* The first lines of admit_run, claim_run, heartbeat_run and reap_one:    *)
(* outside these bounds a call fails with Error::Configuration.            *)
(***************************************************************************)
AdmitAccepts(p) ==
    /\ p.max_pending_global \in 1..1000
    /\ p.max_pending_per_tenant \in 1..100
    /\ p.max_pending_per_tenant <= p.max_pending_global

ClaimAccepts(p) ==
    /\ p.max_active_global \in 1..4
    /\ p.max_active_per_tenant = 1
    /\ p.max_attempts \in 1..3
    /\ p.lease_ms \in 1..6000

ReapAccepts(p) == p.max_attempts \in 1..3 /\ AdmitAccepts(p)

PutModuleAccepts(cfg) == cfg.max_module_bytes <= 2 * 1024 * 1024

=============================================================================
