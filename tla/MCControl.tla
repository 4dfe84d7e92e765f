----------------------------- MODULE MCControl -----------------------------
(***************************************************************************)
(* Two tenants, a and b.  In a: an owner, an invoker limited to g1, and    *)
(* a worker w2; the worker_id w1 is shared by a worker of b and one of     *)
(* both tenants.  Tenant b has a run, a grant and a module.                *)
(***************************************************************************)
EXTENDS Control

R(id, role, tenant, worker, grants, tenants) ==
    [id |-> id, role |-> role, token |-> id, tenant |-> tenant, worker |-> worker,
     grants |-> grants, tenants |-> tenants, spelt |-> TRUE]

OwnerA == R("oa", "owner", "a", None, << >>, << >>)
InvokerA == R("ia", "invoker", "a", None, <<"g1">>, << >>)
WorkerA == R("wa", "worker", None, "w2", << >>, <<"a">>)
WorkerB == R("wb", "worker", None, "w1", << >>, <<"b">>)
WorkerAB == R("wab", "worker", None, "w1", << >>, <<"b", "a">>)

GoodFile == <<OwnerA, InvokerA, WorkerA, WorkerB, WorkerAB>>

(* One slip each: no record, a repeated id, a shared token, a role that    *)
(* has what it must not have or lacks what it needs, a repeated entry.     *)
MCFiles ==
    {GoodFile, << >>,
     Append(GoodFile, [WorkerB EXCEPT !.token = "new"]),
     <<[WorkerB EXCEPT !.token = "oa"]>> \o GoodFile,
     <<[OwnerA EXCEPT !.grants = <<"g1">>]>>,
     <<[InvokerA EXCEPT !.worker = "w1"]>>,
     <<[InvokerA EXCEPT !.tenant = None]>>,
     <<[InvokerA EXCEPT !.grants = <<"g1", "g1">>]>>,
     <<[WorkerA EXCEPT !.tenants = << >>]>>,
     <<[WorkerA EXCEPT !.tenant = "b"]>>,
     <<[WorkerA EXCEPT !.role = "root"]>>,
     <<[WorkerA EXCEPT !.spelt = FALSE]>>}

MCCredentials == {<< >>, <<"nobody">>, <<"oa", "wb">>} \cup {<<r.token>> : r \in Range(GoodFile)}

(* A view that drops what an answer says and to whom: it is looked at in   *)
(* the step that gives it (Isolation), and no guard reads it afterwards.   *)
UnreadAnswers == <<phase, sweeper, stop, file, applied, db, [c \in Conns |-> conn[c].at]>>

MCMigrations == << <<1, "c1">>, <<2, "c2">> >>
Rows(pairs) == [i \in DOMAIN pairs |-> [version |-> pairs[i][1], checksum |-> pairs[i][2], success |-> TRUE]]
MCHistories ==
    {Rows(MCMigrations), Rows(<<MCMigrations[1]>>), Rows(Append(MCMigrations, <<3, "c3">>)),
     Rows(<<MCMigrations[1], <<2, "other">> >>), [Rows(MCMigrations) EXCEPT ![2].success = FALSE]}

-----------------------------------------------------------------------------
(* Modules: a good one and every combination of slips in five sections.    *)

Types == << <<0, 1>>, <<2, 1>>, <<4, 1>>, <<1, 1>> >>
Import(name, type) == [module |-> Namespace, name |-> name, kind |-> "func", type |-> type]
GoodImports ==
    <<Import("input_len", 0), Import("input_read", 1), Import("effect_call", 2),
      Import("output_write", 1), Import("log", 1)>>

ImportLists ==
    {GoodImports,
     <<GoodImports[5], GoodImports[4], GoodImports[3], GoodImports[2], GoodImports[1]>>,
     SubSeq(GoodImports, 1, 4),
     [GoodImports EXCEPT ![5] = Import("input_len", 0)],
     Append(GoodImports, Import("log", 1)),
     [GoodImports EXCEPT ![1].type = 3],
     [GoodImports EXCEPT ![3].module = "wasi_snapshot_preview1"],
     [GoodImports EXCEPT ![3].name = "fd_write"],
     [GoodImports EXCEPT ![5].kind = "memory"],
     [GoodImports EXCEPT ![5].type = 4]}

FunctionLists == {<<0>>, <<1, 0>>, <<0, 1>>, <<1>>, << >>, <<0, 0, 0>>}

Memory(initial, maximum, plain) == [initial |-> initial, maximum |-> maximum, plain |-> plain]
MemoryLists ==
    {<<Memory(1, 2, TRUE)>>, <<Memory(1, 65536, TRUE)>>, <<Memory(3, 3, TRUE)>>,
     <<Memory(1, 2, FALSE)>>, <<Memory(1, 2, TRUE), Memory(1, 1, TRUE)>>, << >>}

Export(name, kind, index) == [name |-> name, kind |-> kind, index |-> index]
MemoryExport == Export("memory", "memory", 0)
ExportLists ==
    {<<Export("run", "func", i), MemoryExport>> : i \in 0..7}
    \cup {<<MemoryExport>>, <<Export("run", "func", 5)>>, <<Export("run", "memory", 0)>>,
          <<MemoryExport, Export("run", "func", 5), Export("extra", "func", 5)>>,
          <<MemoryExport, Export("run", "func", 5), Export("run", "func", 6)>>}

Plain(imports, functions, memories, exports) ==
    [types |-> Types, imports |-> imports, functions |-> functions, memories |-> memories,
     exports |-> exports, globals |-> <<"i32">>, tables |-> FALSE, elements |-> FALSE,
     start |-> FALSE, segments |-> 1]

Slips(m) ==
    {m, [m EXCEPT !.tables = TRUE], [m EXCEPT !.start = TRUE], [m EXCEPT !.segments = 2],
     [m EXCEPT !.globals = <<"f32">>], [m EXCEPT !.globals = <<"i32", "i64">>],
     [m EXCEPT !.tables = TRUE, !.elements = TRUE], [m EXCEPT !.types = Append(Types, <<0, 1>>)]}

GoodModule == Plain(GoodImports, <<0>>, <<Memory(1, 2, TRUE)>>, <<Export("run", "func", 5), MemoryExport>>)
MCUploads == {GoodModule, [GoodModule EXCEPT !.exports[1].index = 0]}

MCModules ==
    Slips(GoodModule) \cup MCUploads
    \cup {Plain(i, f, y, x) : i \in ImportLists, f \in FunctionLists, y \in MemoryLists,
                              x \in ExportLists}

-----------------------------------------------------------------------------
(* Configurations: each limit below, at and above its ends, and a value    *)
(* that eight bits cut down to 1.                                          *)

Adapter(idempotency, mode, horizon, retention) ==
    [idempotency |-> idempotency, mode |-> mode, retry_horizon_seconds |-> horizon,
     retention_seconds |-> retention]

GoodAdapter == Adapter(TRUE, "idem", 82800, 86400)

MCConfig ==
    [max_json_bytes |-> 131072, max_module_bytes |-> 2097152,
     max_pending_global |-> 1000, max_pending_per_tenant |-> 100,
     max_active_global |-> 4, max_active_per_tenant |-> 1, max_attempts |-> 3,
     lease_ms |-> 6000, heartbeat_ms |-> 2000, sweep_ms |-> 1000,
     memory_bytes |-> 67108864, max_effects |-> 8, max_host_calls |-> 64,
     max_log_bytes |-> 16384, wall_ms |-> 60000, fuel |-> 1,
     payload_hours |-> 24, metadata_days |-> 30, adapters |-> <<GoodAdapter>>, spelt |-> TRUE]

AdapterLists ==
    {<<GoodAdapter>>, <<GoodAdapter, Adapter(FALSE, "nonidem", 0, 0)>>,
     <<GoodAdapter, Adapter(TRUE, "idem", 82800, 3600)>>, << >>}

MCConfigs ==
    {[MCConfig EXCEPT !.max_module_bytes = bytes, !.max_pending_global = pending,
                      !.max_pending_per_tenant = share, !.max_active_global = active,
                      !.max_active_per_tenant = each, !.max_attempts = attempts,
                      !.lease_ms = lease, !.heartbeat_ms = beat, !.adapters = adapters] :
         bytes \in {2097152, 2097153}, pending \in {1, 1000, 1001}, share \in {1, 100, 101},
         active \in {0, 4, 5, 257}, each \in {0, 1, 2, 257}, attempts \in {0, 3, 4, 257},
         lease \in {0, 2, 6000, 6001}, beat \in {1, 2000}, adapters \in AdapterLists}

-----------------------------------------------------------------------------
(* Tenant b's run waits; tenant a starts with one grant and no module.     *)
MCDatabase ==
    [modules |-> {<<"b", GoodModule>>},
     holder |-> [g \in {"g1", "g2", "gb"} |-> CASE g = "g1" -> "a" [] g = "gb" -> "b" [] OTHER -> None],
     ancestry |-> [g \in {"g1", "g2", "gb"} |-> {}],
     revoked |-> {},
     run |-> [t \in {"a", "b"} |->
                  IF t = "b" THEN [state |-> "queued", grant |-> "gb", owner |-> None]
                  ELSE [state |-> "none", grant |-> None, owner |-> None]]]

=============================================================================
