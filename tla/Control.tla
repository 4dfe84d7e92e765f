------------------------------- MODULE Control -------------------------------
(***************************************************************************)
(* The control daemon (effectlatchd.rs, server.rs, api, scheduler, grants):*)
(* start-up, the accept loop and its connection tasks, the handlers behind *)
(* authentication, the lease sweeper beside them, and the shutdown of all  *)
(* of it in order.                                                         *)
(*                                                                         *)
(* A connection carries one request (keep_alive is off) and is one task of *)
(* the JoinSet; Conns are the JoinSet's places (128 in the code).  Its     *)
(* deadline of 15 seconds, a client that goes away, or shutdown may end it *)
(* at any await, before or after its transaction was committed.  What a    *)
(* handler checks before it calls the store depends on the request and the *)
(* principal file alone, so a request is decided in the step in which its  *)
(* transaction commits; until then the task is busy.                       *)
(*                                                                         *)
(* The database is cut down to what tells tenants apart: one run per       *)
(* tenant, under one idempotency key, the grants' tenants and revocations, *)
(* and the stored modules.  Scheduler and Grants model the transactions in *)
(* full; what they refuse is here a call that shows and changes nothing.   *)
(***************************************************************************)
EXTENDS Access, ModuleCheck, Settings

CONSTANTS
    Conns,        \* places for connection tasks
    Tenants,
    Grants,
    WorkerIds,
    Credentials,  \* bearer tokens that clients may present
    Modules,      \* modules that validate is asked about
    Uploads,      \* those of them that clients may upload
    Files,        \* principal files that an operator may have written
    Configs,      \* configurations that Config::validate is asked about
    Config,       \* the daemon's own
    Migrations,   \* the migrations of its directory: a sequence of <<version, checksum>>
    Histories,    \* what _sqlx_migrations may hold, as the migration command left it
    Database      \* the tables at start-up

RunRecords ==
    [state : {"none", "queued", "leased", "running", "done"}, grant : Grants \cup {None},
     owner : WorkerIds \cup {None}]

Tables ==
    [modules : SUBSET (Tenants \X Modules), holder : [Grants -> Tenants \cup {None}],
     ancestry : [Grants -> SUBSET Grants], revoked : SUBSET Grants, run : [Tenants -> RunRecords]]

(***************************************************************************)
(* The tables at start-up are some that the daemon left: only a lease has  *)
(* an owner, a stored module links, and a grant's ancestors are its        *)
(* tenant's.                                                               *)
(***************************************************************************)
ASSUME ControlAssumption ==
    /\ None \notin Tenants /\ None \notin Grants /\ None \notin WorkerIds
    /\ Modules \subseteq ModuleRecords /\ Uploads \subseteq Modules
    /\ Configs \subseteq ConfigRecords /\ Config \in Configs
    /\ \A f \in Files : f \in Seq(PrincipalRecords(Tenants, Grants, WorkerIds))
    /\ Database \in Tables
    /\ \A t \in Tenants :
           Database.run[t].owner # None => Database.run[t].state \in {"leased", "running"}
    /\ \A entry \in Database.modules : Links(entry[2])
    /\ \A g \in Grants : \A a \in Database.ancestry[g] :
           Database.holder[a] = Database.holder[g] /\ Database.holder[g] # None

VARIABLES
    phase,    \* where run (effectlatchd.rs) is
    conn,     \* the connection tasks
    sweeper,  \* the lease sweeper's task
    stop,     \* the watch channel
    file,     \* the principal file
    applied,  \* _sqlx_migrations
    db        \* the other tables

given == <<file, applied>>
daemon == <<phase, sweeper, stop>>
vars == <<daemon, given, conn, db>>

Idle == [at |-> "idle"]
Busy == [at |-> "busy"]
Ended == [at |-> "ended"]

(***************************************************************************)
(* The rows that a request is shown: a run with its grant, or a grant with *)
(* the ids of its ancestors, which GrantView carries.                      *)
(***************************************************************************)
Row(t, g) == <<t, g, {}>>
GrantView(t, g, ancestry) == <<t, g, ancestry>>

Served(credential, shown) == [at |-> "served", by |-> credential, shown |-> shown]

Running == {c \in Conns : conn[c].at \in {"busy", "served"}}
Tasks == {c \in Conns : conn[c] # Idle}
Serving == phase \in {"serving", "draining", "aborting"}

(***************************************************************************)
(* check_schema: the applied migrations are the directory's, all of them   *)
(* successful.                                                             *)
(***************************************************************************)
SchemaOK ==
    /\ Len(applied) = Len(Migrations)
    /\ \A i \in DOMAIN Migrations :
           applied[i].success /\ <<applied[i].version, applied[i].checksum>> = Migrations[i]

Init ==
    /\ phase = "starting"
    /\ conn = [c \in Conns |-> Idle]
    /\ sweeper = "none"
    /\ stop = FALSE
    /\ file \in Files
    /\ applied \in Histories
    /\ db = Database

(***************************************************************************)
(* run, up to serve.  A configuration or principal file that cannot be     *)
(* read or does not parse, or a database that cannot be reached, ends the  *)
(* process before there is a pool; a wrong schema or a port in use ends it *)
(* through store.close.                                                    *)
(***************************************************************************)
StartRefused ==
    /\ phase = "starting"
    /\ phase' = "exited"
    /\ UNCHANGED <<conn, sweeper, stop, given, db>>

StartFails ==
    /\ phase = "starting"
    /\ ConfigValid(Config) /\ Parses(file)
    /\ phase' = "closing"
    /\ UNCHANGED <<conn, sweeper, stop, given, db>>

Start ==
    /\ phase = "starting"
    /\ ConfigValid(Config) /\ Parses(file)
    /\ SchemaOK
    /\ phase' = "serving"
    /\ sweeper' = "waiting"
    /\ UNCHANGED <<conn, stop, given, db>>

(***************************************************************************)
(* serve: the accept loop.  A signal, and an error of accept, end it.      *)
(***************************************************************************)
Accept(c) ==
    /\ phase = "serving"
    /\ conn[c] = Idle
    /\ conn' = [conn EXCEPT ![c] = Busy]
    /\ UNCHANGED <<daemon, given, db>>

EndServing ==
    /\ phase = "serving"
    /\ phase' = "draining"
    /\ UNCHANGED <<conn, sweeper, stop, given, db>>

(***************************************************************************)
(* join_next, in the loop, in the drain and after abort_all.               *)
(***************************************************************************)
Join(c) ==
    /\ Serving
    /\ conn[c] = Ended
    /\ conn' = [conn EXCEPT ![c] = Idle]
    /\ UNCHANGED <<daemon, given, db>>

(***************************************************************************)
(* Requests as the handlers want them: one with a wrong media type, key,   *)
(* size, JSON or base64 is one of those that Refuse stands for.            *)
(***************************************************************************)
Requests ==
    [op : {"upload_module"}, module : Uploads]
    \cup [op : {"create_run", "get_grant", "revoke_grant"}, grant : Grants]
    \cup [op : {"create_grant"}, parent : Grants \cup {None}]
    \cup [op : {"claim"}, worker : WorkerIds]
    \cup [op : {"heartbeat", "started", "finish"}, worker : WorkerIds, tenant : Tenants]

(***************************************************************************)
(* What a handler asks of the principal and the request before it calls    *)
(* the store.                                                              *)
(***************************************************************************)
Passes(p, q) ==
    CASE q.op = "upload_module" -> TenantOf(p) # None /\ Validate(q.module)
      [] q.op \in {"create_run", "get_grant"} ->
             TenantOf(p) # None /\ PermitsGrant(p, TenantOf(p), q.grant)
      [] q.op \in {"create_grant", "revoke_grant"} -> OwnerTenant(p) # None
      [] OTHER -> WorkerTenants(p, q.worker) # {}

Answer(c, credential, shown) == conn' = [conn EXCEPT ![c] = Served(credential, shown)]

(***************************************************************************)
(* 401, 403, 422 and the like; and every call of the store that fails or   *)
(* finds nothing: the client is shown nothing and no row is changed.       *)
(***************************************************************************)
Refuse(c) ==
    /\ conn[c] = Busy
    /\ Answer(c, None, {})
    /\ UNCHANGED <<daemon, given, db>>

(***************************************************************************)
(* The health routes, which need no credential: ready asks check_schema.   *)
(***************************************************************************)
Health(c) ==
    /\ conn[c] = Busy
    /\ SchemaOK
    /\ Answer(c, None, {})
    /\ UNCHANGED <<daemon, given, db>>

(***************************************************************************)
(* upload_module and put_module.                                           *)
(***************************************************************************)
UploadModule(c, credential, p, q) ==
    /\ q.op = "upload_module"
    /\ db' = [db EXCEPT !.modules = @ \cup {<<TenantOf(p), q.module>>}]
    /\ Answer(c, credential, {})

(***************************************************************************)
(* create_run and admit_run: the row of an existing key is shown only if   *)
(* the request hash, and with it the grant, is the same.                   *)
(***************************************************************************)
\* Mutant: a known key is answered without comparing the request's hash.
CreateRunByKey(c, credential, p, q) ==
    LET t == TenantOf(p)
    IN  /\ q.op = "create_run"
        /\ \/ /\ db.run[t].state # "none"
              /\ db' = db
           \/ /\ db.run[t].state = "none"
              /\ \E m \in Uploads : <<t, m>> \in db.modules
              /\ db.holder[q.grant] = t
              /\ q.grant \notin db.revoked
              /\ db' = [db EXCEPT !.run[t] = [state |-> "queued", grant |-> q.grant, owner |-> None]]
        /\ Answer(c, credential, {Row(t, db'.run[t].grant)})

CreateRun(c, credential, p, q) ==
    LET t == TenantOf(p)
    IN  /\ q.op = "create_run"
        /\ \/ /\ db.run[t].state # "none"
              /\ db.run[t].grant = q.grant
              /\ db' = db
           \/ /\ db.run[t].state = "none"
              /\ \E m \in Uploads : <<t, m>> \in db.modules
              /\ db.holder[q.grant] = t
              /\ q.grant \notin db.revoked
              /\ db' = [db EXCEPT !.run[t] = [state |-> "queued", grant |-> q.grant, owner |-> None]]
        /\ Answer(c, credential, {Row(t, db'.run[t].grant)})

(***************************************************************************)
(* create and create_grant, get and get_grant, revoke and revoke_grant:    *)
(* the store looks a grant up by tenant and id.                            *)
(***************************************************************************)
AncestryUnder(parent) == IF parent = None THEN {} ELSE db.ancestry[parent] \cup {parent}

CreateGrant(c, credential, p, q) ==
    LET t == OwnerTenant(p)
    IN  /\ q.op = "create_grant"
        /\ q.parent # None => db.holder[q.parent] = t /\ q.parent \notin db.revoked
        /\ \E g \in Grants :
               /\ db.holder[g] = None
               /\ db' = [db EXCEPT !.holder[g] = t, !.ancestry[g] = AncestryUnder(q.parent)]
               /\ Answer(c, credential, {GrantView(t, g, AncestryUnder(q.parent))})

GetGrant(c, credential, p, q) ==
    /\ q.op = "get_grant"
    /\ db.holder[q.grant] = TenantOf(p)
    /\ db' = db
    /\ Answer(c, credential, {GrantView(db.holder[q.grant], q.grant, db.ancestry[q.grant])})

RevokeGrant(c, credential, p, q) ==
    /\ q.op = "revoke_grant"
    /\ db.holder[q.grant] = OwnerTenant(p)
    /\ db' = [db EXCEPT !.revoked = @ \cup {q.grant}]
    /\ Answer(c, credential, {Row(db.holder[q.grant], q.grant)})

(***************************************************************************)
(* claim and claim_run: any queued run of the allowlist; under a dead      *)
(* grant it is closed instead and nothing is shown.                        *)
(***************************************************************************)
Claim(c, credential, p, q) ==
    /\ q.op = "claim"
    /\ \E t \in WorkerTenants(p, q.worker) :
           /\ db.run[t].state = "queued"
           /\ IF db.run[t].grant \in db.revoked
              THEN /\ db' = [db EXCEPT !.run[t].state = "done"]
                   /\ Answer(c, credential, {})
              ELSE /\ db' = [db EXCEPT !.run[t] = [@ EXCEPT !.state = "leased", !.owner = q.worker]]
                   /\ Answer(c, credential, {Row(t, db.run[t].grant)})

(***************************************************************************)
(* heartbeat, started and finish: the run is found by its id alone, then   *)
(* its tenant must be in the allowlist and its lease the caller's.         *)
(***************************************************************************)
HoldsLease(p, q) ==
    /\ db.run[q.tenant].state # "none"
    /\ q.tenant \in WorkerTenants(p, q.worker)
    /\ db.run[q.tenant].owner = q.worker

Heartbeat(c, credential, p, q) ==
    /\ q.op = "heartbeat"
    /\ HoldsLease(p, q)
    /\ db.run[q.tenant].state \in {"leased", "running"}
    /\ db.run[q.tenant].grant \notin db.revoked
    /\ db' = db
    /\ Answer(c, credential, {Row(q.tenant, db.run[q.tenant].grant)})

Started(c, credential, p, q) ==
    /\ q.op = "started"
    /\ HoldsLease(p, q)
    /\ db.run[q.tenant].state \in {"leased", "running"}
    /\ db' = [db EXCEPT !.run[q.tenant].state = "running"]
    /\ Answer(c, credential, {Row(q.tenant, db.run[q.tenant].grant)})

Finish(c, credential, p, q) ==
    /\ q.op = "finish"
    /\ HoldsLease(p, q)
    /\ db.run[q.tenant].state = "running"
    /\ db' = [db EXCEPT !.run[q.tenant] = [@ EXCEPT !.state = "done", !.owner = None]]
    /\ Answer(c, credential, {Row(q.tenant, db.run[q.tenant].grant)})

(***************************************************************************)
(* A request behind the middleware, whole: credential, checks, commit.     *)
(***************************************************************************)
Handle(c, credentials, q) ==
    /\ conn[c] = Busy
    /\ Authenticated(file, credentials)
    /\ LET p == Authenticate(file, credentials)
           credential == credentials[1]
       IN  /\ Passes(p, q)
           /\ \/ UploadModule(c, credential, p, q) \/ CreateRun(c, credential, p, q)
              \/ CreateGrant(c, credential, p, q) \/ GetGrant(c, credential, p, q)
              \/ RevokeGrant(c, credential, p, q) \/ Claim(c, credential, p, q)
              \/ Heartbeat(c, credential, p, q) \/ Started(c, credential, p, q)
              \/ Finish(c, credential, p, q)
    /\ UNCHANGED <<daemon, given>>

(***************************************************************************)
(* The end of a task: its answer is written; the client, the header        *)
(* timeout or the 15 seconds end it, whatever it was doing.                *)
(***************************************************************************)
TaskEnds(c) ==
    /\ c \in Running
    /\ conn' = [conn EXCEPT ![c] = Ended]
    /\ UNCHANGED <<daemon, given, db>>

(***************************************************************************)
(* After the loop: at most three seconds to drain, then abort_all.         *)
(***************************************************************************)
Drained ==
    /\ phase \in {"draining", "aborting"}
    /\ Tasks = {}
    /\ phase' = "stopping"
    /\ stop' = TRUE
    /\ UNCHANGED <<conn, sweeper, given, db>>

DrainTimeout ==
    /\ phase = "draining"
    /\ Tasks # {}
    /\ phase' = "aborting"
    /\ UNCHANGED <<conn, sweeper, stop, given, db>>

Abort(c) == phase = "aborting" /\ TaskEnds(c)

(***************************************************************************)
(* Back in run: the sweeper has three seconds to see the channel, then it  *)
(* is aborted and waited for; store.close waits until every connection is  *)
(* back in the pool.                                                       *)
(***************************************************************************)
SweeperStopped ==
    /\ phase \in {"stopping", "cancelling"}
    /\ sweeper = "stopped"
    /\ phase' = "closing"
    /\ UNCHANGED <<conn, sweeper, stop, given, db>>

\* Mutant: a stuck sweeper is left behind, neither aborted nor waited for.
SweeperLeft ==
    /\ phase = "stopping"
    /\ sweeper # "stopped"
    /\ phase' = "closing"
    /\ UNCHANGED <<conn, sweeper, stop, given, db>>

SweeperTimeout ==
    /\ phase = "stopping"
    /\ sweeper # "stopped"
    /\ phase' = "cancelling"
    /\ UNCHANGED <<conn, sweeper, stop, given, db>>

SweeperAborted ==
    /\ phase = "cancelling"
    /\ sweeper # "stopped"
    /\ sweeper' = "stopped"
    /\ UNCHANGED <<phase, conn, stop, given, db>>

Close ==
    /\ phase = "closing"
    /\ Running = {} /\ sweeper # "reaping"
    /\ phase' = "exited"
    /\ UNCHANGED <<conn, sweeper, stop, given, db>>

(***************************************************************************)
(* sweep: a tick reaps up to Batch leases and looks at the channel only    *)
(* between ticks; no lease, or an error, ends the batch.                   *)
(***************************************************************************)
SweepTick ==
    /\ sweeper = "waiting"
    /\ sweeper' = "reaping"
    /\ UNCHANGED <<phase, conn, stop, given, db>>

SweepReaps ==
    /\ sweeper = "reaping"
    /\ \E t \in Tenants, state \in {"queued", "done"} :
           /\ db.run[t].state \in {"leased", "running"}
           /\ db' = [db EXCEPT !.run[t] = [@ EXCEPT !.state = state, !.owner = None]]
    /\ UNCHANGED <<daemon, given, conn>>

SweepEnds ==
    /\ sweeper = "reaping"
    /\ sweeper' = "waiting"
    /\ UNCHANGED <<phase, conn, stop, given, db>>

SweepStops ==
    /\ sweeper = "waiting"
    /\ stop
    /\ sweeper' = "stopped"
    /\ UNCHANGED <<phase, conn, stop, given, db>>

(***************************************************************************)
(* The main task, the runtime, the clients and the sweeper.                *)
(***************************************************************************)
Main ==
    \/ StartRefused \/ StartFails \/ Start
    \/ Drained \/ DrainTimeout
    \/ SweeperStopped \/ SweeperTimeout \/ Close

Sweep == SweepTick \/ SweepReaps \/ SweepEnds \/ SweepStops

Exited == phase = "exited" /\ UNCHANGED vars

Next ==
    \/ Main \/ EndServing \/ SweeperAborted \/ Sweep
    \/ \E c \in Conns :
           \/ Accept(c) \/ Join(c) \/ TaskEnds(c) \/ Refuse(c) \/ Health(c)
           \/ \E credentials \in Credentials, q \in Requests : Handle(c, credentials, q)
    \/ Exited

Spec == Init /\ [][Next]_vars

(***************************************************************************)
(* The main task goes on, its timers fire, an aborted task ends at its     *)
(* next await and is joined.  Nothing is asked of clients, handlers, the   *)
(* database or the sweeper.                                                *)
(***************************************************************************)
FairSpec ==
    /\ Spec
    /\ WF_vars(Main)
    /\ WF_vars(SweeperAborted)
    /\ \A c \in Conns : WF_vars(Abort(c)) /\ WF_vars(Join(c))

-----------------------------------------------------------------------------

(***************************************************************************)
(* What the operator's file gives to whoever presents a credential: every  *)
(* record that carries it must name the tenant, and for an invoker the     *)
(* grant.                                                                  *)
(***************************************************************************)
Entitled(credential, t, g) ==
    /\ Matches(file, credential) # {}
    /\ \A i \in Matches(file, credential) :
           LET r == file[i]
           IN  CASE r.role = "owner" -> r.tenant = t
                 [] r.role = "invoker" -> r.tenant = t /\ g \in Range(r.grants)
                 [] r.role = "worker" -> t \in Range(r.tenants)

(***************************************************************************)
(* A row shown to whoever presents a credential.  The ancestors that a     *)
(* GrantView names need only be the tenant's own: get_grant shows an       *)
(* invoker the ids of grants that it may not use.                          *)
(***************************************************************************)
InView(credential, row) ==
    /\ Entitled(credential, row[1], row[2])
    /\ \A a \in row[3] : db.holder[a] = row[1]

(***************************************************************************)
(* Tenants are kept apart although every request goes through one daemon   *)
(* and one set of tables, and heartbeat, started and finish name a run by  *)
(* an id of any tenant: what a request shows, and every row it             *)
(* changes, belongs to a tenant, and for an invoker to a grant, of its     *)
(* credential, and the ancestors it is told of are that tenant's; a lease  *)
(* is changed only under its own worker_id, even if two workers share the  *)
(* tenant or the worker_id.                                                *)
(***************************************************************************)
Isolation ==
    [][\A c \in Conns : conn[c] = Busy /\ conn'[c].at = "served" =>
        LET who == conn'[c].by
        IN  /\ \A row \in conn'[c].shown : InView(who, row)
            /\ \A t \in Tenants : db'.run[t] # db.run[t] =>
                   /\ Entitled(who, t, db'.run[t].grant)
                   /\ db.run[t].owner # None =>
                          \E i \in Matches(file, who) : file[i].worker = db.run[t].owner
            /\ \A m \in db'.modules \ db.modules, i \in Matches(file, who) :
                   file[i].tenant = m[1]
            /\ \A g \in Grants :
                   db'.holder[g] # db.holder[g] \/ g \in db'.revoked \ db.revoked =>
                       Entitled(who, db'.holder[g], g)]_vars

(***************************************************************************)
(* Once the loop has ended, or start-up has failed, the process exits,     *)
(* although handlers may hang in the database, clients may never read and  *)
(* the sweeper may be stuck in a batch: nothing is in the pool when        *)
(* store.close waits for it to be empty.                                   *)
(***************************************************************************)
ShutdownEnds == phase \notin {"starting", "serving"} ~> phase = "exited"

Verdict(m) == Validate(m) <=> Implements(m)

Verdicts == \A m \in Modules : Verdict(m)

(***************************************************************************)
(* validate (validate.rs) accepts exactly the modules that implement the   *)
(* ABI: they link against the host functions of abi.rs and what is called  *)
(* as "run" is a function of their own.  So every module that              *)
(* upload_module stored links in the runner.  (Instantiation also copies   *)
(* the data segments and allocates the memory, which may trap or be        *)
(* refused: neither check looks at that.)                                  *)
(***************************************************************************)
ModuleVerdict == Verdicts /\ \A entry \in db.modules : Links(entry[2])

Suits(cfg) ==
    LET p == Policy(cfg)
    IN  /\ AdmitAccepts(p) /\ ClaimAccepts(p) /\ ReapAccepts(p) /\ PutModuleAccepts(cfg)
        /\ \A field \in DOMAIN p : p[field] = cfg[field]
        /\ cfg.heartbeat_ms < p.lease_ms
        /\ \A a \in Range(cfg.adapters) : a.retry_horizon_seconds <= a.retention_seconds

AcceptedSuit == \A cfg \in Configs : ConfigValid(cfg) => Suits(cfg)

(***************************************************************************)
(* A configuration the daemon starts with never makes the store answer     *)
(* Error::Configuration: the two sets of bounds agree, and no limit is     *)
(* changed by the cast to eight bits.  A worker has time for a heartbeat   *)
(* before its lease ends, and a provider still remembers an idempotency    *)
(* key when the last retry comes.                                          *)
(***************************************************************************)
ConfigSuitsStore == phase = "serving" => AcceptedSuit

=============================================================================
