----------------------------- MODULE LockOrder -----------------------------
(***************************************************************************)
(* Who waits for whom in the database: the locks of every transaction of   *)
(* crates/store/src, in the order in which its statements ask for them.    *)
(* What the transactions do with the rows is in Scheduler and Grants; here *)
(* a transaction is the list of the locks it has still to get.             *)
(*                                                                         *)
(* Besides SELECT ... FOR UPDATE and UPDATE, an INSERT locks the rows its  *)
(* foreign keys name (FOR KEY SHARE): operator_events and grants name the  *)
(* tenant, runs names the tenant, the module and the grant.  A lock on a   *)
(* row that the transaction holds already, or that nobody ever locks       *)
(* exclusively (modules), cannot wait and is left out, as is the lock on a *)
(* row that the transaction inserts itself.                                *)
(***************************************************************************)
EXTENDS Integers, Sequences, FiniteSets

CONSTANTS
  Connections,  \* connections of the pool
  Tenants,      \* rows of tenants
  Grants,       \* rows of grants
  Ancestry,     \* Ancestry[g]: the chain of g, from the root down to g
  GrantTenant,  \* GrantTenant[g]: the tenant of g
  Runs,         \* rows of runs
  RunGrant      \* RunGrant[r]: the grant of r

ASSUME LockAssumption ==
  /\ IsFiniteSet(Connections)
  /\ GrantTenant \in [Grants -> Tenants]
  /\ RunGrant \in [Runs -> Grants]
  /\ Ancestry \in [Grants -> Seq(Grants)]
  /\ \A g \in Grants :
       LET path == Ancestry[g]
       IN /\ path # <<>> /\ path[Len(path)] = g
          /\ \A i \in DOMAIN path :
               /\ Ancestry[path[i]] = SubSeq(path, 1, i)
               /\ GrantTenant[path[i]] = GrantTenant[g]

VARIABLE tx     \* tx[c]: the locks a connection holds and those to come

vars == <<tx>>

-----------------------------------------------------------------------------
(* Locks.                                                                   *)

\* FOR UPDATE, and pg_advisory_xact_lock.
Exclusive(kind, id) == [row |-> <<kind, id>>, mode |-> "exclusive"]

\* UPDATE of columns that are in no key.
Update(kind, id) == [row |-> <<kind, id>>, mode |-> "update"]

\* FOR KEY SHARE.
KeyShare(kind, id) == [row |-> <<kind, id>>, mode |-> "share"]

\* PostgreSQL's table of row locks, for the modes used here.
Conflict(a, b) ==
  /\ a.row = b.row
  /\ \/ "exclusive" \in {a.mode, b.mode}
     \/ a.mode = "update" /\ b.mode = "update"

-----------------------------------------------------------------------------
(* Transactions.                                                            *)

RunTenant(r) == GrantTenant[RunGrant[r]]

\* begin_scheduler.
Scheduler == <<Exclusive("advisory", 0), Exclusive("singleton", 0)>>

\* The scheduler's lock, the tenant, then the run.
TenantThenRun(r) ==
  Scheduler \o <<Exclusive("tenant", RunTenant(r)), Exclusive("run", r)>>

\* load_grant_chain_locked: from the root down.
LoadChain(g) == [i \in DOMAIN Ancestry[g] |-> Exclusive("grant", Ancestry[g][i])]

\* A row that names the tenant is inserted: a new grant, an operator event.
InsertForTenant(g) == <<KeyShare("tenant", GrantTenant[g])>>

Idle == [open |-> FALSE, held |-> {}, todo |-> <<>>]

\* The transaction begins; it has no lock yet.
Begin(c, locks) ==
  /\ ~tx[c].open
  /\ tx' = [tx EXCEPT ![c] = [open |-> TRUE, held |-> {}, todo |-> locks]]

\* admit_run of a key that exists: the run is locked and read.
AdmitExisting(c, r) == Begin(c, TenantThenRun(r))

\* admit_run of a new key: the inserted row names the grant.
AdmitNew(c, g) ==
  Begin(c, Scheduler \o <<Exclusive("tenant", GrantTenant[g]), KeyShare("grant", g)>>)

ClaimRun(c, r) == Begin(c, TenantThenRun(r) \o LoadChain(RunGrant[r]))

\* reap_one, for an expired lease or a deferred run.
ReapOne(c, r) == Begin(c, TenantThenRun(r))

FinishRun(c, r) == Begin(c, TenantThenRun(r))

\* heartbeat_run reads the grant without a lock.
HeartbeatRun(c, r) == Begin(c, <<Update("run", r)>>)

MarkRunStarted(c, r) == Begin(c, <<Exclusive("run", r)>>)

\* Mutant: the run is locked when its grants are known to allow the effect.
ReserveChainFirst(c, r) ==
  Begin(c, LoadChain(RunGrant[r]) \o <<Exclusive("run", r), Exclusive("effect", r)>>)

\* The broker's transaction, from its call of reserve_grant_chain on.
ReserveGrantChain(c, r) ==
  Begin(c, <<Exclusive("run", r)>> \o LoadChain(RunGrant[r])
           \o <<Exclusive("effect", r)>>)

CreateRoot(c, t) == Begin(c, <<Exclusive("tenant", t)>>)

CreateChild(c, g) == Begin(c, LoadChain(g) \o InsertForTenant(g))

GetGrant(c, g) == Begin(c, LoadChain(g))

RevokeGrant(c, g) == Begin(c, LoadChain(g) \o InsertForTenant(g))

PutModule(c, t) == Begin(c, <<KeyShare("tenant", t)>>)

\* c has to wait for d.
Waits(c, d) ==
  /\ d # c /\ tx[c].todo # <<>>
  /\ \E l \in tx[d].held : Conflict(Head(tx[c].todo), l)

Blocked(c) == \E d \in Connections : Waits(c, d)

\* The next statement gets its lock.
Lock(c) ==
  /\ tx[c].todo # <<>> /\ ~Blocked(c)
  /\ tx' = [tx EXCEPT ![c].held = @ \cup {Head(tx[c].todo)},
                      ![c].todo = Tail(@)]

\* Commit, an early return, or the loss of the client: all locks are released.
End(c) ==
  /\ tx[c].open
  /\ tx' = [tx EXCEPT ![c] = Idle]

\* Mutant: sessions are opened without SET lock_timeout.
WaitsForEver(c) == FALSE

\* A statement that has waited for lock_timeout fails, and the handler returns.
LockTimeout(c) == Blocked(c) /\ End(c)

Init == tx = [c \in Connections |-> Idle]

Next ==
  \E c \in Connections :
    \/ \E r \in Runs :
         \/ AdmitExisting(c, r) \/ ClaimRun(c, r) \/ ReapOne(c, r) \/ FinishRun(c, r)
         \/ HeartbeatRun(c, r) \/ MarkRunStarted(c, r) \/ ReserveGrantChain(c, r)
    \/ \E g \in Grants :
         AdmitNew(c, g) \/ CreateChild(c, g) \/ GetGrant(c, g) \/ RevokeGrant(c, g)
    \/ \E t \in Tenants : CreateRoot(c, t) \/ PutModule(c, t)
    \/ Lock(c) \/ End(c) \/ LockTimeout(c)

Spec == Init /\ [][Next]_vars

-----------------------------------------------------------------------------
(* Safety.                                                                  *)

\* Everyone in W waits for someone in W.
Cycle(W) == W # {} /\ \A c \in W : \E d \in W : Waits(c, d)

\* An owner's transaction that has locked grants and now waits to insert a row
\* that names the tenant.
OwnerWaits(c) ==
  /\ tx[c].todo # <<>> /\ Head(tx[c].todo).row[1] = "tenant"
  /\ \E l \in tx[c].held : l.row[1] = "grant"

HasTenant(c) ==
  \E l \in tx[c].held : l.row[1] = "tenant" /\ l.mode = "exclusive"

\* The documented order (scheduler lock, tenant, run, then grants from the root
\* down) leaves exactly one way to deadlock: in every cycle somebody holds a
\* tenant, and an owner's transaction that has locked grants (create_grant under
\* a parent, or revoke_grant) waits to insert a row that names this tenant.
\* Scheduler and dispatch transactions never deadlock among themselves.
OnlyOwnerCycles ==
  \A W \in SUBSET Connections :
    Cycle(W) => (\E c \in W : OwnerWaits(c)) /\ (\E c \in W : HasTenant(c))

-----------------------------------------------------------------------------
(* Liveness.  A transaction that has all its locks ends, a lock that keeps  *)
(* becoming free is granted some time, and a wait without a break is ended  *)
(* by lock_timeout.  PostgreSQL's search for deadlocks is not relied on.    *)

FairSpec ==
  Spec /\ \A c \in Connections :
            /\ SF_vars(Lock(c))
            /\ WF_vars(tx[c].todo = <<>> /\ End(c))
            /\ WF_vars(LockTimeout(c))

\* Every transaction comes to its end, whatever the others ask for: neither a
\* deadlock nor a tenant's row that is always shared by somebody holds one up
\* for ever.
TransactionsEnd == \A c \in Connections : tx[c].open ~> ~tx[c].open
=============================================================================
