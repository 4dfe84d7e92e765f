------------------------------ MODULE Scheduler ------------------------------
(***************************************************************************)
(* The durable scheduler of EffectLatch: the runs, tenants and             *)
(* scheduler_state tables and the transactions of crates/store/src that    *)
(* change them, driven by API clients, by workers and by the lease sweeper *)
(* of crates/control/src/scheduler/mod.rs.                                 *)
(*                                                                         *)
(* Concurrency.  admit_run, claim_run, reap_one and finish_run hold one    *)
(* advisory lock (begin_scheduler) from start to commit, so they exclude   *)
(* one another; heartbeat_run and mark_run_started take only the run's row *)
(* lock.  A transaction that reads what it decides on under its locks is   *)
(* one action.  Two are not: heartbeat_run evaluates its UPDATE and        *)
(* commits later, and reap_one picks an expired row before it locks it.    *)
(* Each of those is two actions with everything else in between.  Any      *)
(* other call that returns an error or finds nothing rolls back and is a   *)
(* stuttering step.                                                        *)
(*                                                                         *)
(* Time is relative: a lease, a pending renewal and a grant carry the time *)
(* they have left, which Tick reduces.                                     *)
(***************************************************************************)
EXTENDS Integers, Sequences, FiniteSetsExt, Domain

CONSTANTS
  Tenants,           \* tenant ids: naturals, whose order is the order of ids
  Workers,           \* worker identities
  NoWorker,          \* a NULL lease_owner
  Keys,              \* idempotency keys
  Modules,           \* module digests
  Grants,            \* grant ids
  Chain,             \* Chain[g]: g and all its ancestors
  GrantTenant,       \* GrantTenant[g]: the tenant that owns g
  GrantLife,         \* GrantLife[g]: time until g expires
  LongLived,         \* grants that expire only after the modelled period
  Revocable,         \* grants an operator may revoke in the modelled period
  Requests,          \* normalized run requests: a grant and a module
  Allowed,           \* Allowed[w]: tenants of the worker's credential
  QueueLimit,        \* QueueLimit[t]: tenants.queue_limit
  ActiveLimit,       \* ActiveLimit[t]: tenants.active_limit
  MaxPendingGlobal, MaxPendingTenant, MaxActiveGlobal, MaxAttempts,
  LeaseTime,         \* lease_ms
  Ordinals,          \* positions of a run's effects
  MaxRuns            \* bound of the model: runs ever admitted

\* claim_run insists on one active run per tenant, and on at most two slots
\* per worker.
MaxActivePerTenant == 1
WorkerSlots == 2

ASSUME TenantAssumption ==
  /\ Tenants \subseteq Nat /\ IsFiniteSet(Tenants)
  /\ NoWorker \notin Workers
  /\ Allowed \in [Workers -> SUBSET Tenants]
  /\ QueueLimit \in [Tenants -> 1..1000]
  /\ ActiveLimit \in [Tenants -> 1..4]

\* Module Grants establishes what is assumed of Chain and GrantLife: a child
\* never outlives an ancestor.
ASSUME GrantAssumption ==
  /\ Chain \in [Grants -> SUBSET Grants]
  /\ \A g \in Grants : g \in Chain[g]
  /\ GrantTenant \in [Grants -> Tenants]
  /\ GrantLife \in [Grants -> Nat]
  /\ \A g \in Grants : \A a \in Chain[g] :
       /\ GrantLife[g] =< GrantLife[a]
       /\ g \in LongLived => a \in LongLived
  /\ LongLived \subseteq Grants
  /\ Revocable \subseteq Grants
  /\ Requests \subseteq [grant : Grants, module : Modules]

ASSUME LimitAssumption ==
  /\ MaxPendingGlobal \in 1..1000
  /\ MaxPendingTenant \in 1..100
  /\ MaxPendingTenant =< MaxPendingGlobal
  /\ MaxActiveGlobal \in 1..4
  /\ MaxAttempts \in 1..3
  /\ LeaseTime \in Nat \ {0}
  /\ MaxRuns \in Nat

VARIABLES
  runs,          \* the runs table, by creation order, with each run's effects
                 \* and its event log
  activeCount,   \* activeCount[t]: tenants.active_count
  lastServed,    \* lastServed[t]: tenants.last_served_seq
  dispatchSeq,   \* scheduler_state.dispatch_seq
  modules,       \* stored <<tenant, digest>> pairs
  revoked,       \* revoked grants
  life,          \* life[g]: time until g expires
  reaping,       \* the row an open reap_one has picked, 0 when none is open
  reapPending    \* the global_pending that reap_one read

vars == <<runs, activeCount, lastServed, dispatchSeq, modules, revoked, life,
          reaping, reapPending>>

-----------------------------------------------------------------------------
(* Rows.  A lease is named by its epoch and its owner; an output is         *)
(* abstracted to the lease that produced it.                                *)

NoLease == <<0, NoWorker>>
Leases == Nat \X (Workers \cup {NoWorker})

\* No heartbeat_run is between its UPDATE and its commit on the row.
NoRenewal == -1

EventKinds == {"run.admitted", "grant.denied", "lease.claimed",
               "runner.started", "lease.expired", "run.requeued",
               "run.retry_wait", "run.succeeded", "run.failed",
               "run.cancelled", "run.needs_reconciliation"}
Events == [kind : EventKinds, lease : Leases]

Rows == [tenant : Tenants, key : Keys, grant : Grants, module : Modules,
         state : RunStates, epoch : Nat, owner : Workers \cup {NoWorker},
         ttl : Nat, attempt : Nat, held : BOOLEAN, cancel : BOOLEAN,
         output : Leases, error : {"none", "GRANT_DENIED", "reported"},
         renewal : Nat \cup {NoRenewal},
         effects : [Ordinals -> EffectStates \cup {"NONE"}],
         log : Seq(Events)]

Event(kind) == [kind |-> kind, lease |-> NoLease]

\* The event that goes with the state a run ends or waits in.
EventFor(state) ==
  CASE state = "queued" -> "run.requeued"
    [] state = "retry_wait" -> "run.retry_wait"
    [] state = "succeeded" -> "run.succeeded"
    [] state = "failed" -> "run.failed"
    [] state = "cancelled" -> "run.cancelled"
    [] state = "needs_reconciliation" -> "run.needs_reconciliation"

\* append_event: the next sequence number, chained to the last hash.
AppendEvent(log, event) == Append(log, event)

RunIds == DOMAIN runs
InState(S) == {r \in RunIds : runs[r].state \in S}
OfTenant(S, t) == {r \in S : runs[r].tenant = t}
Held == {r \in RunIds : runs[r].held}

\* sum(active_count) over the tenants, counted slot by slot.
ActiveTotal ==
  Cardinality({s \in Tenants \X (1..4) : s[2] =< activeCount[s[1]]})

Least(a, b) == IF a =< b THEN a ELSE b
QueueCap(t) == Least(QueueLimit[t], MaxPendingTenant)

\* Row r is not locked by an open heartbeat.
Unlocked(r) == runs[r].renewal = NoRenewal

\* Mutant: the transactions forget the advisory lock.
AlwaysFree == TRUE

\* The advisory lock is free.
SchedulerFree == reaping = 0

\* Mutant: an unknown outcome is taken for a resolved one.
UncertainOnlyInFlight(row) == \E o \in Ordinals : row.effects[o] = "DISPATCHING"

\* reap_one's uncertain: an effect is in flight, or its outcome unknown.
Uncertain(row) == \E o \in Ordinals : row.effects[o] \in Unresolved

\* Mutant: a prepared effect does not count.
UnfinishedIfUnresolved(row) == \E o \in Ordinals : row.effects[o] \in Unresolved

\* finish_run's unresolved: a prepared effect counts too.
Unfinished(row) ==
  \E o \in Ordinals : row.effects[o] \in Unresolved \cup {"PREPARED"}

\* Mutant: the epoch of the token is not compared.
HoldsAnyEpoch(row, w, e) == row.owner = w /\ row.held /\ row.ttl > 0

\* The caller's token names the lease that holds the slot, and that lease has
\* not expired by the database's clock.
Holds(row, w, e) ==
  row.owner = w /\ row.epoch = e /\ row.held /\ row.ttl > 0

Replace(r, row) == runs' = [runs EXCEPT ![r] = row]

-----------------------------------------------------------------------------
(* API clients and operators.                                               *)

\* put_module: content is stored once under its digest and never removed.
PutModule(t, m) ==
  /\ modules' = modules \cup {<<t, m>>}
  /\ UNCHANGED <<runs, activeCount, lastServed, dispatchSeq, revoked, life,
                 reaping, reapPending>>

NewRow(t, k, q) ==
  [tenant |-> t, key |-> k, grant |-> q.grant, module |-> q.module,
   state |-> "queued", epoch |-> 0, owner |-> NoWorker, ttl |-> 0,
   attempt |-> 0, held |-> FALSE, cancel |-> FALSE, output |-> NoLease,
   error |-> "none", renewal |-> NoRenewal,
   effects |-> [o \in Ordinals |-> "NONE"],
   log |-> <<Event("run.admitted")>>]

\* Mutant: revocation is not looked at.
GrantUnexpired(g) == life[g] > 0

GrantLive(g) == g \notin revoked /\ life[g] > 0

\* Mutant: deferred retries are not counted.
HasRoomForQueued(t) ==
  /\ Cardinality(InState({"queued"})) < MaxPendingGlobal
  /\ Cardinality(OfTenant(InState({"queued"}), t)) < QueueCap(t)

\* Admission counts a deferred retry as well as a queued run.
HasQueueRoom(t) ==
  LET pending == InState({"queued", "retry_wait"})
  IN /\ Cardinality(pending) < MaxPendingGlobal
     /\ Cardinality(OfTenant(pending, t)) < QueueCap(t)

\* The key is new.  A known key never inserts: with the same request it
\* returns the existing row, with another one it is a conflict.
KeyIsNew(t, k) == ~ \E r \in RunIds : runs[r].tenant = t /\ runs[r].key = k

\* admit_run.  Only the request's own grant is examined, not its ancestors.
Admit(t, k, q) ==
  /\ SchedulerFree
  /\ KeyIsNew(t, k)
  /\ <<t, q.module>> \in modules
  /\ GrantTenant[q.grant] = t /\ GrantLive(q.grant)
  /\ HasQueueRoom(t)
  /\ Len(runs) < MaxRuns
  /\ runs' = Append(runs, NewRow(t, k, q))
  /\ UNCHANGED <<activeCount, lastServed, dispatchSeq, modules, revoked, life,
                 reaping, reapPending>>

\* revoke_grant: idempotent, and never undone.
Revoke(g) ==
  /\ revoked' = revoked \cup {g}
  /\ UNCHANGED <<runs, activeCount, lastServed, dispatchSeq, modules, life,
                 reaping, reapPending>>

\* No endpoint of the repository writes cancel_requested.  Whoever does is
\* assumed to take the scheduler lock, to flag a run that is leased, running
\* or deferred, and to end a queued run at once, because claim_run skips a
\* flagged row and nothing else looks at it.
Cancel(r) ==
  /\ SchedulerFree /\ Unlocked(r)
  /\ \/ /\ runs[r].state \in {"leased", "running", "retry_wait"}
        /\ Replace(r, [runs[r] EXCEPT !.cancel = TRUE])
     \/ /\ runs[r].state = "queued"
        /\ Replace(r, [runs[r] EXCEPT
                         !.cancel = TRUE, !.state = "cancelled",
                         !.log = AppendEvent(@, Event("run.cancelled"))])
  /\ UNCHANGED <<activeCount, lastServed, dispatchSeq, modules, revoked, life,
                 reaping, reapPending>>

-----------------------------------------------------------------------------
(* claim_run.                                                               *)

Claimable(r) ==
  /\ runs[r].state = "queued" /\ ~runs[r].cancel
  /\ runs[r].attempt < MaxAttempts

\* Mutant: the tenant's active limit is not applied.
EligibleUnlimited(w, t) ==
  t \in Allowed[w] /\ \E r \in RunIds : runs[r].tenant = t /\ Claimable(r)

\* The tenant is allowed to the worker, is below its active limit and has a
\* claimable run.
Eligible(w, t) ==
  /\ t \in Allowed[w]
  /\ activeCount[t] < Least(ActiveLimit[t], MaxActivePerTenant)
  /\ \E r \in RunIds : runs[r].tenant = t /\ Claimable(r)

\* The candidate is the oldest claimable run of the eligible tenant that was
\* served least recently.
Candidate(w, r) ==
  LET t == runs[r].tenant
  IN /\ Claimable(r)
     /\ Eligible(w, t)
     /\ \A q \in RunIds : runs[q].tenant = t /\ Claimable(q) => r =< q
     /\ \A u \in Tenants : Eligible(w, u) =>
          \/ lastServed[t] < lastServed[u]
          \/ lastServed[t] = lastServed[u] /\ t =< u

\* Mutant: the worker's own slots are not counted.
HasGlobalSlot(w) == ActiveTotal < MaxActiveGlobal

\* Mutant: the global limit is not applied.
HasWorkerSlot(w) == Cardinality({r \in Held : runs[r].owner = w}) < WorkerSlots

HasSlot(w) ==
  /\ ActiveTotal < MaxActiveGlobal
  /\ Cardinality({r \in Held : runs[r].owner = w}) < WorkerSlots

ChainLive(g) == \A a \in Chain[g] : GrantLive(a)

\* LEAST(now + lease, min(expires_at) over the chain).
ClaimTtl(g) == Min({LeaseTime} \cup {life[a] : a \in Chain[g]})

\* A candidate whose grant chain is no longer live fails for good; the worker
\* gets nothing, and neither the tenant's place nor its slot moves.
ClaimDenied(w) ==
  /\ SchedulerFree /\ HasSlot(w)
  /\ \E r \in RunIds :
       /\ Candidate(w, r) /\ ~ChainLive(runs[r].grant)
       /\ Replace(r, [runs[r] EXCEPT
                        !.state = "failed", !.error = "GRANT_DENIED",
                        !.log = AppendEvent(AppendEvent(@,
                                  Event("grant.denied")), Event("run.failed"))])
  /\ UNCHANGED <<activeCount, lastServed, dispatchSeq, modules, revoked, life,
                 reaping, reapPending>>

\* The candidate gets a fresh epoch and the worker the lease; whether the
\* response reaches the worker makes no difference to the tables.
ClaimGranted(w) ==
  /\ SchedulerFree /\ HasSlot(w)
  /\ \E r \in RunIds :
       LET row == runs[r]
       IN /\ Candidate(w, r) /\ ChainLive(row.grant)
          /\ dispatchSeq' = dispatchSeq + 1
          /\ activeCount' = [activeCount EXCEPT ![row.tenant] = @ + 1]
          /\ lastServed' = [lastServed EXCEPT ![row.tenant] = dispatchSeq + 1]
          /\ Replace(r, [row EXCEPT
                !.state = "leased", !.epoch = @ + 1, !.owner = w,
                !.ttl = ClaimTtl(row.grant), !.attempt = @ + 1, !.held = TRUE,
                !.log = AppendEvent(@, [kind |-> "lease.claimed",
                                        lease |-> <<row.epoch + 1, w>>])])
  /\ UNCHANGED <<modules, revoked, life, reaping, reapPending>>

-----------------------------------------------------------------------------
(* Calls a worker makes with its lease token: run, worker and epoch.  A     *)
(* token may be old, and a call may arrive late or twice.                   *)

\* Mutant: a renewal is not capped by the grant.
UncappedTtl(g) == LeaseTime

\* LEAST(now + lease, expires_at of the run's own grant).
HeartbeatTtl(g) == Least(LeaseTime, life[g])

\* heartbeat_run, up to its UPDATE: the row is now locked and the new expiry
\* is fixed, but other transactions still read the old one.
HeartbeatUpdate(w, r, e) ==
  /\ Unlocked(r)
  /\ runs[r].tenant \in Allowed[w]
  /\ Holds(runs[r], w, e) /\ runs[r].state \in {"leased", "running"}
  /\ GrantLive(runs[r].grant)
  /\ Replace(r, [runs[r] EXCEPT !.renewal = HeartbeatTtl(runs[r].grant)])
  /\ UNCHANGED <<activeCount, lastServed, dispatchSeq, modules, revoked, life,
                 reaping, reapPending>>

\* heartbeat_run commits.
HeartbeatCommit(r) ==
  /\ ~Unlocked(r)
  /\ Replace(r, [runs[r] EXCEPT !.ttl = runs[r].renewal,
                                !.renewal = NoRenewal])
  /\ UNCHANGED <<activeCount, lastServed, dispatchSeq, modules, revoked, life,
                 reaping, reapPending>>

\* The heartbeat's connection is lost before the commit.
HeartbeatAbort(r) ==
  /\ ~Unlocked(r)
  /\ Replace(r, [runs[r] EXCEPT !.renewal = NoRenewal])
  /\ UNCHANGED <<activeCount, lastServed, dispatchSeq, modules, revoked, life,
                 reaping, reapPending>>

\* Mutant: the state changes without its event.
StartedSilently(w, r, e) ==
  /\ Unlocked(r) /\ runs[r].tenant \in Allowed[w]
  /\ Holds(runs[r], w, e) /\ runs[r].state = "leased"
  /\ Replace(r, [runs[r] EXCEPT !.state = "running"])
  /\ UNCHANGED <<activeCount, lastServed, dispatchSeq, modules, revoked, life,
                 reaping, reapPending>>

\* mark_run_started.  On a running row the call changes nothing.
Started(w, r, e) ==
  /\ Unlocked(r)
  /\ runs[r].tenant \in Allowed[w]
  /\ Holds(runs[r], w, e) /\ runs[r].state = "leased"
  /\ Replace(r, [runs[r] EXCEPT
                   !.state = "running",
                   !.log = AppendEvent(@, Event("runner.started"))])
  /\ UNCHANGED <<activeCount, lastServed, dispatchSeq, modules, revoked, life,
                 reaping, reapPending>>

\* Giving the slot back clears every column that named the lease.
Released(row, state) ==
  [row EXCEPT !.state = state, !.held = FALSE, !.owner = NoWorker, !.ttl = 0]

\* Mutant: the counter is forgotten.
KeepSlot(t) == activeCount' = activeCount

ReleaseSlot(t) == activeCount' = [activeCount EXCEPT ![t] = @ - 1]

\* finish_run accepts the result of a running, live lease with no effect left
\* open.  A cancellation request wins over the reported result.
Finish(w, r, e, result) ==
  LET row == runs[r]
      state == IF row.cancel THEN "cancelled"
               ELSE IF result = "error" THEN "failed" ELSE "succeeded"
  IN /\ SchedulerFree /\ Unlocked(r)
     /\ row.tenant \in Allowed[w]
     /\ activeCount[row.tenant] > 0
     /\ Holds(row, w, e) /\ row.state = "running"
     /\ ~Unfinished(row)
     /\ ReleaseSlot(row.tenant)
     /\ Replace(r, [Released(row, state) EXCEPT
                      !.output = IF result = "output" THEN <<e, w>> ELSE NoLease,
                      !.error = IF result = "error" THEN "reported" ELSE "none",
                      !.log = AppendEvent(@, Event(EventFor(state)))])
     /\ UNCHANGED <<lastServed, dispatchSeq, modules, revoked, life, reaping,
                    reapPending>>

\* What finish_run tells the holder of a token that it does not accept: the
\* tenant's counter is looked at before the row.
FinishError(w, r, e) ==
  LET row == runs[r]
  IN IF row.tenant \notin Allowed[w] THEN "RunNotFound"
     ELSE IF activeCount[row.tenant] = 0 THEN "CorruptScheduler"
     ELSE IF Holds(row, w, e) /\ row.state = "running" /\ ~Unfinished(row) THEN "none"
     ELSE "LeaseConflict"

-----------------------------------------------------------------------------
(* reap_one, called by the sweeper.                                         *)

\* Mutant: a worker that never reported its start is not looked for.
ExpiredRunning(row) == row.held /\ row.state = "running" /\ row.ttl = 0

\* What reap_one's candidate query asks of a row.
Expired(row) ==
  row.held /\ row.state \in {"leased", "running"} /\ row.ttl = 0

\* Mutant: the row is not examined again once it is locked.
NotReexamined(row) == TRUE

\* What reap_one asks again of the row once it has locked it.
StillExpired(row) == row.held /\ row.ttl = 0

\* Mutant: a cancellation request comes before an uncertain effect.
RecoveredCancelFirst(row, full) ==
  IF row.cancel THEN "cancelled"
  ELSE IF Uncertain(row) THEN "needs_reconciliation"
  ELSE IF row.attempt >= MaxAttempts THEN "failed"
  ELSE IF full THEN "retry_wait" ELSE "queued"

\* Mutant: one attempt too many.
RecoveredOnceMore(row, full) ==
  IF Uncertain(row) THEN "needs_reconciliation"
  ELSE IF row.cancel THEN "cancelled"
  ELSE IF row.attempt > MaxAttempts THEN "failed"
  ELSE IF full THEN "retry_wait" ELSE "queued"

\* Where a run goes when it leaves a lease or the waiting room.
Recovered(row, full) ==
  IF Uncertain(row) THEN "needs_reconciliation"
  ELSE IF row.cancel THEN "cancelled"
  ELSE IF row.attempt >= MaxAttempts THEN "failed"
  ELSE IF full THEN "retry_wait" ELSE "queued"

\* Mutant: off by one.
TenantQueueOverfull(t) ==
  Cardinality(OfTenant(InState({"queued"}), t)) > QueueCap(t)

TenantQueueFull(t) ==
  Cardinality(OfTenant(InState({"queued"}), t)) >= QueueCap(t)

\* A deferred run for which both queues have room.
Promotable(r) ==
  /\ runs[r].state = "retry_wait"
  /\ Cardinality(InState({"queued"})) < MaxPendingGlobal
  /\ ~TenantQueueFull(runs[r].tenant)

\* The oldest deferred run that fits is reassessed before any expired slot.
ReapPromote ==
  /\ SchedulerFree
  /\ \E r \in RunIds :
       LET next == Recovered(runs[r], FALSE)
       IN /\ Promotable(r)
          /\ \A q \in RunIds : Promotable(q) => r =< q
          /\ Replace(r, [runs[r] EXCEPT
                           !.state = next,
                           !.log = AppendEvent(@, Event(EventFor(next)))])
  /\ UNCHANGED <<activeCount, lastServed, dispatchSeq, modules, revoked, life,
                 reaping, reapPending>>

\* With nothing to promote, an expired slot is picked without locking its
\* row, and the size of the queue is remembered.  (The code takes the slot
\* that expired first; relative time does not tell expired slots apart.)
ReapSelect ==
  /\ SchedulerFree
  /\ ~ \E r \in RunIds : Promotable(r)
  /\ \E r \in RunIds : Expired(runs[r]) /\ reaping' = r
  /\ reapPending' = Cardinality(InState({"queued"}))
  /\ UNCHANGED <<runs, activeCount, lastServed, dispatchSeq, modules, revoked,
                 life>>

\* The row lock is granted and the slot is still expired.
ReapExpired ==
  LET r == reaping
      row == runs[r]
      next == Recovered(row, \/ reapPending >= MaxPendingGlobal
                             \/ TenantQueueFull(row.tenant))
  IN /\ ~SchedulerFree /\ Unlocked(r)
     /\ activeCount[row.tenant] > 0
     /\ StillExpired(row)
     /\ ReleaseSlot(row.tenant)
     /\ Replace(r, [Released(row, next) EXCEPT
                      !.log = AppendEvent(AppendEvent(@,
                                Event("lease.expired")), Event(EventFor(next)))])
     /\ reaping' = 0 /\ reapPending' = 0
     /\ UNCHANGED <<lastServed, dispatchSeq, modules, revoked, life>>

\* The row lock is granted, and a heartbeat has renewed the lease meanwhile.
ReapRenewed ==
  /\ ~SchedulerFree /\ Unlocked(reaping)
  /\ ~StillExpired(runs[reaping])
  /\ reaping' = 0 /\ reapPending' = 0
  /\ UNCHANGED <<runs, activeCount, lastServed, dispatchSeq, modules, revoked,
                 life>>

\* The sweeper's transaction is rolled back: a database error, or the daemon
\* stops.
ReapAbort ==
  /\ ~SchedulerFree
  /\ reaping' = 0 /\ reapPending' = 0
  /\ UNCHANGED <<runs, activeCount, lastServed, dispatchSeq, modules, revoked,
                 life>>

-----------------------------------------------------------------------------
(* The effect broker.  It is not in the repository; it owns the effects     *)
(* table whose rows reap_one and finish_run read.  It is assumed to follow  *)
(* EffectState::transition, and to hold the run's row lock and see a live   *)
(* running lease when it records an intent or puts it on the wire.          *)

BrokerSend(r, o, to) ==
  /\ Unlocked(r)
  /\ runs[r].state = "running" /\ runs[r].held /\ runs[r].ttl > 0
  /\ \/ runs[r].effects[o] = "NONE" /\ to = "PREPARED"
     \/ to = "DISPATCHING" /\ EffectTransition(runs[r].effects[o], to, FALSE, TRUE)
  /\ Replace(r, [runs[r] EXCEPT !.effects[o] = to])
  /\ UNCHANGED <<activeCount, lastServed, dispatchSeq, modules, revoked, life,
                 reaping, reapPending>>

\* An answer, a timeout or a manual resolution may come long after the lease.
BrokerResolve(r, o, to) ==
  /\ Unlocked(r)
  /\ to # "DISPATCHING" /\ EffectTransition(runs[r].effects[o], to, TRUE, FALSE)
  /\ Replace(r, [runs[r] EXCEPT !.effects[o] = to])
  /\ UNCHANGED <<activeCount, lastServed, dispatchSeq, modules, revoked, life,
                 reaping, reapPending>>

-----------------------------------------------------------------------------
Dec(n) == IF n > 0 THEN n - 1 ELSE 0

\* The database's clock advances.
Tick ==
  /\ runs' = [r \in RunIds |->
                [runs[r] EXCEPT
                  !.ttl = Dec(@),
                  !.renewal = IF @ = NoRenewal THEN NoRenewal ELSE Dec(@)]]
  /\ life' = [g \in Grants |-> IF g \in LongLived THEN life[g] ELSE Dec(life[g])]
  /\ UNCHANGED <<activeCount, lastServed, dispatchSeq, modules, revoked,
                 reaping, reapPending>>

\* A migrated database with its tenants and grants, and no run yet.
Init ==
  /\ runs = <<>>
  /\ activeCount = [t \in Tenants |-> 0]
  /\ lastServed = [t \in Tenants |-> 0]
  /\ dispatchSeq = 0
  /\ modules = {} /\ revoked = {}
  /\ life = GrantLife
  /\ reaping = 0 /\ reapPending = 0

Client ==
  \/ \E t \in Tenants, m \in Modules : PutModule(t, m)
  \/ \E t \in Tenants, k \in Keys, q \in Requests : Admit(t, k, q)
  \/ \E g \in Revocable : Revoke(g)
  \/ \E r \in RunIds : Cancel(r)

Worker(w) ==
  \/ ClaimDenied(w)
  \/ ClaimGranted(w)
  \/ \E r \in RunIds : \E e \in 1..runs[r].epoch :
       \/ HeartbeatUpdate(w, r, e)
       \/ Started(w, r, e)
       \/ \E result \in {"output", "error", "nothing"} : Finish(w, r, e, result)

Sweeper == ReapPromote \/ ReapSelect \/ ReapExpired \/ ReapRenewed \/ ReapAbort

Broker ==
  \E r \in RunIds, o \in Ordinals, to \in EffectStates :
    BrokerSend(r, o, to) \/ BrokerResolve(r, o, to)

Next ==
  \/ Client
  \/ \E w \in Workers : Worker(w)
  \/ \E r \in RunIds : HeartbeatCommit(r) \/ HeartbeatAbort(r)
  \/ Sweeper
  \/ Broker
  \/ Tick

Spec == Init /\ [][Next]_vars

-----------------------------------------------------------------------------
(* Safety.                                                                  *)

\* Every column has its type, and the CHECK constraints of the schema hold:
\* active_count stays within active_limit and attempt within three.
TypeOK ==
  /\ runs \in Seq(Rows) /\ Len(runs) =< MaxRuns
  /\ \A r \in RunIds : runs[r].attempt =< MaxAttempts
  /\ activeCount \in [Tenants -> Nat]
  /\ \A t \in Tenants : activeCount[t] =< ActiveLimit[t]
  /\ lastServed \in [Tenants -> Nat] /\ dispatchSeq \in Nat
  /\ modules \subseteq Tenants \X Modules
  /\ revoked \subseteq Grants /\ life \in [Grants -> Nat]
  /\ reaping \in RunIds \cup {0} /\ reapPending \in Nat

\* The slot counter of a tenant is the number of its rows that hold a slot;
\* a row holds one exactly while it is leased or running, and then it has an
\* owner.  claim_run, reap_one and finish_run keep the two tables in step.
SlotAccounting ==
  /\ \A t \in Tenants : activeCount[t] = Cardinality(OfTenant(Held, t))
  /\ \A r \in RunIds :
       /\ runs[r].held <=> runs[r].state \in {"leased", "running"}
       /\ runs[r].held <=> runs[r].owner # NoWorker

\* No worker holds more than two slots, no tenant more than one, and all of
\* them together at most max_active_global (claim_run's three limits).
SlotBounds ==
  /\ Cardinality(Held) =< MaxActiveGlobal
  /\ \A w \in Workers :
       Cardinality({r \in Held : runs[r].owner = w}) =< WorkerSlots
  /\ \A t \in Tenants : Cardinality(OfTenant(Held, t)) =< MaxActivePerTenant

\* No row that is queued, held or being reaped meets Error::CorruptScheduler:
\* were one of these conditions to fail, every later reap_one, claim_run or
\* finish_run that meets the row would fail again and the slot would never come
\* back.
NoCorruption ==
  /\ ActiveTotal =< 4
  /\ \A r \in Held : activeCount[runs[r].tenant] > 0
  /\ reaping # 0 => runs[reaping].held
  /\ \A r \in InState({"queued", "retry_wait"}) : ~runs[r].held

\* finish_run says what the text of Error::CorruptScheduler says, "scheduler
\* counter or active slot is inconsistent", only when they are: whatever token
\* a worker sends, it hears of an inconsistency only if a tenant's counter
\* differs from the number of its rows that hold slots.
CorruptIsReal ==
  \A r \in RunIds, w \in Workers : \A e \in 1..runs[r].epoch :
    FinishError(w, r, e) = "CorruptScheduler" => ~SlotAccounting

\* The queue never exceeds its global or its tenant's limit, although runs
\* come back to it from expired leases as well as from clients.
QueueBound ==
  /\ Cardinality(InState({"queued"})) =< MaxPendingGlobal
  /\ \A t \in Tenants :
       Cardinality(OfTenant(InState({"queued"}), t)) =< QueueCap(t)

\* Deferred retries do not escape the limits: all runs that are not settled
\* fit in the pending limit plus the active slots.
BacklogBound ==
  Cardinality(InState({"queued", "retry_wait", "leased", "running"}))
    =< MaxPendingGlobal + MaxActiveGlobal

\* No run is replayed, deferred or closed while the outcome of one of its
\* remote effects is in flight or unknown (reap_one, finish_run).
UncertainBars ==
  \A r \in RunIds :
    runs[r].state \in Terminal \cup {"queued", "retry_wait"} =>
      \A o \in Ordinals : runs[r].effects[o] \notin Unresolved

\* A run that succeeded has no effect left open, not even a prepared one.
SuccessIsComplete ==
  \A r \in InState({"succeeded"}) : \A o \in Ordinals :
    runs[r].effects[o] \in {"NONE", "COMMITTED", "DEFINITELY_FAILED"}

ClaimEvents(row) == {i \in DOMAIN row.log : row.log[i].kind = "lease.claimed"}

\* A stored output was produced under the last lease the run ever had, by the
\* worker that claimed it: a late finish_run with an old token never wins.
ResultFenced ==
  \A r \in RunIds :
    runs[r].output # NoLease =>
      /\ runs[r].state \in {"succeeded", "cancelled"}
      /\ runs[r].output[1] = runs[r].epoch
      /\ \E i \in ClaimEvents(runs[r]) : runs[r].log[i].lease = runs[r].output

\* A live lease, or a renewal about to commit, ends no later than any grant
\* of the run's chain, although heartbeat_run reads only the last one.
LeaseWithinGrant ==
  \A r \in Held : \A a \in Chain[runs[r].grant] :
    runs[r].ttl =< life[a] /\ runs[r].renewal =< life[a]

\* An idempotency key names one run of its tenant, whatever happens to it.
OneRunPerKey ==
  \A r, q \in RunIds :
    runs[r].tenant = runs[q].tenant /\ runs[r].key = runs[q].key => r = q

\* Every queued run can still be claimed: claim_run passes over a row that is
\* flagged or out of attempts, and nothing else would ever move it.
NothingStranded == \A r \in InState({"queued"}) : Claimable(r)

LastKinds(state) ==
  CASE state = "queued" -> {"run.admitted", "run.requeued"}
    [] state = "leased" -> {"lease.claimed"}
    [] state = "running" -> {"runner.started"}
    [] OTHER -> {EventFor(state)}

\* The event log and the row tell the same story: the last event is the one
\* of the row's state, and the claims in the log are the row's epochs, the
\* last of them the owner's.
LogMatchesRow ==
  \A r \in RunIds :
    LET row == runs[r]
    IN /\ row.log[Len(row.log)].kind \in LastKinds(row.state)
       /\ {row.log[i].lease[1] : i \in ClaimEvents(row)} = 1..row.epoch
       /\ row.held => \E i \in ClaimEvents(row) :
                        row.log[i].lease = <<row.epoch, row.owner>>

-----------------------------------------------------------------------------
(* What a step may do.                                                      *)

\* A lease that has not expired ends only with a finish_run by its own worker
\* under its own epoch, whatever other tokens are about; the sweeper, which
\* picked the row before a heartbeat renewed it, never takes it away.
LiveLeaseKept ==
  [][\A r \in RunIds :
       runs[r].held /\ runs[r].ttl > 0 =>
         \/ runs'[r].held /\ runs'[r].epoch = runs[r].epoch
                          /\ runs'[r].owner = runs[r].owner
         \/ \E result \in {"output", "error", "nothing"} :
              Finish(runs[r].owner, r, runs[r].epoch, result)]_vars

\* The tables implement RunLifecycle: every handler changes a run's state as
\* RunState::transition allows, and only with its effects resolved.
AllRuns == 1..MaxRuns
Lifecycle == INSTANCE RunLifecycle WITH
  Runs <- AllRuns,
  state <- [r \in AllRuns |-> IF r \in RunIds THEN runs[r].state ELSE "absent"],
  effects <- [r \in AllRuns |-> IF r \in RunIds THEN runs[r].effects
                                ELSE [o \in Ordinals |-> "NONE"]]
ImplementsLifecycle == Lifecycle!LifecycleSpec

-----------------------------------------------------------------------------
(* Liveness.  The clock advances; the sweeper calls reap_one again after    *)
(* every interval, so a failing database delays it but not for ever; an     *)
(* open transaction ends; workers keep asking for work.                     *)

Fairness ==
  /\ WF_vars(Tick)
  /\ WF_vars(ReapPromote \/ ReapSelect)
  /\ SF_vars(ReapExpired \/ ReapRenewed)
  /\ \A r \in AllRuns : WF_vars(r \in RunIds /\ (HeartbeatCommit(r) \/ HeartbeatAbort(r)))
  /\ \A w \in Workers : SF_vars(ClaimDenied(w) \/ ClaimGranted(w))

FairSpec == Spec /\ Fairness

Settled(r) == runs[r].state \in Terminal \cup {"needs_reconciliation"}

\* Some lease is under a grant that neither expires nor was revoked.
Lingers == \E r \in Held : runs[r].grant \in LongLived \ revoked

\* Whatever the workers do (crash, hang, renew their leases as long as they
\* can), every run ends or is handed to an operator, the runs too that wait for
\* a slot another run holds.  The one exception: a worker renews a lease under
\* a lasting grant for ever.
EveryRunSettles ==
  \/ \A r \in AllRuns : r \in RunIds ~> r \in RunIds /\ Settled(r)
  \/ <>[]Lingers

\* Once a run's own grant is revoked no heartbeat keeps its lease alive: the
\* slot comes back.
RevokedLeaseDrains ==
  \A r \in AllRuns :
    r \in Held /\ runs[r].grant \in revoked ~> r \notin Held

\* A deferred retry leaves the waiting room, whatever clients submit.
DeferredRunsReturn ==
  \A r \in AllRuns :
    r \in InState({"retry_wait"}) ~> r \notin InState({"retry_wait"})
=============================================================================
