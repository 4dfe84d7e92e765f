# TLA+ models of EffectLatch

EffectLatch runs untrusted WebAssembly programs for tenants and lets them cause
remote effects only under revocable, budgeted grants. What must not go wrong is
kept in PostgreSQL: which worker may run what, whose result counts, which grant
pays for which effect. This directory models those tables and the transactions
that change them, the control daemon in front of them and the supervisor and runner
behind them, checks the models with TLC and proves the main results with TLAPS.

## Inventory

| Part | Code | State | Operations |
|---|---|---|---|
| State machines | `crates/domain/src/state.rs` | none | `RunState::transition`, `EffectState::transition` |
| Durable scheduler | `crates/store/src/scheduler.rs`, `lib.rs` | `runs`, `tenants`, `scheduler_state`, `modules`, `run_events` | `put_module`, `admit_run`, `claim_run`, `heartbeat_run`, `mark_run_started`, `reap_one`, `finish_run`, `append_event` |
| Grants | `crates/domain/src/grants.rs`, `crates/store/src/lib.rs`, `crates/control/src/grants/mod.rs` | `grants`, `effect_reservations`, `operator_events` | `create_grant`, `get_grant`, `revoke_grant`, `reserve_grant_chain` |
| Transactions | `crates/store/src` | PostgreSQL's locks | `begin`, `begin_scheduler`, the `FOR UPDATE`s and foreign keys of all of the above, `lock_timeout` |
| Worker RPC, sweeper | `crates/control/src/scheduler/mod.rs` | the sweeper's task | `claim`, `heartbeat`, `started`, `finish`, `sweep` |
| Public API, credentials | `crates/control/src/api/mod.rs`, `grants/mod.rs`, `auth.rs` | the principal file, read once | `authenticate`, `upload_module`, `create_run`, `create`, `get`, `revoke` |
| Server, daemon, configuration | `crates/control/src/server.rs`, `effectlatchd.rs`, `config.rs` | connection tasks, the stop channel, the pool | start-up, `serve`, drain, abort, `store.close` |
| Module validation | `crates/runtime/src/validate.rs`, `engine.rs` | none | `validate`, linking |
| Supervisor, runner, ABI | `crates/runtime/src` | one child process per run, `LIVE_RUNNERS`, the reaper's jobs | `Supervisor::run`, the IPC sequences, the host imports, `kill_tree`, the reaper thread |
| Hashing, types | `hash.rs`, `types.rs` | none | pure encodings |

How they interact: API clients submit runs; workers poll `claim`, run the module
under the supervisor, renew with `heartbeat` and report with `finish`; the
daemon's sweeper calls `reap_one` for leases that expired; an effect broker
(whose tables and reservation function exist, whose code does not) records
effects and pays for them with `reserve_grant_chain`; operators create and
revoke grants. There is no shared memory between these parties: they meet in the
database, through its locks.

What is hard:

* `admit_run`, `claim_run`, `reap_one` and `finish_run` hold one advisory lock;
  `heartbeat_run`, `mark_run_started` and everything about grants do not, so they
  interleave with the former, between two statements of one transaction;
* tokens go stale: a worker may be late, dead or talking about an older lease;
* a lease may expire with an effect on the wire;
* a run leaves and re-enters bounded queues, and counters are kept in a second
  table;
* a grant's chain is read and locked row by row while others change it;
* transactions of the API, the workers, the sweeper and the broker lock the same rows
  in several orders, some of the locks taken by foreign keys that no statement names;
* connection tasks and the sweeper may be cut off at any await by a deadline or by
  shutdown, which has to end all the same;
* the supervisor has to survive a child that does anything, and the runner a
  supervisor that dies.

What makes each part correct: leases exclude each other and results are fenced, no
effect is repeated or hidden, limits and queues hold and every run settles
(scheduler); authority only shrinks, budgets are exact, nothing is charged to a dead
grant and lock waits end (grants); a success means that everything was committed, one
effect is under way at a time, every invocation ends (supervisor and runner); no child
and no permit is lost (reaper); tenants stay apart, what is accepted at the door is what
the inside can use, and shutdown ends (daemon).

`PROJECT.json` lists these hazards line by line with the properties that cover
them.

## Modules

* `Domain`: the two transition tables of `state.rs`. No handler of the store calls
  those functions; the SQL repeats their rules.
* `RunLifecycle`: what the tables promise together, as a specification of runs and
  their effects. `Scheduler` is shown to implement it.
* `Scheduler`: the tables and transactions of the scheduler. A row of `runs`
  carries its effects and its event log; `activeCount`, `lastServed` and
  `dispatchSeq` are the columns of `tenants` and `scheduler_state`. Each handler is
  one action, with two exceptions that matter. `HeartbeatUpdate` and
  `HeartbeatCommit` (or `HeartbeatAbort`) are the UPDATE and the end of
  `heartbeat_run`; in between the row is locked and others read the old expiry.
  `ReapSelect` and `ReapExpired` (or `ReapRenewed`, `ReapAbort`) are the unlocked
  candidate query of `reap_one` and what it does once the row lock is granted; the
  advisory lock is held in between (`SchedulerFree` is false). `ReapPromote` is the
  promotion of a deferred run, which comes first in `reap_one`.
* `Grants`: grants, reservations and the transactions on them, with the locks of
  `load_grant_chain_locked` taken one row at a time (`LockRow`) and the copies it
  reads kept in the transaction (`seen`) until the commit decides on them. The clock
  is read in a step of its own (`ReadClock`), once the chain is locked; the commit comes
  later, and for a reservation it is the caller's.
* `Invocation`: one call of `Supervisor::run` with its threads, the two pipes, the
  broker and the child. `pc` says where the supervisor's loop is: it looks at the
  lease and the clock, at the broker's answer and at the child's next frame in
  separate steps, and waits for writes (`WriteBounded`) and for the exit
  (`WaitExit`, `WaitTimeout`). Every return but a success kills the child. The
  child is either the real runner, with the host imports of `abi.rs` (the `Guest`
  actions, `State` in `abi`), or a rogue that sends and reads what it likes;
  `honest` tells which. The supervisor's process may die (`ParentDies`). The runner's
  input thread moves responses from its stdin into a channel of one
  (`InputReads`, `abi.responses`); with the channel full it is blocked in `send`
  (`InputBlocked`), and only at a read does it see that the parent is gone (`ParentGone`).
* `Reaper`: children across invocations: who owns each (`owner`), what became of its
  process, the counter `LIVE_RUNNERS` and the reaper thread's loop.
* `LockOrder`: the locks of every transaction of the store in the order in which it asks
  for them, with the `FOR KEY SHARE` that an INSERT takes through its foreign keys.
  What the transactions do is in `Scheduler` and `Grants`; here each is a list of locks
  (`todo`), taken one by one (`Lock`) or given up (`End`, `LockTimeout`).
* `Access` (`auth.rs`): which principal files parse, whose a credential is, and what the
  handlers ask of a principal. `ModuleCheck` (`validate.rs`): the section checks of
  `validate` on a record of a module's sections, and what the linker and
  `get_typed_func` of `engine.rs` need (`Links`, with Wasm's numbering of functions).
  `Settings` (`config.rs`): the numbers `Config::validate` accepts, the policies made of
  them with their casts to `u8`, and the checks at the head of the store's calls. These
  three are pure and `Control` uses them. Each says what its data is (`PrincipalRecords`,
  `ModuleRecords`, `ConfigRecords`), so that `Control` can speak of any of them.
* `Control`: the daemon. `phase` says where `run` is (`starting`, `serving`, `draining`,
  `aborting`, `stopping` the sweeper, `cancelling` it, `closing` the pool, `exited`);
  `conn` are the tasks of the `JoinSet`; `sweeper` and `stop` the sweeper's task and its
  channel. `Handle` is a request behind the middleware: credential, checks, and one
  action per handler for its transaction. `TaskEnds` is every way a task ends, before or
  after its commit. What a request shows are rows; a `GrantView` names the grant's
  ancestors too, and an invoker is shown the ids of ancestors that it may not use, all of
  them its tenant's. `db` keeps of the tables what tells tenants apart; the transactions
  themselves are `Scheduler`'s and `Grants`'s. `Modules` and `Configs` are the modules
  and configurations the checks are asked about; `Uploads` and `Config` are among them.
* `MCScheduler`, `MCGrants`, `MCLockOrder`, `MCControl`, `MCInvocation`, `MCReaper`: the
  instances TLC checks.
* `SchedulerProofs` (types), `SchedulerSafety` (leases, results, effects, keys, the log,
  and that `Scheduler` implements `RunLifecycle`), `SchedulerSlots` (counters, limits,
  queues), `GrantsProofs`, `LockOrderProofs`, `InvocationProofs`, `ControlProofs`,
  `ReaperProofs`: the theorems.

Data that no property tells apart is abstracted: module digests, keys, outputs and
error codes are model values or tokens (an output is the lease that produced it),
hashes of events are their order in the log, uuid order is creation order. Time in
`Scheduler` is relative (what is left of a lease or a grant); in `Grants` it is a
clock. Calls that return an error change nothing and are stuttering steps.

Code that is not in the repository is modelled from how the repository uses it and
marked external: the effect broker (it follows `EffectState::transition`, takes the
run's row lock, and records and sends effects only under a live running lease), and
whoever sets `cancel_requested` (it takes the scheduler lock, and ends a queued run
at once, because `claim_run` passes over a flagged row and nothing else would look
at it). In `Invocation` the broker is what its trait's comment asks for: it checks the
lease and commits the intent in one step (`Authorize`), and may answer late, wrongly or
never. In the runner, JSON, base64 and the memory checks of the imports are one kind of
bad frame and one kind of invalid call; fuel, memory limits and the watchdog are a trap
at any time. The reader thread and its channel lengthen the stdout pipe and are part of
`stdout`; since the reader only stops after a finish frame, the loop's `Disconnected`
branch cannot be reached.

## Runs

| Run | Instance | Question |
|---|---|---|
| `race` | one run, two workers, a chain of two grants, two effects, three attempts, lease of 2 ticks | are leases, fencing, recovery and the log right under every interleaving, and do the tables implement `RunLifecycle`? |
| `slots` | three tenants, one worker of two slots, one tenant with an own limit of two | do the counters match the rows, and do the tenant and worker limits hold? |
| `queue` | two tenants with queue limits 1 and 2, one slot for both, deferred runs | are the queue limits and the global limit kept, and queued runs claimable? |
| `settle` | two runs, one slot, one worker that may do anything, a grant that expires and a lasting one that may be revoked | does every run settle, and a revoked lease drain? |
| `defer` | one tenant, a queue of one, four runs: two to cause a deferral and two that are submitted after it | does a deferred retry return although clients keep submitting? |
| `locks` | two connections, up to three grants, chain limit two, expiry | do chains stay loadable and authority shrink under concurrent creation and revocation? |
| `budget` | two runs on a parent and a child grant, budgets one and two, two destinations and projects of which one pair is not configured, expiry | are budgets exact, is only configured scope charged, and is nothing charged to or derived from a grant that is revoked, or was expired when the clock was read? |
| `lockorder` | three connections, one tenant, a chain of two grants, one run | which transactions can deadlock, and do all of them end? |
| `control` | two connection tasks, two tenants, five principals, three grants; 4680 modules and some 37,000 configurations at the edges of every check | do tenants stay apart, does the module check agree with the linker and the configuration with the store, and does shutdown end? |
| `invocation` | three host calls, two effects, four frames, a log of two bytes, message ids 1 to 3 of a rogue | does each end of the pipe stand whatever the other does, and does every invocation end? |
| `reaper` | three permits, four children | are permits and children never lost, and killed children reaped? |
| `corrupt` | as `race` | does `finish_run` speak of corruption only when there is some? It does not: see below |

Bounds. `MaxRuns`, `MaxGrants` and `MaxTime` bound the models, not the code; they are in
guards. Limits of the code (attempts, queue lengths, slots, chain length, budgets) are
constants given small values so that each limit is reached and passed over: a queue fills,
attempts run out, a chain reaches its limit, a budget is exhausted at an ancestor before
the leaf. No single instance reaches all three limits on active runs: `slots` reaches the
worker's and the tenant's (its global limit of three cannot bind), `queue` the global one.
`ChainLimit` is two in `locks` and `budget`, so the only ancestor there is the parent;
`GrantsAttenuate` proves the rest. Two workers suffice for fencing because a stale token
and a current one are all a row can tell apart; two connections because every conflict in
`Grants` is between a pair. Symmetry is used for workers, keys, runs and connections, in
safety runs only. The runs of `Grants` do not check for deadlock: when the bounded clock
has passed every expiry, nothing is left to do.

Views. `slots` and `queue` use one that drops the event log, outputs and the values (not
the order) of dispatch numbers, which no guard and none of their invariants reads.
`settle` and `defer` use `LivenessView`, which also drops the dispatch numbers and the
names of keys: with one tenant and a key for every run, two states with the same view have
the same steps up to what the view drops, so the quotient has the same fair behaviours.
`control` drops what the last answers say (`UnreadAnswers`), which only `Isolation` reads,
in the step that gives them. `invocation` drops, for a rogue, what lies in its stdin and
how dispatches ended whose answer was taken (`InvocationView`): no step but the rogue's
own read looks at that.

`EveryRunSettles` has an exception. Under a lasting grant that is never revoked a worker
may renew one lease for ever (`Lingers`), and another run of the tenant then stays in the
queue, even when its own grant has expired, since `claim_run` looks at it only when there
is a slot. `settle` has both grants contend for the one slot: either that goes on for
ever, or every run settles. If the grant is revoked, the slot comes back although the
worker goes on with its heartbeats (`RevokedLeaseDrains`).

`invocation` keeps the relation of the code's caps (`HostCalls < MessageCap`, 64 and 128
there) and makes them meet: a guest can use all its calls for log messages or effects, and
then the supervisor has room for exactly the finish frame. One frame in the pipe suffices:
what matters is whether a frame is there when the child dies or an effect is pending. The
ids that a rogue writes (`u64` in the code) are `RogueIds`: one to three, so that it can
have three dispatches and send ids that are too small or too large at each. The theorems
hold for any set of ids. `reaper` has one child more than permits. `Invocation`
may stop, since an invocation ends.

`lockorder` needs three connections: beside the pair (a claim or an admission that holds
the tenant and wants a grant, an owner's transaction that holds the grant and inserts a
row for the tenant) there is a cycle of three, with a reservation that holds the run
and wants the grant while a scheduler transaction holds the tenant and wants the run.
`OnlyOwnerCycles` says that every cycle is of this kind: the documented order (scheduler
lock, tenant, run, grants from the root) is broken by the foreign keys of
`create_grant` and `revoke_grant` and by nothing else.

`ResponsesAwaited` is why a runner does not outlive its supervisor's process: a response
is on its way only while the guest waits for it, so the channel never fills and the input
thread, which alone would notice, is back at its read when the supervisor dies
(`ParentGone`), whatever the guest does.

`control`. Two tasks suffice since handlers share nothing but the tables and each
commits at once; their slots are used again and again. Tenant `b` owns a run that
tenant `a`'s principals can name; `w1` is a worker of `b` and, under another
credential, of both tenants; the invoker may use one of its tenant's grants only.
Eleven principal files with one slip each never get as far as serving. Modules are all
combinations of ten import lists, six function lists, six memories and thirteen
export lists, so that the index of `run` falls on each import, on each function and
behind the last.

`corrupt` expects a violation. `finish_run` returns `CorruptScheduler`, "scheduler
counter or active slot is inconsistent", whenever the tenant's `active_count` is 0, and
looks at the row only then. A finish that is sent again, or comes after the sweeper
took the slot back, finds a counter of 0 that is right; it should hear `LeaseConflict`,
and does if the tenant has another active run. The worker RPC answers the former with
`STORE_UNAVAILABLE`, to be retried. A smaller matter of the same kind: the text of
`SupervisorError::ChildExit` is "runner exited without a valid finish frame", but the
error is only returned after a valid finish frame was accepted and the child then exited
with a status other than 0 (`WaitExit`); a runner that dies without one is reported as a
protocol error.

Fairness (`settle`, `defer`, `lockorder`, `control`, `invocation`, `reaper`). The clock
advances. The sweeper calls `reap_one` after every interval, whatever happened to the last
call, so picking (weak) and resolving a picked row (strong, since it can be rolled back or
find the row locked any number of times, but not for ever) are fair. An open heartbeat
commits or is lost. Workers keep polling `claim`; strong fairness, as the lock may be
taken whenever they ask. Nothing else is assumed: no worker ever has to start, heartbeat
or finish, no client to submit, no effect to resolve. For `lockorder`, a transaction with
all its locks ends, a lock that keeps becoming free is granted (strong fairness), and a
wait without a break is ended by `lock_timeout`, which `connect` sets; PostgreSQL's own
search for deadlocks is not relied on. Without `lock_timeout` the property fails even
where nobody deadlocks: inserts that share the tenant's row can keep a `FOR UPDATE` out.
For `control`, the main task runs and its timeouts fire, an aborted task ends at its next
await, gives its connection back and is joined; clients, handlers, the database and the
sweeper may hang. For `invocation`, the supervisor's thread runs (every wait of its loop
has a timeout, and `lease_state`, which it calls in between, is taken to return: the trait
does not bound it); neither the broker nor the child has to do anything. For `reaper`, a
killed process dies, the reaper's loop runs, it takes jobs in their order, and `try_wait`
may fail for a child but not for ever: an error that stays would keep its job, and its
permit.

## Not modelled

`hash.rs` and `types.rs`: byte encodings, base64 and SHA-256, where a property would be
one about the library; the models compare what is encoded. The spelling of identifiers,
URLs, headers and JSON, and HTTP status codes, beyond that a request is refused.
wasmparser's and wasmtime's own work, in which instantiation may still fail for a module
that links: an active data segment outside the memory, a memory above `memory_bytes`.
`migrate`, which sqlx does in a command of its own. The counters the daemon prints at
exit, and a panic in a handler (nothing there panics). Process ids and process groups. A
change of the configuration between two runs of the daemon on the same database.

## Proofs

All theorems hold for every value of the constants that satisfies the named
assumptions, which TLC evaluates on the instances:

* `TenantAssumption`, `GrantAssumption` and `LimitAssumption` of `Scheduler`: finitely
  many tenants, limits in the ranges the configuration and the schema allow, a grant
  that outlives none of its ancestors, which `GrantsAttenuate` proves of `Grants`.
* `ConstantAssumption` of `Grants`: the adapters pair destinations with projects; runs
  and effects are finite sets; a chain may have at least one grant.
* `LockAssumption` of `LockOrder`: finitely many connections; a grant's ancestry is a
  path from a root, within its tenant (`GrantsLoad`).
* `InvocationAssumption` of `Invocation`: the caps are positive and there are fewer host
  calls than messages, 64 and 128 in the code; ids are numbers.
* `SectionAssumption` of `ModuleCheck` and `ControlAssumption` of `Control`: limits are
  numbers; modules, configurations, principal files and the tables at start-up are of
  their types; in those tables only a lease has an owner, the stored modules link and a grant's
  ancestors are of its tenant, as an earlier daemon leaves them (all are invariants of this
  one).
* `ReaperAssumption` of `Reaper`: a capacity above zero.

The theorems, by module:

* `SchedulerProofs!TypeCorrect`: every column keeps its type and the schema's CHECK
  constraints hold. `TypeOK` is inductive as it stands: a lemma per shape of row
  update, then one per action.
* `SchedulerSafety`. None of its invariants is inductive alone: that a success has no
  open effect needs that effects are only open under a lease or in recovery, and that
  needs to know which rows hold leases. The proof first shows (`StepShape`) that a step
  of any handler changes a row in one of ten ways (`Flagged`, `Withdrawn`, `Denied`,
  `Claimed`, `Renewed`, `Begun`, `Ended`, `Reaped`, `Promoted`, `Effected`) or not at
  all, then that each of them keeps `RowInv`, which relates a row's state to its lease,
  effects, attempts and result. `LeaseWithinGrant` has an invariant of its own
  (`TimeInv`): leases and open renewals end with the attenuated time of the grants.
  Theorems: `NoReplayWhileUncertain`, `SuccessHasNoOpenEffect`, `OldTokensNeverWin`,
  `QueuedRunsAreClaimable`, `LiveLeaseNeverTaken`, `LeaseEndsWithGrant`,
  `KeysNameOneRun`.
* `SchedulerSlots`. Every step leaves the rows that hold slots alone, adds one or takes
  one away, with the counter; the sum of the counters is then the number of such rows
  (by a bijection), and the limits follow from the guards of `claim_run`. For queues the
  invariant must also say that while `reap_one` waits for its row, the tenant's queue has
  not grown beyond what it counted. Theorems: `CountersMatchRows`, `LimitsHold`,
  `SchedulerNeverCorrupt`, `QueuesBounded`, `BacklogBounded`.
* `SchedulerSafety!LogTellsTheRow`. Each of the ten shapes also says which event it
  appends (`Tells`), so the last event and the epochs claimed follow the row (`RowLog`); that
  a held lease is in the log is part of `RowInv`.
* `SchedulerSafety!StoreFollowsDomain`: `Spec => ImplementsLifecycle`. The mapping
  takes a row to its state and its effects' states; each action is a step of
  `RunLifecycle` or stutters.
* `GrantsProofs`. `GrantInv` is `TypeInv /\ ChainInv /\ TxChains /\ LocksInv /\
  BudgetInv`. A chain is the least set that holds a grant and the parents of its members,
  and never changes: a new grant is nobody's ancestor (`OldChain`, `NewChain`). `LocksInv`
  is the heart: no two transactions have the same row locked, and a locked row is as its
  copy says, since whoever writes a row has locked it. So what a commit decides on its
  copies is true of the table. `BudgetInv` counts: `used` is the cardinality of the set of
  effects that reserved the grant, which grows by one as the count does. Theorems:
  `GrantsTyped`, `GrantsLoad`, `GrantsAttenuate`, `GrantsBudget`, `GrantsConfigured`, and
  the action property `GrantsFromTheLiving`: a grant that is charged or gets a child is not
  revoked at that moment, which the row locks give, and was not expired at the time the
  transaction read with these locks held. It may be expired by the time of the commit.
* `LockOrderProofs!OnlyOwnersDeadlock`. `OrderInv`: what a transaction still asks for
  comes after what it holds in a strict order of the rows (kinds in the documented order,
  grants by depth), except a tenant's key share after grants. In a cycle of waits without
  such an exception every waiter is before another, and a nonempty finite set has a last
  element.
* `InvocationProofs`. `ThreadInv`, about the supervisor alone, gives `OneDispatch` for any
  child. The rest is about the real runner, whose caps are kept on two sides that share no
  state. `HonestInv` relates them by phases: nothing is under way (`Quiet`); one effect
  request, dispatch or response is (`Awaiting`); or the runner writes its last frames
  (`Flushing`), where a plan of frames exists of which some are read, some in the pipe and
  the rest unwritten, and whose log bytes, as prefix sums, fit the cap. `MailInv` does the
  same for the way back: a pending write, a message in the pipe, one in the input thread's
  channel, at most one of them and only while the guest waits. Theorems:
  `InvocationTyped`, `OneDispatchAtATime`, `OkMeansCommitted`, `RunnerNeverRejected`,
  `FailureStopsEffects`, `ResponsesMatch`.
* `ControlProofs`. `ModulesLink` compares `validate` with the ABI both ways: the five
  imports are five different names of the linker's five, so none is missing (by
  cardinality), and an index of `run` at or above the imports is a function of the
  module's own. `StartedConfigSuits` is arithmetic on the two sets of bounds.
  `TenantsIsolated` needs `ControlInv`: while there is a task, the file is one that
  `Principals::parse` accepted, so a credential matches one record (`OnePrincipal`); and
  only a lease has an owner, so a claim takes nothing from another worker; and a grant's
  ancestors are its tenant's. Then one lemma per handler.
* `ReaperProofs`: `PermitsNeverLost`, `QueueNeverFull`. A child about to be handed over
  holds a permit that the queue does not, so the queue has room.

Only model-checked: liveness under fairness (`EveryRunSettles`, `RevokedLeaseDrains`,
`DeferredRunsReturn`, `TransactionsEnd`, `ShutdownEnds`, `InvocationEnds`,
`KilledAreReaped`), which is out of the prover's reach. Every invariant and every safety
action property that a passing run checks is stated by a theorem.

## Plan

1. Composition of `Scheduler`, `Grants`, the broker's intents and `Invocation`.
2. A change of `max_attempts` between restarts.
