---------------------------- MODULE MCScheduler ----------------------------
(***************************************************************************)
(* Small instances of Scheduler for TLC.                                   *)
(***************************************************************************)
EXTENDS Scheduler, TLC

CONSTANTS w1, w2, k1, k2, k3, k4, m, g0, g1, g2, g3

\* A view that drops what no guard reads and no invariant of the run names:
\* event logs, outputs and error codes, and the values (not the order) of the
\* dispatch numbers.
TableView ==
  <<[r \in RunIds |-> [runs[r] EXCEPT !.log = <<>>, !.output = NoLease,
                                      !.error = "none"]],
    {p \in Tenants \X Tenants : lastServed[p[1]] < lastServed[p[2]]},
    activeCount, modules, revoked, life, reaping, reapPending>>

\* For the runs of liveness, with one tenant and a key for every run: the key's
\* name goes too.  Two states with the same view take the same steps to states
\* with the same views, and neither fairness nor the properties name what is
\* dropped.
LivenessView ==
  <<[r \in RunIds |-> [runs[r] EXCEPT !.log = <<>>, !.output = NoLease,
                                      !.error = "none", !.key = k1]],
    activeCount, modules, revoked, life, reaping, reapPending>>

WorkerSymmetry == Permutations({w1, w2})

\* race: tenant 1 owns the chain g0 > g1; one run, two workers.
RaceChain == g0 :> {g0} @@ g1 :> {g0, g1}
RaceGrantTenant == g0 :> 1 @@ g1 :> 1
RaceGrantLife == g0 :> 7 @@ g1 :> 6
RaceRequests == {[grant |-> g1, module |-> m]}
RaceAllowed == w1 :> {1} @@ w2 :> {1}
RaceQueueLimit == 1 :> 1
RaceActiveLimit == 1 :> 1
\* slots: three tenants with a root grant each, and one worker.
SlotsChain == g1 :> {g1} @@ g2 :> {g2} @@ g3 :> {g3}
SlotsGrantTenant == g1 :> 1 @@ g2 :> 2 @@ g3 :> 3
SlotsGrantLife == g1 :> 2 @@ g2 :> 2 @@ g3 :> 2
SlotsRequests == [grant : {g1, g2, g3}, module : {m}]
SlotsAllowed == w1 :> {1, 2, 3}
SlotsQueueLimit == <<2, 1, 1>>
SlotsActiveLimit == <<2, 1, 1>>
\* queue: two tenants, the first with a queue limit below the global one.
QueueChain == g1 :> {g1} @@ g2 :> {g2}
QueueGrantTenant == g1 :> 1 @@ g2 :> 2
QueueGrantLife == g1 :> 1 @@ g2 :> 1
QueueRequests == [grant : {g1, g2}, module : {m}]
QueueAllowed == w1 :> {1, 2}
QueueQueueLimit == <<1, 2>>
QueueActiveLimit == <<1, 1>>
KeySymmetry == Permutations({k1, k2})
\* settle: runs of one tenant under a grant that expires and one that lasts
\* until it is revoked, and one slot.
SettleChain == g1 :> {g1} @@ g2 :> {g2}
SettleGrantTenant == g1 :> 1 @@ g2 :> 1
SettleGrantLife == g1 :> 2 @@ g2 :> 2
SettleRequests == [grant : {g1, g2}, module : {m}]

\* defer: one tenant, one grant, a queue that holds one run.
DeferChain == g1 :> {g1}
DeferGrantTenant == g1 :> 1
DeferGrantLife == g1 :> 2
DeferRequests == {[grant |-> g1, module |-> m]}

OneTenantAllowed == w1 :> {1}
OneTenantQueueLimit == <<1>>
OneTenantActiveLimit == <<1>>
=============================================================================
