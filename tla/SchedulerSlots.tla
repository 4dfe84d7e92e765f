--------------------------- MODULE SchedulerSlots ---------------------------
(***************************************************************************)
(* Slots and queues of Scheduler, proved: the counters of tenants match    *)
(* the rows that hold slots, and the limits of claim_run, admit_run and    *)
(* reap_one hold for every number of tenants, workers and runs.            *)
(***************************************************************************)
EXTENDS SchedulerSafety

(***************************************************************************)
(* What a step does to the slots.                                          *)
(***************************************************************************)

SlotsStay ==
  /\ UNCHANGED activeCount
  /\ reaping' \in {reaping, 0} \cup Held
  /\ RunIds \subseteq RunIds'
  /\ \A r \in RunIds : SameRun(runs[r], runs'[r]) /\ SameLease(runs[r], runs'[r])
  /\ \A r \in RunIds' \ RunIds : ~runs'[r].held

SlotTaken(r, w) ==
  /\ reaping = 0 /\ reaping' = 0 /\ HasSlot(w)
  /\ activeCount[runs[r].tenant] < 1
  /\ Writes(r) /\ ~runs[r].held
  /\ SameRun(runs[r], runs'[r]) /\ runs'[r].held /\ runs'[r].owner = w
  /\ activeCount' = [activeCount EXCEPT ![runs[r].tenant] = @ + 1]

SlotGiven(r) ==
  /\ reaping \in {0, r} /\ reaping' = 0
  /\ Writes(r) /\ runs[r].held
  /\ SameRun(runs[r], runs'[r]) /\ ~runs'[r].held
  /\ activeCount' = [activeCount EXCEPT ![runs[r].tenant] = @ - 1]

LEMMA SteadyWrite ==
  ASSUME NEW r \in RunIds, Writes(r), UNCHANGED <<activeCount, reaping>>,
         SameRun(runs[r], runs'[r]), SameLease(runs[r], runs'[r])
  PROVE  SlotsStay
<1>1. \A q : SameRun(runs[q], runs[q]) /\ SameLease(runs[q], runs[q])
  BY DEF SameRun, SameLease
<1> QED
  BY <1>1 DEF SlotsStay, Writes

LEMMA SlotShapeWorker ==
  ASSUME TypeOK, RowInv, NEW w \in Workers, Worker(w)
  PROVE  \/ SlotsStay
         \/ \E r \in RunIds : SlotTaken(r, w)
         \/ \E r \in RunIds : SlotGiven(r)
<1>1. CASE ClaimDenied(w)
  <2>1. PICK r \in RunIds : Writes(r) /\ Denied(runs[r], runs'[r])
    BY <1>1, ShapeDenied
  <2> QED
    BY <1>1, <2>1, SteadyWrite DEF Denied, Moved, ClaimDenied
<1>2. CASE ClaimGranted(w)
  <2>1. PICK r \in RunIds :
          /\ Candidate(w, r) /\ Writes(r) /\ Claimed(runs[r], runs'[r], w)
          /\ activeCount' = [activeCount EXCEPT ![runs[r].tenant] = @ + 1]
    BY <1>2, ShapeClaimed
  <2>2. activeCount[runs[r].tenant] < 1
    <3>1. activeCount[runs[r].tenant] < Least(ActiveLimit[runs[r].tenant], 1)
      BY <2>1 DEF Candidate, Eligible, MaxActivePerTenant
    <3> QED
      BY <3>1, RowOfRun, CounterTypes DEF Least
  <2>3. ~runs[r].held
    BY <2>1 DEF RowInv, RowOK, RowLease, Claimed
  <2>4. reaping = 0 /\ reaping' = 0 /\ HasSlot(w)
    BY <1>2 DEF ClaimGranted, SchedulerFree
  <2> QED
    BY <2>1, <2>2, <2>3, <2>4 DEF SlotTaken, Claimed
<1>3. ASSUME NEW r \in RunIds, NEW e \in 1..runs[r].epoch, HeartbeatUpdate(w, r, e)
      PROVE  SlotsStay
  <2>1. e \in Nat
    BY RowOfRun DEF Rows
  <2>2. Writes(r) /\ Renewed(runs[r], runs'[r])
    BY <1>3, <2>1, ShapeHeartbeat
  <2> QED
    BY <1>3, <2>2, SteadyWrite DEF Renewed, HeartbeatUpdate
<1>4. ASSUME NEW r \in RunIds, NEW e \in 1..runs[r].epoch, Started(w, r, e)
      PROVE  SlotsStay
  <2>1. Writes(r) /\ Begun(runs[r], runs'[r])
    BY <1>4, ShapeStarted
  <2> QED
    BY <1>4, <2>1, SteadyWrite DEF Begun, Moved, Started
<1>5. ASSUME NEW r \in RunIds, NEW e \in 1..runs[r].epoch, NEW result,
             Finish(w, r, e, result)
      PROVE  SlotGiven(r)
  <2>1. e \in Nat
    BY RowOfRun DEF Rows
  <2>2. /\ Writes(r) /\ Ended(runs[r], runs'[r])
        /\ activeCount' = [activeCount EXCEPT ![runs[r].tenant] = @ - 1]
    BY <1>5, <2>1, ShapeFinish
  <2>3. reaping = 0 /\ reaping' = 0
    BY <1>5 DEF Finish, SchedulerFree
  <2> QED
    BY <2>2, <2>3 DEF Ended, SlotGiven
<1> QED
  BY <1>1, <1>2, <1>3, <1>4, <1>5 DEF Worker

LEMMA SlotShape ==
  ASSUME TypeOK, RowInv, [Next]_vars
  PROVE  \/ SlotsStay
         \/ \E r \in RunIds, w \in Workers : SlotTaken(r, w)
         \/ \E r \in RunIds : SlotGiven(r)
<1>1. ASSUME UNCHANGED <<runs, activeCount>>, reaping' \in {reaping, 0} \cup Held
      PROVE  SlotsStay
  BY <1>1 DEF SlotsStay, RunIds, SameRun, SameLease
<1>2. CASE Client
  <2>1. ASSUME NEW t \in Tenants, NEW m \in Modules, PutModule(t, m) PROVE SlotsStay
    BY <1>1, <2>1 DEF PutModule
  <2>2. ASSUME NEW g \in Revocable, Revoke(g) PROVE SlotsStay
    BY <1>1, <2>2 DEF Revoke
  <2>3. ASSUME NEW t \in Tenants, NEW k \in Keys, NEW q \in Requests, Admit(t, k, q)
        PROVE  SlotsStay
    <3>1. NewRow(t, k, q).held = FALSE
      BY DEF NewRow
    <3>2. UNCHANGED <<activeCount, reaping>>
      BY <2>3 DEF Admit
    <3> QED
      BY <2>3, <3>1, <3>2, AdmitType DEF SlotsStay, SameRun, SameLease
  <2>4. ASSUME NEW r \in RunIds, Cancel(r) PROVE SlotsStay
    <3>1. Writes(r) /\ (Flagged(runs[r], runs'[r]) \/ Withdrawn(runs[r], runs'[r]))
      BY <2>4, ShapeCancel
    <3> QED
      BY <2>4, <3>1, SteadyWrite DEF Flagged, Withdrawn, Moved, Cancel
  <2> QED
    BY <1>2, <2>1, <2>2, <2>3, <2>4 DEF Client
<1>3. ASSUME NEW r \in RunIds, HeartbeatCommit(r) \/ HeartbeatAbort(r)
      PROVE  SlotsStay
  <2>1. Writes(r) /\ Renewed(runs[r], runs'[r])
    BY <1>3, ShapeHeartbeat
  <2> QED
    BY <1>3, <2>1, SteadyWrite DEF Renewed, HeartbeatCommit, HeartbeatAbort
<1>4. CASE ReapPromote
  <2>1. PICK r \in RunIds : Writes(r) /\ Promoted(runs[r], runs'[r])
    BY <1>4, ShapePromoted
  <2> QED
    BY <1>4, <2>1, SteadyWrite DEF Promoted, Moved, ReapPromote
<1>5. CASE ReapSelect
  BY <1>1, <1>5 DEF ReapSelect, Expired, Held
<1>6. CASE ReapRenewed \/ ReapAbort
  BY <1>1, <1>6 DEF ReapRenewed, ReapAbort
<1>7. CASE ReapExpired
  BY <1>7, ShapeReaped DEF Reaped, SlotGiven
<1>8. CASE Broker
  <2>1. PICK r \in RunIds, o \in Ordinals, to \in EffectStates :
          BrokerSend(r, o, to) \/ BrokerResolve(r, o, to)
    BY <1>8 DEF Broker
  <2>2. Writes(r) /\ Effected(runs[r], runs'[r])
    BY <2>1, ShapeEffected
  <2> QED
    BY <2>1, <2>2, SteadyWrite DEF Effected, BrokerSend, BrokerResolve
<1>9. CASE Tick
  <2>1. UNCHANGED <<activeCount, reaping>>
    BY <1>9 DEF Tick
  <2> QED
    BY <1>9, <2>1, TickType, RowTick DEF SlotsStay
<1>10. CASE UNCHANGED vars
  BY <1>1, <1>10 DEF vars
<1>11. ASSUME NEW w \in Workers, Worker(w)
       PROVE  \/ SlotsStay
              \/ \E r \in RunIds : SlotTaken(r, w)
              \/ \E r \in RunIds : SlotGiven(r)
  BY <1>11, SlotShapeWorker
<1> QED
  BY <1>2, <1>3, <1>4, <1>5, <1>6, <1>7, <1>8, <1>9, <1>10, <1>11
  DEF Next, Sweeper

(***************************************************************************)
(* Counters and rows.                                                      *)
(***************************************************************************)

SlotInv ==
  /\ \A t \in Tenants : activeCount[t] =< 1
  /\ \A t \in Tenants :
       activeCount[t] = 1 => \E r \in Held : runs[r].tenant = t
  /\ \A r \in Held : activeCount[runs[r].tenant] = 1
  /\ \A r, q \in Held : runs[r].tenant = runs[q].tenant => r = q
  /\ reaping # 0 => reaping \in Held

LEMMA SlotInvStep ==
  ASSUME TypeOK, TypeOK', RowInv, SlotInv, [Next]_vars
  PROVE  SlotInv'
<1>1. /\ \A r \in RunIds : runs[r].tenant \in Tenants
      /\ activeCount \in [Tenants -> Nat]
  BY RowOfRun DEF TypeOK
<1>2. CASE SlotsStay
  <2>1. Held' = Held /\ \A r \in Held : runs'[r].tenant = runs[r].tenant
    BY <1>2 DEF SlotsStay, Held, SameRun, SameLease
  <2> QED
    BY <1>2, <2>1 DEF SlotInv, SlotsStay
<1>3. ASSUME NEW r \in RunIds, NEW w \in Workers, SlotTaken(r, w) PROVE SlotInv'
  <2> DEFINE t == runs[r].tenant
  <2>1. /\ Held' = Held \cup {r} /\ r \notin Held
        /\ \A q \in RunIds : runs'[q].tenant = runs[q].tenant
        /\ activeCount' = [activeCount EXCEPT ![t] = @ + 1] /\ activeCount[t] < 1
        /\ reaping = 0 /\ reaping' = 0 /\ t \in Tenants /\ Held \subseteq RunIds
    BY <1>1, <1>3 DEF SlotTaken, Held, Writes, SameRun
  <2>2. \A q \in Held : runs[q].tenant # t
    BY <2>1 DEF SlotInv
  <2>3. /\ activeCount'[t] = 1
        /\ \A u \in Tenants : u # t => activeCount'[u] = activeCount[u]
    BY <1>1, <2>1
  <2>4. \A u \in Tenants : activeCount'[u] =< 1
    BY <2>3 DEF SlotInv
  <2>5. ASSUME NEW u \in Tenants, activeCount'[u] = 1
        PROVE  \E q \in Held' : runs'[q].tenant = u
    <3>1. CASE u = t
      BY <2>1, <3>1
    <3>2. CASE u # t
      BY <2>1, <2>3, <2>5, <3>2 DEF SlotInv
    <3> QED
      BY <3>1, <3>2
  <2>6. \A q \in Held' : activeCount'[runs'[q].tenant] = 1
    BY <1>1, <2>1, <2>2, <2>3 DEF SlotInv
  <2>7. \A p, q \in Held' : runs'[p].tenant = runs'[q].tenant => p = q
    BY <2>1, <2>2 DEF SlotInv
  <2> QED
    BY <2>1, <2>4, <2>5, <2>6, <2>7 DEF SlotInv
<1>4. ASSUME NEW r \in RunIds, SlotGiven(r) PROVE SlotInv'
  <2> DEFINE t == runs[r].tenant
  <2>1. /\ Held' = Held \ {r} /\ r \in Held
        /\ \A q \in RunIds : runs'[q].tenant = runs[q].tenant
        /\ activeCount' = [activeCount EXCEPT ![t] = @ - 1]
        /\ reaping' = 0 /\ t \in Tenants /\ Held \subseteq RunIds
    BY <1>1, <1>4 DEF SlotGiven, Held, Writes, SameRun
  <2>2. activeCount[t] = 1 /\ \A q \in Held : q # r => runs[q].tenant # t
    BY <2>1 DEF SlotInv
  <2>3. /\ activeCount'[t] = 0
        /\ \A u \in Tenants : u # t => activeCount'[u] = activeCount[u]
    BY <1>1, <2>1, <2>2
  <2>4. \A u \in Tenants : activeCount'[u] =< 1
    BY <2>3 DEF SlotInv
  <2>5. ASSUME NEW u \in Tenants, activeCount'[u] = 1
        PROVE  \E q \in Held' : runs'[q].tenant = u
    <3>1. u # t
      BY <2>3, <2>5
    <3> QED
      BY <2>1, <2>3, <2>5, <3>1 DEF SlotInv
  <2>6. \A q \in Held' : activeCount'[runs'[q].tenant] = 1
    BY <1>1, <2>1, <2>2, <2>3 DEF SlotInv
  <2>7. \A p, q \in Held' : runs'[p].tenant = runs'[q].tenant => p = q
    BY <2>1 DEF SlotInv
  <2> QED
    BY <2>1, <2>4, <2>5, <2>6, <2>7 DEF SlotInv
<1> QED
  BY <1>2, <1>3, <1>4, SlotShape

\* A table of runs is finite.
LEMMA RunsFinite ==
  ASSUME TypeOK
  PROVE  IsFiniteSet(RunIds) /\ IsFiniteSet(Held)
<1>1. IsFiniteSet(RunIds)
  BY FS_Interval DEF TypeOK, RunIds
<1> QED
  BY <1>1, FS_Subset DEF Held

\* The slots counted are as many as the rows that hold one.
LEMMA ActiveTotalIsHeld ==
  ASSUME TypeOK, SlotInv
  PROVE  ActiveTotal = Cardinality(Held)
<1> DEFINE S == {s \in Tenants \X (1..4) : s[2] =< activeCount[s[1]]}
           f == [r \in Held |-> <<runs[r].tenant, 1>>]
<1>1. /\ Held \subseteq RunIds /\ IsFiniteSet(Held)
      /\ \A r \in Held : runs[r].tenant \in Tenants
  BY RunsFinite, RowOfRun DEF Held
<1>2. \A r \in Held : f[r] \in S
  <2> SUFFICES ASSUME NEW r \in Held PROVE <<runs[r].tenant, 1>> \in S
    OBVIOUS
  <2>1. runs[r].tenant \in Tenants /\ activeCount[runs[r].tenant] = 1
    BY <1>1 DEF SlotInv
  <2> QED
    BY <2>1
<1>3. \A r, q \in Held : f[r] = f[q] => r = q
  BY DEF SlotInv
<1>4. ASSUME NEW s \in S PROVE \E r \in Held : f[r] = s
  <2>1. /\ s = <<s[1], s[2]>> /\ s[1] \in Tenants /\ s[2] \in 1..4
        /\ s[2] =< activeCount[s[1]]
    OBVIOUS
  <2>2. activeCount[s[1]] \in Nat /\ activeCount[s[1]] =< 1
    BY <2>1, CounterTypes DEF SlotInv
  <2>3. s[2] = 1 /\ activeCount[s[1]] = 1
    BY <2>1, <2>2
  <2>4. PICK r \in Held : runs[r].tenant = s[1]
    BY <2>1, <2>3 DEF SlotInv
  <2> QED
    BY <2>1, <2>3, <2>4
<1>5. f \in Bijection(Held, S)
  <2>1. f \in [Held -> S]
    BY <1>2
  <2> HIDE DEF f, S
  <2> QED
    BY <1>3, <1>4, <2>1 DEF Bijection, Injection, Surjection, IsInjective
<1> HIDE DEF f, S
<1>6. Cardinality(S) = Cardinality(Held)
  BY <1>1, <1>5, FS_Bijection DEF ExistsBijection
<1> QED
  BY <1>6 DEF ActiveTotal, S

OwnedBy(w) == {r \in Held : runs[r].owner = w}

LimitInv ==
  /\ Cardinality(Held) =< MaxActiveGlobal
  /\ \A w \in Workers : Cardinality(OwnedBy(w)) =< WorkerSlots

LEMMA LimitInvStep ==
  ASSUME TypeOK, TypeOK', RowInv, SlotInv, LimitInv, [Next]_vars
  PROVE  LimitInv'
<1>1. /\ IsFiniteSet(Held) /\ Cardinality(Held) \in Nat
      /\ \A w : OwnedBy(w) \subseteq Held /\ IsFiniteSet(OwnedBy(w))
      /\ \A w : Cardinality(OwnedBy(w)) \in Nat
  BY RunsFinite, FS_Subset, FS_CardinalityType DEF OwnedBy
<1>2. MaxActiveGlobal \in Nat
  BY LimitAssumption
<1>3. CASE SlotsStay
  <2>1. Held' = Held /\ \A r \in Held : runs'[r].owner = runs[r].owner
    BY <1>3 DEF SlotsStay, Held, SameLease
  <2>2. \A w : OwnedBy(w)' = OwnedBy(w)
    BY <2>1 DEF OwnedBy
  <2> QED
    BY <2>1, <2>2 DEF LimitInv
<1>4. ASSUME NEW r \in RunIds, NEW w \in Workers, SlotTaken(r, w) PROVE LimitInv'
  <2>1. /\ Held' = Held \cup {r} /\ r \notin Held /\ runs'[r].owner = w
        /\ \A q \in Held : runs'[q].owner = runs[q].owner
        /\ HasSlot(w)
    BY <1>4 DEF SlotTaken, Held, Writes
  <2>2. Cardinality(Held) < MaxActiveGlobal
    BY <2>1, ActiveTotalIsHeld DEF HasSlot
  <2>3. Cardinality(Held') =< MaxActiveGlobal
    <3>1. Cardinality(Held \cup {r}) = Cardinality(Held) + 1
      BY <1>1, <2>1, FS_AddElement
    <3> QED
      BY <1>1, <1>2, <2>1, <2>2, <3>1
  <2>4. OwnedBy(w)' = OwnedBy(w) \cup {r} /\ r \notin OwnedBy(w)
    BY <2>1 DEF OwnedBy
  <2>5. Cardinality(OwnedBy(w)) < WorkerSlots
    BY <2>1 DEF HasSlot, OwnedBy
  <2>6. Cardinality(OwnedBy(w)') =< WorkerSlots
    <3>1. Cardinality(OwnedBy(w) \cup {r}) = Cardinality(OwnedBy(w)) + 1
      BY <1>1, <2>4, FS_AddElement
    <3> QED
      BY <1>1, <2>4, <2>5, <3>1 DEF WorkerSlots
  <2>7. ASSUME NEW v \in Workers, v # w PROVE OwnedBy(v)' = OwnedBy(v)
    BY <2>1, <2>7 DEF OwnedBy
  <2> QED
    BY <2>3, <2>6, <2>7 DEF LimitInv
<1>5. ASSUME NEW r \in RunIds, SlotGiven(r) PROVE LimitInv'
  <2>1. /\ Held' \subseteq Held
        /\ \A q \in Held' : runs'[q].owner = runs[q].owner
    BY <1>5 DEF SlotGiven, Held, Writes
  <2>2. \A w : OwnedBy(w)' \subseteq OwnedBy(w)
    BY <2>1 DEF OwnedBy
  <2>3. Cardinality(Held') =< MaxActiveGlobal
    <3>1. Cardinality(Held') \in Nat /\ Cardinality(Held') =< Cardinality(Held)
      BY <1>1, <2>1, FS_Subset, FS_CardinalityType
    <3> QED
      BY <1>1, <1>2, <3>1 DEF LimitInv
  <2>4. ASSUME NEW w \in Workers PROVE Cardinality(OwnedBy(w)') =< WorkerSlots
    <3>1. /\ Cardinality(OwnedBy(w)') \in Nat
          /\ Cardinality(OwnedBy(w)') =< Cardinality(OwnedBy(w))
      BY <1>1, <2>2, FS_Subset, FS_CardinalityType
    <3>2. Cardinality(OwnedBy(w)) =< WorkerSlots /\ WorkerSlots \in Nat
      BY DEF LimitInv, WorkerSlots
    <3> QED
      BY <1>1, <3>1, <3>2
  <2> QED
    BY <2>3, <2>4 DEF LimitInv
<1> QED
  BY <1>3, <1>4, <1>5, SlotShape

LEMMA SlotsCorrect == Spec => [](TypeOK /\ RowInv /\ SlotInv /\ LimitInv)
<1>1. Init => SlotInv /\ LimitInv
  <2> SUFFICES ASSUME Init PROVE SlotInv /\ LimitInv
    OBVIOUS
  <2>1. Held = {} /\ \A w : OwnedBy(w) = {}
    BY DEF Init, Held, RunIds, OwnedBy
  <2>2. \A t \in Tenants : activeCount[t] = 0
    BY DEF Init
  <2>3. SlotInv
    BY <2>1, <2>2 DEF Init, SlotInv
  <2>4. LimitInv
    BY <2>1, FS_EmptySet, LimitAssumption DEF LimitInv, WorkerSlots
  <2> QED
    BY <2>3, <2>4
<1>2. TypeOK /\ TypeOK' /\ RowInv /\ SlotInv /\ [Next]_vars => SlotInv'
  BY SlotInvStep
<1>3. TypeOK /\ TypeOK' /\ RowInv /\ SlotInv /\ LimitInv /\ [Next]_vars => LimitInv'
  BY LimitInvStep
<1> QED
  BY <1>1, <1>2, <1>3, RowsCorrect, PTL DEF Spec

\* A tenant holds one slot or none, as its counter says.
LEMMA TenantSlots ==
  ASSUME TypeOK, SlotInv, NEW t \in Tenants
  PROVE  activeCount[t] = Cardinality(OfTenant(Held, t))
<1>1. activeCount[t] = 0 \/ activeCount[t] = 1
  BY CounterTypes DEF SlotInv
<1>2. CASE activeCount[t] = 0
  <2>1. OfTenant(Held, t) = {}
    BY <1>2 DEF SlotInv, OfTenant
  <2> QED
    BY <1>2, <2>1, FS_EmptySet
<1>3. CASE activeCount[t] = 1
  <2>1. PICK r \in Held : runs[r].tenant = t
    BY <1>3 DEF SlotInv
  <2>2. OfTenant(Held, t) = {r}
    BY <2>1 DEF SlotInv, OfTenant
  <2> QED
    BY <1>3, <2>2, FS_Singleton
<1> QED
  BY <1>1, <1>2, <1>3

\* tenants.active_count is the number of the tenant's rows that hold a slot,
\* and those are exactly the leased and running rows with an owner, for any
\* interleaving of claims, results, expiries and cancellations.
THEOREM CountersMatchRows == Spec => []SlotAccounting
<1>1. TypeOK /\ RowInv /\ SlotInv => SlotAccounting
  <2> SUFFICES ASSUME TypeOK, RowInv, SlotInv PROVE SlotAccounting
    OBVIOUS
  <2>1. \A r \in RunIds :
          /\ runs[r].held <=> runs[r].state \in {"leased", "running"}
          /\ runs[r].held <=> runs[r].owner # NoWorker
    BY DEF RowInv, RowOK, RowLease
  <2> QED
    BY <2>1, TenantSlots DEF SlotAccounting
<1> QED
  BY <1>1, SlotsCorrect, PTL

\* claim_run's three limits hold in every state: two slots per worker, one per
\* tenant and max_active_global together.
THEOREM LimitsHold == Spec => []SlotBounds
<1>1. TypeOK /\ SlotInv /\ LimitInv => SlotBounds
  <2> SUFFICES ASSUME TypeOK, SlotInv, LimitInv PROVE SlotBounds
    OBVIOUS
  <2>1. \A t \in Tenants : Cardinality(OfTenant(Held, t)) =< MaxActivePerTenant
    BY TenantSlots DEF SlotInv, MaxActivePerTenant
  <2> QED
    BY <2>1 DEF LimitInv, SlotBounds, OwnedBy
<1> QED
  BY <1>1, SlotsCorrect, PTL

\* No row that is queued, held or being reaped meets Error::CorruptScheduler in
\* claim_run, reap_one or finish_run (NoCorruption), so no slot is lost to it.
THEOREM SchedulerNeverCorrupt == Spec => []NoCorruption
<1>1. TypeOK /\ RowInv /\ SlotInv /\ LimitInv => NoCorruption
  <2> SUFFICES ASSUME TypeOK, RowInv, SlotInv, LimitInv PROVE NoCorruption
    OBVIOUS
  <2>1. ActiveTotal =< 4
    <3>1. Cardinality(Held) \in Nat
      BY RunsFinite, FS_CardinalityType
    <3> QED
      BY <3>1, ActiveTotalIsHeld, LimitAssumption DEF LimitInv
  <2>2. \A r \in Held : activeCount[runs[r].tenant] > 0
    BY DEF SlotInv
  <2>3. reaping # 0 => runs[reaping].held
    BY DEF SlotInv, Held
  <2>4. \A r \in InState({"queued", "retry_wait"}) : ~runs[r].held
    BY DEF RowInv, RowOK, RowLease, InState
  <2> QED
    BY <2>1, <2>2, <2>3, <2>4 DEF NoCorruption
<1> QED
  BY <1>1, SlotsCorrect, PTL

(***************************************************************************)
(* Queues.  reap_one compares a count it read before it locked the row; the *)
(* scheduler lock keeps the queue from growing in between.                  *)
(***************************************************************************)

Queue == InState({"queued"})

QueueRoom(t) ==
  /\ Cardinality(Queue) < MaxPendingGlobal
  /\ Cardinality(OfTenant(Queue, t)) < QueueCap(t)

QueueInv ==
  /\ Cardinality(Queue) =< MaxPendingGlobal
  /\ \A t \in Tenants : Cardinality(OfTenant(Queue, t)) =< QueueCap(t)
  /\ reaping # 0 => Cardinality(Queue) =< reapPending

NoneJoins ==
  /\ RunIds' = RunIds
  /\ \A r \in RunIds : /\ runs'[r].tenant = runs[r].tenant
                       /\ runs'[r].state = "queued" => runs[r].state = "queued"

QueueStays ==
  \/ NoneJoins /\ (reaping' = 0 \/ UNCHANGED <<reaping, reapPending>>)
  \/ UNCHANGED runs /\ reapPending' = Cardinality(Queue)

QueueJoined(r) ==
  /\ r \notin Queue /\ reaping' = 0
  /\ RunIds' \subseteq RunIds \cup {r} /\ r \in RunIds'
  /\ \A q \in RunIds : q # r => runs'[q] = runs[q]
  /\ QueueRoom(runs'[r].tenant)

LEMMA QueueFinite ==
  ASSUME TypeOK, NEW S
  PROVE  /\ IsFiniteSet(InState(S)) /\ Cardinality(InState(S)) \in Nat
         /\ \A t : /\ IsFiniteSet(OfTenant(InState(S), t))
                   /\ Cardinality(OfTenant(InState(S), t)) \in Nat
<1>1. IsFiniteSet(InState(S))
  BY RunsFinite, FS_Subset DEF InState
<1>2. \A t : IsFiniteSet(OfTenant(InState(S), t))
  BY <1>1, FS_Subset DEF OfTenant
<1> QED
  BY <1>1, <1>2, FS_CardinalityType

LEMMA QueueCapType ==
  ASSUME TypeOK, NEW t \in Tenants
  PROVE  QueueCap(t) \in Nat
  BY CounterTypes, LimitAssumption DEF QueueCap, Least

LEMMA QueueAdmit ==
  ASSUME TypeOK, NEW t \in Tenants, NEW k \in Keys, NEW q \in Requests,
         Admit(t, k, q)
  PROVE  QueueJoined(Len(runs'))
<1> DEFINE pending == InState({"queued", "retry_wait"})
<1>1. NewRow(t, k, q).tenant = t
  BY DEF NewRow
<1>2. reaping' = 0
  BY DEF Admit, SchedulerFree
<1>3. /\ Cardinality(pending) < MaxPendingGlobal
      /\ Cardinality(OfTenant(pending, t)) < QueueCap(t)
  BY DEF Admit, HasQueueRoom
<1>4. Queue \subseteq pending /\ OfTenant(Queue, t) \subseteq OfTenant(pending, t)
  BY DEF Queue, InState, OfTenant
<1>5. /\ IsFiniteSet(pending) /\ Cardinality(pending) \in Nat
      /\ IsFiniteSet(OfTenant(pending, t))
      /\ Cardinality(OfTenant(pending, t)) \in Nat
      /\ Cardinality(Queue) \in Nat /\ Cardinality(OfTenant(Queue, t)) \in Nat
  BY QueueFinite DEF Queue
<1> HIDE DEF pending
<1>6. /\ Cardinality(Queue) =< Cardinality(pending)
      /\ Cardinality(OfTenant(Queue, t)) =< Cardinality(OfTenant(pending, t))
  BY <1>4, <1>5, FS_Subset
<1>7. QueueRoom(t)
  <2>1. MaxPendingGlobal \in Nat /\ QueueCap(t) \in Nat
    BY QueueCapType, LimitAssumption
  <2> QED
    BY <1>3, <1>5, <1>6, <2>1 DEF QueueRoom
<1>8. Len(runs') \notin Queue
  BY AdmitType DEF Queue, InState
<1> QED
  BY <1>1, <1>2, <1>7, <1>8, AdmitType DEF QueueJoined

LEMMA QueueShapeWorker ==
  ASSUME TypeOK, NEW w \in Workers, Worker(w)
  PROVE  QueueStays
<1>1. NoneJoins
  <2>1. CASE ClaimDenied(w)
    <3>1. PICK r \in RunIds : Writes(r) /\ Denied(runs[r], runs'[r])
      BY <2>1, ShapeDenied
    <3> QED
      BY <3>1 DEF Denied, Moved, SameRun, NoneJoins, Writes
  <2>2. CASE ClaimGranted(w)
    <3>1. PICK r \in RunIds : Writes(r) /\ Claimed(runs[r], runs'[r], w)
      BY <2>2, ShapeClaimed
    <3> QED
      BY <3>1 DEF Claimed, SameRun, NoneJoins, Writes
  <2>3. ASSUME NEW r \in RunIds, NEW e \in 1..runs[r].epoch,
               \/ HeartbeatUpdate(w, r, e) \/ Started(w, r, e)
               \/ \E result \in {"output", "error", "nothing"} : Finish(w, r, e, result)
        PROVE  NoneJoins
    <3>1. e \in Nat
      BY RowOfRun DEF Rows
    <3>2. \/ Writes(r) /\ Renewed(runs[r], runs'[r])
          \/ Writes(r) /\ Begun(runs[r], runs'[r])
          \/ Writes(r) /\ Ended(runs[r], runs'[r])
      BY <2>3, <3>1, ShapeHeartbeat, ShapeStarted, ShapeFinish
    <3> QED
      BY <3>2 DEF Renewed, Begun, Ended, Moved, SameRun, Terminal, NoneJoins, Writes
  <2> QED
    BY <2>1, <2>2, <2>3 DEF Worker
<1>2. UNCHANGED <<reaping, reapPending>>
  <2>1. CASE ClaimDenied(w) \/ ClaimGranted(w)
    BY <2>1 DEF ClaimDenied, ClaimGranted
  <2>2. ASSUME NEW r, NEW e, \/ HeartbeatUpdate(w, r, e) \/ Started(w, r, e)
                             \/ \E result : Finish(w, r, e, result)
        PROVE  UNCHANGED <<reaping, reapPending>>
    BY <2>2 DEF HeartbeatUpdate, Started, Finish
  <2> QED
    BY <2>1, <2>2 DEF Worker
<1> QED
  BY <1>1, <1>2 DEF QueueStays

LEMMA QueueShape ==
  ASSUME TypeOK, RowInv, QueueInv, [Next]_vars
  PROVE  QueueStays \/ \E r : QueueJoined(r)
<1>1. ASSUME UNCHANGED runs, reaping' = 0 \/ UNCHANGED <<reaping, reapPending>>
      PROVE  QueueStays
  BY <1>1 DEF QueueStays, NoneJoins, RunIds
<1>2. CASE Client
  <2>1. ASSUME NEW t \in Tenants, NEW m \in Modules, PutModule(t, m) PROVE QueueStays
    BY <1>1, <2>1 DEF PutModule
  <2>2. ASSUME NEW g \in Revocable, Revoke(g) PROVE QueueStays
    BY <1>1, <2>2 DEF Revoke
  <2>3. ASSUME NEW r \in RunIds, Cancel(r) PROVE QueueStays
    <3>1. Writes(r) /\ (Flagged(runs[r], runs'[r]) \/ Withdrawn(runs[r], runs'[r]))
      BY <2>3, ShapeCancel
    <3>2. NoneJoins
      BY <3>1 DEF Flagged, Withdrawn, Moved, SameRun, NoneJoins, Writes
    <3> QED
      BY <2>3, <3>2 DEF Cancel, QueueStays
  <2> QED
    BY <1>2, <2>1, <2>2, <2>3, QueueAdmit DEF Client
<1>3. ASSUME NEW r \in RunIds, HeartbeatCommit(r) \/ HeartbeatAbort(r)
      PROVE  QueueStays
  <2>1. Writes(r) /\ Renewed(runs[r], runs'[r])
    BY <1>3, ShapeHeartbeat
  <2>2. NoneJoins
    BY <2>1 DEF Renewed, SameRun, NoneJoins, Writes
  <2> QED
    BY <1>3, <2>2 DEF HeartbeatCommit, HeartbeatAbort, QueueStays
<1>4. CASE ReapPromote
  <2>1. PICK r \in RunIds : Promotable(r) /\ Writes(r) /\ Promoted(runs[r], runs'[r])
    BY <1>4, ShapePromoted
  <2>2. reaping' = 0 /\ r \notin Queue /\ runs'[r].tenant = runs[r].tenant
    BY <1>4, <2>1 DEF ReapPromote, SchedulerFree, Promotable, Queue, InState,
       Promoted, Moved, SameRun
  <2>3. QueueRoom(runs[r].tenant)
    <3>1. Cardinality(Queue) < MaxPendingGlobal
          /\ ~ Cardinality(OfTenant(Queue, runs[r].tenant)) >= QueueCap(runs[r].tenant)
      BY <2>1 DEF Promotable, TenantQueueFull, Queue
    <3>2. Cardinality(OfTenant(Queue, runs[r].tenant)) \in Nat
          /\ QueueCap(runs[r].tenant) \in Nat
      BY QueueFinite, QueueCapType, RowOfRun DEF Queue
    <3> QED
      BY <3>1, <3>2 DEF QueueRoom
  <2> QED
    BY <2>1, <2>2, <2>3 DEF QueueJoined, Writes
<1>5. CASE ReapSelect
  BY <1>5 DEF ReapSelect, QueueStays, Queue
<1>6. CASE ReapRenewed \/ ReapAbort
  BY <1>1, <1>6 DEF ReapRenewed, ReapAbort
<1>7. CASE ReapExpired
  <2> DEFINE r == reaping
  <2>1. /\ r \in RunIds /\ r # 0 /\ reaping' = 0
        /\ Writes(r) /\ Reaped(runs[r], runs'[r])
        /\ runs'[r].state = "queued" =>
             /\ ~ reapPending >= MaxPendingGlobal
             /\ ~ TenantQueueFull(runs[r].tenant)
    BY <1>7, ShapeReaped DEF ReapExpired, SchedulerFree
  <2>2. runs'[r].tenant = runs[r].tenant /\ runs[r].tenant \in Tenants
    BY <2>1, RowOfRun DEF Reaped, SameRun
  <2>3. r \notin Queue
    BY <2>1 DEF Reaped, RowInv, RowOK, RowLease, Queue, InState
  <2>4. CASE runs'[r].state # "queued"
    BY <2>1, <2>2, <2>4 DEF QueueStays, NoneJoins, Writes
  <2>5. CASE runs'[r].state = "queued"
    <3>1. /\ Cardinality(Queue) \in Nat /\ reapPending \in Nat
          /\ Cardinality(OfTenant(Queue, runs[r].tenant)) \in Nat
          /\ QueueCap(runs[r].tenant) \in Nat /\ MaxPendingGlobal \in Nat
      BY <2>2, QueueFinite, QueueCapType, LimitAssumption DEF Queue, TypeOK
    <3>2. Cardinality(Queue) =< reapPending
      BY <2>1 DEF QueueInv
    <3>3. Cardinality(Queue) < MaxPendingGlobal
      BY <2>1, <2>5, <3>1, <3>2
    <3>4. ~ Cardinality(OfTenant(Queue, runs[r].tenant)) >= QueueCap(runs[r].tenant)
      BY <2>1, <2>5 DEF TenantQueueFull, Queue
    <3>5. QueueRoom(runs[r].tenant)
      BY <3>1, <3>3, <3>4 DEF QueueRoom
    <3> QED
      BY <2>1, <2>2, <2>3, <3>5 DEF QueueJoined, Writes
  <2> QED
    BY <2>4, <2>5
<1>8. CASE Broker
  <2>1. PICK r \in RunIds, o \in Ordinals, to \in EffectStates :
          BrokerSend(r, o, to) \/ BrokerResolve(r, o, to)
    BY <1>8 DEF Broker
  <2>2. Writes(r) /\ Effected(runs[r], runs'[r])
    BY <2>1, ShapeEffected
  <2>3. NoneJoins
    BY <2>2 DEF Effected, SameRun, NoneJoins, Writes
  <2> QED
    BY <2>1, <2>3 DEF BrokerSend, BrokerResolve, QueueStays
<1>9. CASE Tick
  <2>1. NoneJoins
    BY <1>9, TickType, RowTick DEF NoneJoins, SameRun
  <2> QED
    BY <1>9, <2>1 DEF Tick, QueueStays
<1>10. CASE UNCHANGED vars
  BY <1>1, <1>10 DEF vars
<1>11. ASSUME NEW w \in Workers, Worker(w) PROVE QueueStays
  BY <1>11, QueueShapeWorker
<1> QED
  BY <1>2, <1>3, <1>4, <1>5, <1>6, <1>7, <1>8, <1>9, <1>10, <1>11
  DEF Next, Sweeper

\* A finite set that gains at most one element stays within a limit that it
\* was below.
LEMMA OneMore ==
  ASSUME NEW S, NEW T, NEW x, IsFiniteSet(S), T \subseteq S \cup {x},
         NEW n \in Nat, Cardinality(S) < n
  PROVE  Cardinality(T) =< n
<1>1. Cardinality(S) \in Nat /\ IsFiniteSet(S \cup {x})
      /\ (\/ Cardinality(S \cup {x}) = Cardinality(S)
          \/ Cardinality(S \cup {x}) = Cardinality(S) + 1)
  BY FS_CardinalityType, FS_AddElement
<1>2. Cardinality(T) \in Nat /\ Cardinality(T) =< Cardinality(S \cup {x})
  BY <1>1, FS_Subset, FS_CardinalityType
<1> QED
  BY <1>1, <1>2

LEMMA NoMore ==
  ASSUME NEW S, NEW T, IsFiniteSet(S), T \subseteq S, NEW n \in Nat,
         Cardinality(S) =< n
  PROVE  Cardinality(T) =< n
<1>1. Cardinality(S) \in Nat /\ Cardinality(T) \in Nat
      /\ Cardinality(T) =< Cardinality(S)
  BY FS_Subset, FS_CardinalityType
<1> QED
  BY <1>1

LEMMA QueueInvStep ==
  ASSUME TypeOK, TypeOK', RowInv, QueueInv, [Next]_vars
  PROVE  QueueInv'
<1>1. /\ IsFiniteSet(Queue) /\ Cardinality(Queue) \in Nat
      /\ \A t : IsFiniteSet(OfTenant(Queue, t))
      /\ MaxPendingGlobal \in Nat /\ reapPending \in Nat
      /\ \A t \in Tenants : QueueCap(t) \in Nat
  <2>1. MaxPendingGlobal \in Nat /\ reapPending \in Nat
    BY LimitAssumption DEF TypeOK
  <2> QED
    BY <2>1, QueueFinite, QueueCapType DEF Queue
<1>2. CASE UNCHANGED runs /\ reapPending' = Cardinality(Queue)
  <2>1. Queue' = Queue /\ \A t : OfTenant(Queue, t)' = OfTenant(Queue, t)
    BY <1>2 DEF Queue, InState, OfTenant, RunIds
  <2> QED
    BY <1>1, <1>2, <2>1 DEF QueueInv
<1>3. CASE NoneJoins /\ (reaping' = 0 \/ UNCHANGED <<reaping, reapPending>>)
  <2>1. Queue' \subseteq Queue
        /\ \A t : OfTenant(Queue, t)' \subseteq OfTenant(Queue, t)
    BY <1>3 DEF NoneJoins, Queue, InState, OfTenant
  <2>2. Cardinality(Queue') =< MaxPendingGlobal
    BY <1>1, <2>1, NoMore DEF QueueInv
  <2>3. \A t \in Tenants : Cardinality(OfTenant(Queue, t)') =< QueueCap(t)
    BY <1>1, <2>1, NoMore DEF QueueInv
  <2>4. reaping' # 0 => Cardinality(Queue') =< reapPending'
    BY <1>1, <1>3, <2>1, NoMore DEF QueueInv
  <2> QED
    BY <2>2, <2>3, <2>4 DEF QueueInv, QueueCap
<1>4. ASSUME NEW r, QueueJoined(r) PROVE QueueInv'
  <2>0. PICK t \in Tenants : t = runs'[r].tenant
    <3>1. runs' \in Seq(Rows) /\ r \in DOMAIN runs'
      BY <1>4 DEF QueueJoined, TypeOK, RunIds
    <3>2. runs'[r] \in Rows
      BY <3>1
    <3> QED
      BY <3>2 DEF Rows
  <2>1. /\ Queue' \subseteq Queue \cup {r}
        /\ OfTenant(Queue, t)' \subseteq OfTenant(Queue, t) \cup {r}
        /\ \A u : u # t => OfTenant(Queue, u)' \subseteq OfTenant(Queue, u)
    <3>1. \A q \in RunIds' : q # r => q \in RunIds /\ runs'[q] = runs[q]
      BY <1>4 DEF QueueJoined
    <3>2. \A q \in Queue' : q # r => q \in Queue /\ runs'[q] = runs[q]
      BY <3>1 DEF Queue, InState
    <3> QED
      BY <2>0, <3>2 DEF OfTenant
  <2>2. Cardinality(Queue) < MaxPendingGlobal
        /\ Cardinality(OfTenant(Queue, t)) < QueueCap(t) /\ reaping' = 0
    BY <1>4, <2>0 DEF QueueJoined, QueueRoom
  <2>3. Cardinality(Queue') =< MaxPendingGlobal
    BY <1>1, <2>1, <2>2, OneMore
  <2>4. Cardinality(OfTenant(Queue, t)') =< QueueCap(t)
    <3>1. QueueCap(t) \in Nat /\ IsFiniteSet(OfTenant(Queue, t))
      BY <1>1, <2>1
    <3> QED
      BY <2>1, <2>2, <3>1, OneMore
  <2>5. ASSUME NEW u \in Tenants, u # t
        PROVE  Cardinality(OfTenant(Queue, u)') =< QueueCap(u)
    BY <1>1, <2>1, <2>5, NoMore DEF QueueInv
  <2>6. \A u \in Tenants : Cardinality(OfTenant(Queue, u)') =< QueueCap(u)
    BY <2>4, <2>5
  <2> QED
    BY <2>2, <2>3, <2>6 DEF QueueInv, QueueCap
<1> QED
  BY <1>2, <1>3, <1>4, QueueShape DEF QueueStays

\* The queue stays within its global limit and every tenant's, although
\* reap_one decides on a count it read before it locked the expired row.
THEOREM QueuesBounded == Spec => []QueueBound
<1>1. Init => QueueInv
  <2> SUFFICES ASSUME Init PROVE QueueInv
    OBVIOUS
  <2>1. TypeOK
    BY InitTyped
  <2>2. Queue = {} /\ \A t : OfTenant(Queue, t) = {}
    BY DEF Init, Queue, InState, OfTenant, RunIds
  <2>3. MaxPendingGlobal \in Nat /\ \A t \in Tenants : QueueCap(t) \in Nat
    BY <2>1, QueueCapType, LimitAssumption
  <2>4. reaping = 0
    BY DEF Init
  <2> QED
    BY <2>2, <2>3, <2>4, FS_EmptySet DEF QueueInv
<1>2. TypeOK /\ TypeOK' /\ RowInv /\ QueueInv /\ [Next]_vars => QueueInv'
  BY QueueInvStep
<1>3. QueueInv => QueueBound
  BY DEF QueueInv, QueueBound, Queue
<1> QED
  BY <1>1, <1>2, <1>3, RowsCorrect, PTL DEF Spec

(***************************************************************************)
(* The backlog grows only by admission.                                    *)
(***************************************************************************)

Pending == {"queued", "retry_wait"}
Backlog == InState({"queued", "retry_wait", "leased", "running"})

LEMMA BacklogSplit ==
  ASSUME RowInv
  PROVE  Backlog = InState(Pending) \cup Held
<1>1. \A r \in RunIds : runs[r].held <=> runs[r].state \in {"leased", "running"}
  BY DEF RowInv, RowOK, RowLease
<1> QED
  BY <1>1 DEF Backlog, InState, Pending, Held

LEMMA RowStaysOpen ==
  ASSUME NEW a, NEW b, RowLease(a), RowStep(a, b),
         b.state \in {"queued", "retry_wait", "leased", "running"}
  PROVE  a.state \in {"queued", "retry_wait", "leased", "running"}
  BY DEF RowLease, RowStep, Flagged, Withdrawn, Denied, Claimed, Renewed, Begun,
     Ended, Reaped, Promoted, Effected

LEMMA BacklogStep ==
  ASSUME TypeOK, RowInv, LimitInv, BacklogBound, [Next]_vars
  PROVE  BacklogBound'
<1> DEFINE n == MaxPendingGlobal + MaxActiveGlobal
<1>1. /\ IsFiniteSet(Backlog) /\ n \in Nat /\ MaxPendingGlobal \in Nat
      /\ MaxActiveGlobal \in Nat
  BY QueueFinite, LimitAssumption DEF Backlog
<1>2. ASSUME Backlog' \subseteq Backlog PROVE BacklogBound'
  <2>1. Cardinality(Backlog) =< n
    BY DEF BacklogBound, Backlog
  <2>2. Cardinality(Backlog') =< n
    BY <1>1, <1>2, <2>1, NoMore
  <2> QED
    BY <2>2 DEF BacklogBound, Backlog
<1>3. ASSUME NEW t \in Tenants, NEW k \in Keys, NEW q \in Requests, Admit(t, k, q)
      PROVE  BacklogBound'
  <2> DEFINE P == InState(Pending)
  <2>1. Cardinality(P) < MaxPendingGlobal
    BY <1>3 DEF Admit, HasQueueRoom, Pending
  <2>2. /\ IsFiniteSet(P) /\ Cardinality(P) \in Nat
        /\ IsFiniteSet(Held) /\ Cardinality(Held) \in Nat
        /\ Cardinality(Held) =< MaxActiveGlobal
    BY QueueFinite, RunsFinite, FS_CardinalityType DEF LimitInv
  <2> HIDE DEF P
  <2>3. Cardinality(P \cup Held) = Cardinality(P) + Cardinality(Held)
                                     - Cardinality(P \cap Held)
    BY <2>2, FS_Union
  <2>4. Cardinality(P \cap Held) \in Nat
    BY <2>2, FS_Subset, FS_CardinalityType
  <2>5. Cardinality(Backlog) < n
    <3>1. Backlog = P \cup Held
      BY BacklogSplit DEF P
    <3> QED
      BY <1>1, <2>1, <2>2, <2>3, <2>4, <3>1
  <2>6. Backlog' \subseteq Backlog \cup {Len(runs')}
    BY <1>3, AdmitType DEF Backlog, InState
  <2>7. Cardinality(Backlog') =< n
    BY <1>1, <2>5, <2>6, OneMore
  <2> QED
    BY <2>7 DEF BacklogBound, Backlog
<1>4. CASE UNCHANGED runs
  BY <1>2, <1>4 DEF Backlog, InState, RunIds
<1>5. CASE Tick
  BY <1>2, <1>5, TickType, RowTick DEF Backlog, InState
<1>6. ASSUME NEW r \in RunIds, Writes(r), RowStep(runs[r], runs'[r])
      PROVE  BacklogBound'
  <2>1. RowLease(runs[r])
    BY DEF RowInv, RowOK
  <2>2. r \in Backlog' => r \in Backlog
    BY <1>6, <2>1, RowStaysOpen DEF Backlog, InState
  <2>3. \A q \in RunIds : q # r /\ q \in Backlog' => q \in Backlog
    BY <1>6 DEF Writes, Backlog, InState
  <2> QED
    BY <1>2, <1>6, <2>2, <2>3 DEF Writes, Backlog, InState
<1> QED
  BY <1>3, <1>4, <1>5, <1>6, StepShape DEF vars

\* Runs that come back from expired leases never push the open runs past the
\* pending limit plus the slots, because admit_run counts deferred retries.
THEOREM BacklogBounded == Spec => []BacklogBound
<1>1. Init => BacklogBound
  <2> SUFFICES ASSUME Init PROVE BacklogBound
    OBVIOUS
  <2>1. Backlog = {}
    BY DEF Init, Backlog, InState, RunIds
  <2> QED
    BY <2>1, FS_EmptySet, LimitAssumption DEF BacklogBound, Backlog
<1>2. TypeOK /\ RowInv /\ LimitInv /\ BacklogBound /\ [Next]_vars => BacklogBound'
  BY BacklogStep
<1> QED
  BY <1>1, <1>2, SlotsCorrect, PTL DEF Spec
=============================================================================
