--------------------------- MODULE SchedulerProofs ---------------------------
(***************************************************************************)
(* Proofs about Scheduler, for every set of tenants, workers, keys, grants *)
(* and effects and every limit the assumptions of Scheduler allow.         *)
(***************************************************************************)
EXTENDS Scheduler, FiniteSetTheorems, WellFoundedInduction, TLAPS

(***************************************************************************)
(* Rows.  Each shape of update that a handler makes yields a row.          *)
(***************************************************************************)

\* A non-empty set of naturals has a least element, which is its Min.
LEMMA MinNat ==
  ASSUME NEW S \in SUBSET Nat, S # {}
  PROVE  Min(S) \in S /\ \A y \in S : Min(S) =< y
<1> DEFINE R == {ss \in Nat \X Nat : ss[1] < ss[2]}
<1>1. OpToRel(<, Nat) = R
  BY DEF OpToRel
<1>2. IsWellFoundedOn(R, Nat)
  BY <1>1, NatLessThanWellFounded
<1>3. PICK x \in S : \A y \in S : ~ (<<y, x>> \in R)
  BY <1>2, WFMin
<1>4. ASSUME NEW y \in S PROVE x =< y
  <2> DEFINE p == <<y, x>>
  <2>1. p \in Nat \X Nat /\ p[1] = y /\ p[2] = x
    OBVIOUS
  <2>2. ~ (p[1] < p[2])
    BY <1>3, <2>1
  <2> QED
    BY <2>1, <2>2
<1> QED
  BY <1>4 DEF Min

\* claim_run's expiry is a time within the grant and all its ancestors.
LEMMA ClaimTtlBound ==
  ASSUME TypeOK, NEW g \in Grants
  PROVE  /\ ClaimTtl(g) \in Nat
         /\ \A a \in Chain[g] : ClaimTtl(g) =< life[a]
<1> DEFINE S == {LeaseTime} \cup {life[a] : a \in Chain[g]}
<1>1. S \in SUBSET Nat /\ S # {}
  BY GrantAssumption, LimitAssumption DEF TypeOK
<1>2. Min(S) \in S /\ \A y \in S : Min(S) =< y
  BY <1>1, MinNat
<1> QED
  BY <1>1, <1>2 DEF ClaimTtl

\* heartbeat_run's expiry is a time within the run's own grant.
LEMMA HeartbeatTtlBound ==
  ASSUME TypeOK, NEW g \in Grants
  PROVE  HeartbeatTtl(g) \in Nat /\ HeartbeatTtl(g) =< life[g]
  BY LimitAssumption DEF TypeOK, HeartbeatTtl, Least

\* append_event extends a log of events.
LEMMA LogType ==
  ASSUME NEW log \in Seq(Events), NEW kind \in EventKinds, NEW lease \in Leases
  PROVE  AppendEvent(log, [kind |-> kind, lease |-> lease]) \in Seq(Events)
  BY DEF AppendEvent, Events

LEMMA EventLogType ==
  ASSUME NEW log \in Seq(Events), NEW kind \in EventKinds
  PROVE  AppendEvent(log, Event(kind)) \in Seq(Events)
<1>1. NoLease \in Leases
  BY DEF NoLease, Leases
<1> QED
  BY <1>1, LogType DEF Event

LEMMA EventForType ==
  ASSUME NEW s \in Terminal \cup {"queued", "retry_wait", "needs_reconciliation"}
  PROVE  EventFor(s) \in EventKinds /\ s \in RunStates
  BY DEF Terminal, EventFor, EventKinds, RunStates

\* reap_one leaves a run queued, deferred, ended or awaiting reconciliation.
LEMMA RecoveredType ==
  ASSUME NEW row, NEW full
  PROVE  Recovered(row, full)
           \in {"queued", "retry_wait", "failed", "cancelled", "needs_reconciliation"}
  BY DEF Recovered

LEMMA RowClaimed ==
  ASSUME NEW old \in Rows, NEW w \in Workers, NEW ttl \in Nat,
         NEW log \in Seq(Events), NEW ep \in Nat, NEW at \in Nat
  PROVE  [old EXCEPT !.state = "leased", !.epoch = ep, !.owner = w,
                     !.ttl = ttl, !.attempt = at, !.held = TRUE,
                     !.log = log] \in Rows
  BY DEF Rows, RunStates

LEMMA RowDenied ==
  ASSUME NEW old \in Rows, NEW log \in Seq(Events)
  PROVE  [old EXCEPT !.state = "failed", !.error = "GRANT_DENIED",
                     !.log = log] \in Rows
  BY DEF Rows, RunStates

LEMMA RowMoved ==
  ASSUME NEW old \in Rows, NEW st \in RunStates, NEW log \in Seq(Events)
  PROVE  [old EXCEPT !.state = st, !.log = log] \in Rows
  BY DEF Rows

LEMMA RowCancelled ==
  ASSUME NEW old \in Rows, NEW log \in Seq(Events)
  PROVE  [old EXCEPT !.cancel = TRUE, !.state = "cancelled", !.log = log] \in Rows
  BY DEF Rows, RunStates

LEMMA RowReleased ==
  ASSUME NEW old \in Rows, NEW st \in RunStates
  PROVE  Released(old, st) \in Rows
  BY DEF Rows, Released

LEMMA RowFinished ==
  ASSUME NEW old \in Rows, NEW out \in Leases,
         NEW err \in {"none", "GRANT_DENIED", "reported"}, NEW log \in Seq(Events)
  PROVE  [old EXCEPT !.output = out, !.error = err, !.log = log] \in Rows
  BY DEF Rows

LEMMA RowRenewal ==
  ASSUME NEW old \in Rows, NEW ttl \in Nat, NEW rn \in Nat \cup {NoRenewal}
  PROVE  /\ [old EXCEPT !.ttl = ttl, !.renewal = rn] \in Rows
         /\ [old EXCEPT !.renewal = rn] \in Rows
  BY DEF Rows

LEMMA RowEffect ==
  ASSUME NEW old \in Rows, NEW o \in Ordinals, NEW to \in EffectStates
  PROVE  [old EXCEPT !.effects[o] = to] \in Rows
  BY DEF Rows

LEMMA RowTicked ==
  ASSUME NEW old \in Rows
  PROVE  [old EXCEPT !.ttl = Dec(@),
                     !.renewal = IF @ = NoRenewal THEN NoRenewal ELSE Dec(@)] \in Rows
<1>1. Dec(old.ttl) \in Nat
  BY DEF Rows, Dec
<1>2. (IF old.renewal = NoRenewal THEN NoRenewal ELSE Dec(old.renewal))
        \in Nat \cup {NoRenewal}
  BY DEF Rows, Dec
<1> QED
  BY <1>1, <1>2, RowRenewal

LEMMA RowNew ==
  ASSUME NEW t \in Tenants, NEW k \in Keys, NEW q \in Requests
  PROVE  NewRow(t, k, q) \in Rows
<1>1. q.grant \in Grants /\ q.module \in Modules
  BY GrantAssumption
<1>2. NoLease \in Leases
  BY DEF NoLease, Leases
<1>3. <<Event("run.admitted")>> \in Seq(Events)
  BY <1>2 DEF Event, Events, EventKinds
<1> QED
  BY <1>1, <1>2, <1>3 DEF NewRow, Rows, RunStates
(***************************************************************************)
(* Steps.  A handler changes one row, and the row it writes is a row.      *)
(***************************************************************************)

\* Replacing one row leaves the table's size and its other rows alone.
LEMMA ReplaceRow ==
  ASSUME TypeOK, NEW r \in RunIds, NEW row \in Rows, Replace(r, row)
  PROVE  /\ runs' \in Seq(Rows) /\ Len(runs') = Len(runs) /\ RunIds' = RunIds
         /\ runs'[r] = row
         /\ \A q \in RunIds : q # r => runs'[q] = runs[q]
  BY DEF TypeOK, Replace, RunIds

LEMMA RowOfRun ==
  ASSUME TypeOK, NEW r \in RunIds
  PROVE  /\ runs[r] \in Rows /\ runs[r].log \in Seq(Events)
         /\ runs[r].tenant \in Tenants /\ runs[r].grant \in Grants
         /\ runs[r].attempt \in Nat /\ runs[r].attempt =< MaxAttempts
<1>1. runs[r] \in Rows /\ runs[r].attempt =< MaxAttempts
  BY DEF TypeOK, RunIds
<1> QED
  BY <1>1 DEF Rows

\* The tenants' counters and limits are numbers.
LEMMA CounterTypes ==
  ASSUME TypeOK, NEW t \in Tenants
  PROVE  /\ activeCount[t] \in Nat /\ activeCount[t] =< ActiveLimit[t]
         /\ ActiveLimit[t] \in Nat /\ ActiveLimit[t] >= 1
         /\ QueueLimit[t] \in Nat /\ QueueLimit[t] >= 1
         /\ lastServed[t] \in Nat
<1>1. activeCount \in [Tenants -> Nat] /\ lastServed \in [Tenants -> Nat]
  BY DEF TypeOK
<1>2. activeCount[t] =< ActiveLimit[t]
  BY DEF TypeOK
<1>3. ActiveLimit \in [Tenants -> 1..4] /\ QueueLimit \in [Tenants -> 1..1000]
  BY TenantAssumption
<1>4. ActiveLimit[t] \in 1..4 /\ QueueLimit[t] \in 1..1000
  BY <1>3
<1>5. activeCount[t] \in Nat /\ lastServed[t] \in Nat
  BY <1>1
<1> QED
  BY <1>2, <1>4, <1>5

\* Replacing a row by a row within its attempts keeps the table typed.
LEMMA TypeReplace ==
  ASSUME TypeOK, NEW r \in RunIds, NEW row \in Rows, Replace(r, row),
         row.attempt =< MaxAttempts
  PROVE  /\ runs' \in Seq(Rows) /\ Len(runs') =< MaxRuns
         /\ \A q \in RunIds' : runs'[q].attempt =< MaxAttempts
         /\ RunIds' = RunIds
  BY ReplaceRow DEF TypeOK

LEMMA ClaimDeniedType ==
  ASSUME TypeOK, NEW w \in Workers, ClaimDenied(w)
  PROVE  TypeOK'
<1> DEFINE log(r) == AppendEvent(AppendEvent(runs[r].log, Event("grant.denied")),
                                 Event("run.failed"))
           new(r) == [runs[r] EXCEPT !.state = "failed", !.error = "GRANT_DENIED",
                                     !.log = log(r)]
<1>1. PICK r \in RunIds : Replace(r, new(r))
  BY DEF ClaimDenied
<1>2. log(r) \in Seq(Events)
  BY RowOfRun, EventLogType DEF EventKinds
<1>3. new(r) \in Rows
  BY <1>2, RowOfRun, RowDenied
<1>4. new(r).attempt =< MaxAttempts
  BY RowOfRun DEF Rows
<1> HIDE DEF new
<1> QED
  BY <1>1, <1>3, <1>4, TypeReplace DEF ClaimDenied, TypeOK

LEMMA ClaimGrantedRow ==
  ASSUME TypeOK, NEW w \in Workers, NEW r \in RunIds
  PROVE  LET row == runs[r]
         IN [row EXCEPT
              !.state = "leased", !.epoch = @ + 1, !.owner = w,
              !.ttl = ClaimTtl(row.grant), !.attempt = @ + 1, !.held = TRUE,
              !.log = AppendEvent(@, [kind |-> "lease.claimed",
                                      lease |-> <<row.epoch + 1, w>>])] \in Rows
<1>1. runs[r].epoch + 1 \in Nat /\ runs[r].attempt + 1 \in Nat
  BY RowOfRun DEF Rows
<1>2. <<runs[r].epoch + 1, w>> \in Leases
  BY <1>1 DEF Leases
<1>3. AppendEvent(runs[r].log, [kind |-> "lease.claimed",
                                lease |-> <<runs[r].epoch + 1, w>>]) \in Seq(Events)
  BY <1>2, RowOfRun, LogType DEF EventKinds
<1>4. ClaimTtl(runs[r].grant) \in Nat
  BY RowOfRun, ClaimTtlBound
<1> QED
  BY <1>1, <1>3, <1>4, RowOfRun, RowClaimed

LEMMA ClaimGrantedType ==
  ASSUME TypeOK, NEW w \in Workers, ClaimGranted(w)
  PROVE  TypeOK'
<1> DEFINE new(r) ==
      [runs[r] EXCEPT
        !.state = "leased", !.epoch = @ + 1, !.owner = w,
        !.ttl = ClaimTtl(runs[r].grant), !.attempt = @ + 1, !.held = TRUE,
        !.log = AppendEvent(@, [kind |-> "lease.claimed",
                                lease |-> <<runs[r].epoch + 1, w>>])]
<1>1. PICK r \in RunIds :
        /\ Candidate(w, r)
        /\ dispatchSeq' = dispatchSeq + 1
        /\ activeCount' = [activeCount EXCEPT ![runs[r].tenant] = @ + 1]
        /\ lastServed' = [lastServed EXCEPT ![runs[r].tenant] = dispatchSeq + 1]
        /\ Replace(r, new(r))
  BY DEF ClaimGranted
<1>2. new(r) \in Rows
  BY ClaimGrantedRow
<1>3. new(r).attempt =< MaxAttempts
  BY <1>1, RowOfRun, LimitAssumption DEF Candidate, Claimable, Rows
<1>4. activeCount[runs[r].tenant] < ActiveLimit[runs[r].tenant]
  <2>1. activeCount[runs[r].tenant] < Least(ActiveLimit[runs[r].tenant], 1)
    BY <1>1 DEF Candidate, Eligible, MaxActivePerTenant
  <2> QED
    BY <2>1, RowOfRun, CounterTypes DEF Least
<1> HIDE DEF new
<1>5. /\ runs' \in Seq(Rows) /\ Len(runs') =< MaxRuns /\ RunIds' = RunIds
      /\ \A q \in RunIds' : runs'[q].attempt =< MaxAttempts
  BY <1>1, <1>2, <1>3, TypeReplace
<1>6. /\ activeCount' \in [Tenants -> Nat]
      /\ \A t \in Tenants : activeCount'[t] =< ActiveLimit[t]
      /\ lastServed' \in [Tenants -> Nat] /\ dispatchSeq' \in Nat
  <2> DEFINE u == runs[r].tenant
  <2>1. u \in Tenants
    BY RowOfRun
  <2>2. activeCount \in [Tenants -> Nat] /\ lastServed \in [Tenants -> Nat]
        /\ dispatchSeq \in Nat
    BY DEF TypeOK
  <2>3. /\ activeCount' = [activeCount EXCEPT ![u] = @ + 1]
        /\ lastServed' = [lastServed EXCEPT ![u] = dispatchSeq + 1]
        /\ dispatchSeq' = dispatchSeq + 1 /\ activeCount[u] < ActiveLimit[u]
    BY <1>1, <1>4
  <2> HIDE DEF u
  <2>4. ASSUME NEW t \in Tenants PROVE activeCount'[t] =< ActiveLimit[t]
    BY <2>1, <2>2, <2>3, CounterTypes
  <2> QED
    BY <2>1, <2>2, <2>3, <2>4
<1> QED
  BY <1>5, <1>6 DEF ClaimGranted, TypeOK

\* Giving a slot back keeps the counters within their limits.
LEMMA ReleaseSlotType ==
  ASSUME TypeOK, NEW t \in Tenants, activeCount[t] > 0, ReleaseSlot(t)
  PROVE  /\ activeCount' \in [Tenants -> Nat]
         /\ \A u \in Tenants : activeCount'[u] =< ActiveLimit[u]
<1>1. activeCount \in [Tenants -> Nat]
  BY DEF TypeOK
<1>2. ASSUME NEW u \in Tenants PROVE activeCount'[u] =< ActiveLimit[u]
  BY <1>1, CounterTypes DEF ReleaseSlot
<1> QED
  BY <1>1, <1>2 DEF ReleaseSlot

LEMMA FinishRow ==
  ASSUME TypeOK, NEW r \in RunIds, NEW w \in Workers, NEW e \in Nat,
         NEW result, NEW st \in Terminal
  PROVE  /\ [Released(runs[r], st) EXCEPT
              !.output = IF result = "output" THEN <<e, w>> ELSE NoLease,
              !.error = IF result = "error" THEN "reported" ELSE "none",
              !.log = AppendEvent(@, Event(EventFor(st)))] \in Rows
<1>1. Released(runs[r], st) \in Rows /\ Released(runs[r], st).log \in Seq(Events)
  <2>1. Released(runs[r], st) \in Rows
    BY RowOfRun, EventForType, RowReleased
  <2> QED
    BY <2>1 DEF Rows
<1>2. AppendEvent(Released(runs[r], st).log, Event(EventFor(st))) \in Seq(Events)
  BY <1>1, EventForType, EventLogType
<1>3. (IF result = "output" THEN <<e, w>> ELSE NoLease) \in Leases
  BY DEF Leases, NoLease
<1>4. (IF result = "error" THEN "reported" ELSE "none")
        \in {"none", "GRANT_DENIED", "reported"}
  OBVIOUS
<1> QED
  BY <1>1, <1>2, <1>3, <1>4, RowFinished

LEMMA FinishType ==
  ASSUME TypeOK, NEW w \in Workers, NEW r \in RunIds, NEW e \in Nat,
         NEW result, Finish(w, r, e, result)
  PROVE  TypeOK'
<1> DEFINE st == IF runs[r].cancel THEN "cancelled"
                 ELSE IF result = "error" THEN "failed" ELSE "succeeded"
           new == [Released(runs[r], st) EXCEPT
                    !.output = IF result = "output" THEN <<e, w>> ELSE NoLease,
                    !.error = IF result = "error" THEN "reported" ELSE "none",
                    !.log = AppendEvent(@, Event(EventFor(st)))]
<1>1. st \in Terminal
  BY DEF Terminal
<1>2. Replace(r, new)
  BY DEF Finish
<1> HIDE DEF st
<1>3. new \in Rows
  BY <1>1, FinishRow
<1>4. new.attempt =< MaxAttempts
  BY RowOfRun DEF Rows, Released
<1> HIDE DEF new
<1> QED
  BY <1>2, <1>3, <1>4, TypeReplace, ReleaseSlotType, RowOfRun DEF Finish, TypeOK

LEMMA ReapRow ==
  ASSUME TypeOK, NEW r \in RunIds,
         NEW st \in Terminal \cup {"queued", "retry_wait", "needs_reconciliation"}
  PROVE  /\ [Released(runs[r], st) EXCEPT
              !.log = AppendEvent(AppendEvent(@,
                        Event("lease.expired")), Event(EventFor(st)))] \in Rows
<1>1. Released(runs[r], st) \in Rows
  BY RowOfRun, EventForType, RowReleased
<1>2. Released(runs[r], st).log \in Seq(Events)
  BY <1>1 DEF Rows
<1>3. AppendEvent(AppendEvent(Released(runs[r], st).log,
        Event("lease.expired")), Event(EventFor(st))) \in Seq(Events)
  BY <1>2, EventForType, EventLogType DEF EventKinds
<1>4. ASSUME NEW old \in Rows, NEW log \in Seq(Events)
      PROVE  [old EXCEPT !.log = log] \in Rows
  BY DEF Rows
<1> QED
  BY <1>1, <1>3, <1>4

LEMMA ReapExpiredType ==
  ASSUME TypeOK, ReapExpired
  PROVE  TypeOK'
<1> DEFINE r == reaping
           st == Recovered(runs[r], \/ reapPending >= MaxPendingGlobal
                                    \/ TenantQueueFull(runs[r].tenant))
           new == [Released(runs[r], st) EXCEPT
                    !.log = AppendEvent(AppendEvent(@,
                              Event("lease.expired")), Event(EventFor(st)))]
<1>1. r \in RunIds
  BY DEF ReapExpired, SchedulerFree, TypeOK
<1>2. st \in Terminal \cup {"queued", "retry_wait", "needs_reconciliation"}
  BY RecoveredType DEF Terminal
<1>3. Replace(r, new)
  BY DEF ReapExpired
<1> HIDE DEF st
<1>4. new \in Rows
  BY <1>1, <1>2, ReapRow
<1>5. new.attempt =< MaxAttempts
  BY <1>1, RowOfRun DEF Rows, Released
<1> HIDE DEF new
<1> QED
  BY <1>1, <1>3, <1>4, <1>5, TypeReplace, ReleaseSlotType, RowOfRun
  DEF ReapExpired, TypeOK

LEMMA MoveRow ==
  ASSUME TypeOK, NEW r \in RunIds, NEW st \in RunStates, NEW kind \in EventKinds
  PROVE  /\ [runs[r] EXCEPT !.state = st, !.log = AppendEvent(@, Event(kind))] \in Rows
         /\ [runs[r] EXCEPT !.cancel = TRUE, !.state = "cancelled",
                            !.log = AppendEvent(@, Event(kind))] \in Rows
  BY RowOfRun, EventLogType, RowMoved, RowCancelled

LEMMA ReapPromoteType ==
  ASSUME TypeOK, ReapPromote
  PROVE  TypeOK'
<1> DEFINE st(r) == Recovered(runs[r], FALSE)
           new(r) == [runs[r] EXCEPT !.state = st(r),
                        !.log = AppendEvent(@, Event(EventFor(st(r))))]
<1>1. PICK r \in RunIds : Replace(r, new(r))
  BY DEF ReapPromote
<1>2. st(r) \in RunStates /\ EventFor(st(r)) \in EventKinds
  BY RecoveredType, EventForType DEF Terminal
<1> HIDE DEF st
<1>3. new(r) \in Rows
  BY <1>2, MoveRow
<1>4. new(r).attempt =< MaxAttempts
  BY RowOfRun DEF Rows
<1> HIDE DEF new
<1> QED
  BY <1>1, <1>3, <1>4, TypeReplace DEF ReapPromote, TypeOK

LEMMA AdmitType ==
  ASSUME TypeOK, NEW t \in Tenants, NEW k \in Keys, NEW q \in Requests,
         Admit(t, k, q)
  PROVE  /\ TypeOK'
         /\ Len(runs') = Len(runs) + 1 /\ runs'[Len(runs')] = NewRow(t, k, q)
         /\ RunIds' = RunIds \cup {Len(runs')} /\ Len(runs') \notin RunIds
         /\ \A r \in RunIds : runs'[r] = runs[r]
<1> DEFINE new == NewRow(t, k, q)
<1>1. new \in Rows
  BY RowNew
<1>2. new.attempt = 0
  BY DEF NewRow
<1> HIDE DEF new
<1>3. runs \in Seq(Rows) /\ runs' = Append(runs, new) /\ Len(runs) < MaxRuns
  BY DEF Admit, TypeOK, new
<1>4. /\ runs' \in Seq(Rows) /\ Len(runs') = Len(runs) + 1
      /\ runs'[Len(runs')] = new
      /\ RunIds' = RunIds \cup {Len(runs')} /\ Len(runs') \notin RunIds
      /\ \A r \in RunIds : runs'[r] = runs[r]
  BY <1>1, <1>3 DEF RunIds
<1>5. \A r \in RunIds' : runs'[r].attempt =< MaxAttempts
  <2>1. 0 =< MaxAttempts
    BY LimitAssumption
  <2> QED
    BY <2>1, <1>2, <1>4, RowOfRun
<1>6. Len(runs') =< MaxRuns
  BY <1>3, <1>4, LimitAssumption
<1>7. reaping' \in RunIds' \cup {0}
  BY <1>4 DEF Admit, TypeOK
<1> QED
  BY <1>4, <1>5, <1>6, <1>7 DEF Admit, TypeOK, new

LEMMA CancelType ==
  ASSUME TypeOK, NEW r \in RunIds, Cancel(r)
  PROVE  TypeOK'
<1> DEFINE flagged == [runs[r] EXCEPT !.cancel = TRUE]
           ended == [runs[r] EXCEPT !.cancel = TRUE, !.state = "cancelled",
                       !.log = AppendEvent(@, Event("run.cancelled"))]
<1>1. flagged \in Rows /\ flagged.attempt =< MaxAttempts
  BY RowOfRun DEF Rows
<1>2. ended \in Rows
  <2>1. AppendEvent(runs[r].log, Event("run.cancelled")) \in Seq(Events)
    BY RowOfRun, EventLogType DEF EventKinds
  <2> QED
    BY <2>1, RowOfRun, RowCancelled
<1>3. ended.attempt =< MaxAttempts
  BY RowOfRun DEF Rows
<1>4. Replace(r, flagged) \/ Replace(r, ended)
  BY DEF Cancel
<1> HIDE DEF flagged, ended
<1> QED
  BY <1>1, <1>2, <1>3, <1>4, TypeReplace DEF Cancel, TypeOK

LEMMA HeartbeatType ==
  ASSUME TypeOK, NEW r \in RunIds,
         \/ \E w \in Workers, e \in Nat : HeartbeatUpdate(w, r, e)
         \/ HeartbeatCommit(r)
         \/ HeartbeatAbort(r)
  PROVE  TypeOK'
<1> DEFINE updated == [runs[r] EXCEPT !.renewal = HeartbeatTtl(runs[r].grant)]
           committed == [runs[r] EXCEPT !.ttl = runs[r].renewal,
                                        !.renewal = NoRenewal]
           aborted == [runs[r] EXCEPT !.renewal = NoRenewal]
<1>1. updated \in Rows /\ aborted \in Rows
  <2>1. HeartbeatTtl(runs[r].grant) \in Nat /\ runs[r] \in Rows
    BY RowOfRun, HeartbeatTtlBound
  <2>2. 0 \in Nat
    OBVIOUS
  <2> QED
    BY <2>1, <2>2, RowRenewal
<1>2. HeartbeatCommit(r) => committed \in Rows
  <2>1. HeartbeatCommit(r) => runs[r].renewal \in Nat
    BY RowOfRun DEF HeartbeatCommit, Unlocked, Rows
  <2> QED
    BY <2>1, RowOfRun, RowRenewal
<1>3. /\ updated.attempt =< MaxAttempts /\ aborted.attempt =< MaxAttempts
      /\ committed.attempt =< MaxAttempts
  BY RowOfRun DEF Rows
<1>4. \/ Replace(r, updated)
      \/ Replace(r, committed) /\ HeartbeatCommit(r)
      \/ Replace(r, aborted)
  BY DEF HeartbeatUpdate, HeartbeatCommit, HeartbeatAbort
<1> HIDE DEF updated, committed, aborted
<1>5. /\ runs' \in Seq(Rows) /\ Len(runs') =< MaxRuns /\ RunIds' = RunIds
      /\ \A q \in RunIds' : runs'[q].attempt =< MaxAttempts
  BY <1>1, <1>2, <1>3, <1>4, TypeReplace
<1> QED
  BY <1>5 DEF HeartbeatUpdate, HeartbeatCommit, HeartbeatAbort, TypeOK

LEMMA StartedType ==
  ASSUME TypeOK, NEW w \in Workers, NEW r \in RunIds, NEW e, Started(w, r, e)
  PROVE  TypeOK'
<1> DEFINE new == [runs[r] EXCEPT !.state = "running",
                     !.log = AppendEvent(@, Event("runner.started"))]
<1>1. new \in Rows
  BY MoveRow DEF EventKinds, RunStates
<1>2. new.attempt =< MaxAttempts
  BY RowOfRun DEF Rows
<1>3. Replace(r, new)
  BY DEF Started
<1> HIDE DEF new
<1> QED
  BY <1>1, <1>2, <1>3, TypeReplace DEF Started, TypeOK

LEMMA BrokerType ==
  ASSUME TypeOK, NEW r \in RunIds, NEW o \in Ordinals, NEW to \in EffectStates,
         BrokerSend(r, o, to) \/ BrokerResolve(r, o, to)
  PROVE  TypeOK'
<1> DEFINE new == [runs[r] EXCEPT !.effects[o] = to]
<1>1. new \in Rows
  BY RowOfRun, RowEffect
<1>2. new.attempt =< MaxAttempts
  BY RowOfRun DEF Rows
<1>3. Replace(r, new)
  BY DEF BrokerSend, BrokerResolve
<1> HIDE DEF new
<1> QED
  BY <1>1, <1>2, <1>3, TypeReplace DEF BrokerSend, BrokerResolve, TypeOK

LEMMA TickType ==
  ASSUME TypeOK, Tick
  PROVE  /\ TypeOK' /\ RunIds' = RunIds
         /\ \A r \in RunIds : runs'[r] =
              [runs[r] EXCEPT
                !.ttl = Dec(@),
                !.renewal = IF @ = NoRenewal THEN NoRenewal ELSE Dec(@)]
<1> DEFINE new(r) == [runs[r] EXCEPT
                       !.ttl = Dec(@),
                       !.renewal = IF @ = NoRenewal THEN NoRenewal ELSE Dec(@)]
<1>1. \A r \in RunIds : new(r) \in Rows
  BY RowOfRun, RowTicked
<1>2. \A r \in RunIds : new(r).attempt =< MaxAttempts
  BY RowOfRun DEF Rows
<1>3. runs' = [r \in RunIds |-> new(r)]
  BY DEF Tick
<1> HIDE DEF new
<1>4. runs \in Seq(Rows) /\ RunIds = 1..Len(runs) /\ Len(runs) \in Nat
  BY DEF TypeOK, RunIds
<1>5. runs' \in Seq(Rows) /\ Len(runs') = Len(runs) /\ RunIds' = RunIds
  BY <1>1, <1>3, <1>4 DEF RunIds
<1>6. \A r \in RunIds : runs'[r] = new(r)
  BY <1>3
<1>7. \A g \in Grants : Dec(life[g]) \in Nat
  BY DEF TypeOK, Dec
<1>8. life' \in [Grants -> Nat]
  BY <1>7 DEF Tick, TypeOK
<1>9. TypeOK'
  BY <1>2, <1>5, <1>6, <1>8 DEF Tick, TypeOK
<1> QED
  BY <1>5, <1>6, <1>9 DEF new

\* PutModule, Revoke, and the steps of reap_one that write no row.
LEMMA RowlessType ==
  ASSUME TypeOK,
         \/ \E t \in Tenants, m \in Modules : PutModule(t, m)
         \/ \E g \in Revocable : Revoke(g)
         \/ ReapSelect \/ ReapRenewed \/ ReapAbort
  PROVE  TypeOK' /\ UNCHANGED runs
<1>1. CASE \E t \in Tenants, m \in Modules : PutModule(t, m)
  BY <1>1 DEF PutModule, TypeOK, RunIds
<1>2. CASE \E g \in Revocable : Revoke(g)
  BY <1>2, GrantAssumption DEF Revoke, TypeOK, RunIds
<1>3. CASE ReapSelect
  <2>1. Cardinality(InState({"queued"})) \in Nat
    <3>1. IsFiniteSet(RunIds)
      BY FS_Interval DEF TypeOK, RunIds
    <3> QED
      BY <3>1, FS_Subset, FS_CardinalityType DEF InState
  <2> QED
    BY <1>3, <2>1 DEF ReapSelect, TypeOK, RunIds
<1>4. CASE ReapRenewed \/ ReapAbort
  BY <1>4 DEF ReapRenewed, ReapAbort, TypeOK, RunIds
<1> QED
  BY <1>1, <1>2, <1>3, <1>4

LEMMA InitTyped ==
  ASSUME Init
  PROVE  TypeOK
<1>1. runs \in Seq(Rows) /\ RunIds = {} /\ Len(runs) = 0
  BY DEF Init, RunIds
<1>2. ActiveLimit \in [Tenants -> 1..4] /\ activeCount = [t \in Tenants |-> 0]
  BY TenantAssumption DEF Init
<1>3. /\ activeCount \in [Tenants -> Nat] /\ lastServed \in [Tenants -> Nat]
      /\ \A t \in Tenants : activeCount[t] =< ActiveLimit[t]
  BY <1>2 DEF Init
<1> QED
  BY <1>1, <1>3, GrantAssumption, LimitAssumption DEF Init, TypeOK

\* Every column keeps its type and the schema's CHECK constraints hold,
\* whatever clients, workers, the sweeper, the broker and the clock do.
THEOREM TypeCorrect == Spec => []TypeOK
<1>1. Init => TypeOK
  BY InitTyped
<1>2. TypeOK /\ [Next]_vars => TypeOK'
  <2> SUFFICES ASSUME TypeOK, Next PROVE TypeOK'
    BY DEF vars, TypeOK, RunIds
  <2>1. CASE Client
    BY <2>1, RowlessType, AdmitType, CancelType DEF Client
  <2>2. ASSUME NEW w \in Workers, Worker(w) PROVE TypeOK'
    <3>1. \A r \in RunIds : \A e \in 1..runs[r].epoch : e \in Nat
      BY RowOfRun DEF Rows
    <3> QED
      BY <2>2, <3>1, ClaimDeniedType, ClaimGrantedType, HeartbeatType,
         StartedType, FinishType DEF Worker
  <2>3. CASE \E r \in RunIds : HeartbeatCommit(r) \/ HeartbeatAbort(r)
    BY <2>3, HeartbeatType
  <2>4. CASE Sweeper
    BY <2>4, ReapPromoteType, ReapExpiredType, RowlessType DEF Sweeper
  <2>5. CASE Broker
    BY <2>5, BrokerType DEF Broker
  <2>6. CASE Tick
    BY <2>6, TickType
  <2> QED
    BY <2>1, <2>2, <2>3, <2>4, <2>5, <2>6 DEF Next
<1> QED
  BY <1>1, <1>2, PTL DEF Spec
=============================================================================
