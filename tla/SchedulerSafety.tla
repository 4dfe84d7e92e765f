--------------------------- MODULE SchedulerSafety ---------------------------
(***************************************************************************)
(* The safety properties of Scheduler, proved.  First each handler is      *)
(* reduced to what it does to one row (ten shapes); then the invariants,   *)
(* and the refinement of RunLifecycle, follow shape by shape.              *)
(***************************************************************************)
EXTENDS SchedulerProofs

(***************************************************************************)
(* What a handler does to the row it writes, column by column.             *)
(***************************************************************************)

SameRun(a, b) == b.tenant = a.tenant /\ b.key = a.key /\ b.grant = a.grant
SameLease(a, b) ==
  b.held = a.held /\ b.owner = a.owner /\ b.epoch = a.epoch /\ b.attempt = a.attempt
SameTime(a, b) == b.ttl = a.ttl /\ b.renewal = a.renewal
SameWork(a, b) == b.output = a.output /\ b.effects = a.effects

\* The log names a claim of the lease.
HasClaim(log, lease) ==
  \E i \in DOMAIN log : log[i].kind = "lease.claimed" /\ log[i].lease = lease
KeepsClaims(a, b) == \A l \in Leases : HasClaim(a.log, l) => HasClaim(b.log, l)

\* The epochs the log records a claim of, and the kind of its last event.
ClaimEpochs(log) ==
  {log[i].lease[1] : i \in {j \in DOMAIN log : log[j].kind = "lease.claimed"}}
LastKind(log) == log[Len(log)].kind

\* A step that claims nothing ends the log with an event of the new state.
Tells(a, b) ==
  ClaimEpochs(b.log) = ClaimEpochs(a.log) /\ LastKind(b.log) \in LastKinds(b.state)

\* Columns that no handler but the claim, the heartbeat and the release touch.
Moved(a, b) ==
  /\ SameRun(a, b) /\ SameLease(a, b) /\ SameTime(a, b) /\ SameWork(a, b)
  /\ KeepsClaims(a, b)

Flagged(a, b) ==
  /\ a.state \in {"leased", "running", "retry_wait"}
  /\ Moved(a, b) /\ b.state = a.state /\ b.log = a.log

Withdrawn(a, b) ==
  a.state = "queued" /\ Moved(a, b) /\ Tells(a, b) /\ b.state = "cancelled"

Denied(a, b) ==
  a.state = "queued" /\ Moved(a, b) /\ Tells(a, b) /\ b.state = "failed"

Claimed(a, b, w) ==
  /\ a.state = "queued" /\ a.attempt < MaxAttempts
  /\ SameRun(a, b) /\ SameWork(a, b) /\ KeepsClaims(a, b)
  /\ b.state = "leased" /\ b.held = TRUE /\ b.owner = w
  /\ b.epoch = a.epoch + 1 /\ b.attempt = a.attempt + 1
  /\ b.renewal = a.renewal /\ b.ttl = ClaimTtl(a.grant)
  /\ HasClaim(b.log, <<b.epoch, w>>)
  /\ ClaimEpochs(b.log) = ClaimEpochs(a.log) \cup {b.epoch}
  /\ LastKind(b.log) = "lease.claimed"

Renewed(a, b) ==
  /\ SameRun(a, b) /\ SameLease(a, b) /\ SameWork(a, b) /\ KeepsClaims(a, b)
  /\ b.state = a.state /\ b.cancel = a.cancel /\ b.log = a.log
  /\ \/ a.held /\ b.ttl = a.ttl /\ b.renewal = HeartbeatTtl(a.grant)
     \/ a.renewal # NoRenewal /\ b.ttl = a.renewal /\ b.renewal = NoRenewal
     \/ a.renewal # NoRenewal /\ b.ttl = a.ttl /\ b.renewal = NoRenewal

Begun(a, b) ==
  /\ a.state = "leased" /\ Moved(a, b) /\ Tells(a, b)
  /\ b.cancel = a.cancel /\ b.state = "running"

Ended(a, b) ==
  /\ a.held /\ a.state = "running" /\ a.renewal = NoRenewal /\ ~Unfinished(a)
  /\ SameRun(a, b) /\ b.effects = a.effects /\ KeepsClaims(a, b) /\ Tells(a, b)
  /\ b.state \in Terminal
  /\ b.held = FALSE /\ b.owner = NoWorker /\ b.epoch = a.epoch
  /\ b.ttl = 0 /\ b.renewal = a.renewal
  /\ \/ b.output = NoLease
     \/ b.output = <<a.epoch, a.owner>> /\ b.state \in {"succeeded", "cancelled"}

Reaped(a, b) ==
  /\ a.held /\ a.ttl = 0 /\ a.renewal = NoRenewal
  /\ SameRun(a, b) /\ SameWork(a, b) /\ KeepsClaims(a, b) /\ Tells(a, b)
  /\ b.cancel = a.cancel /\ b.attempt = a.attempt
  /\ \E full \in BOOLEAN : b.state = Recovered(a, full)
  /\ b.held = FALSE /\ b.owner = NoWorker /\ b.epoch = a.epoch
  /\ b.ttl = 0 /\ b.renewal = a.renewal

Promoted(a, b) ==
  /\ a.state = "retry_wait" /\ Moved(a, b) /\ Tells(a, b) /\ b.cancel = a.cancel
  /\ b.state = Recovered(a, FALSE)

Effected(a, b) ==
  /\ SameRun(a, b) /\ SameLease(a, b) /\ SameTime(a, b) /\ KeepsClaims(a, b)
  /\ b.output = a.output /\ b.state = a.state /\ b.cancel = a.cancel
  /\ b.log = a.log
  /\ \E o \in Ordinals, to \in EffectStates :
       /\ b.effects = [a.effects EXCEPT ![o] = to]
       /\ \/ a.state = "running" /\ a.effects[o] = "NONE" /\ to = "PREPARED"
          \/ /\ a.state = "running" /\ to = "DISPATCHING"
             /\ EffectTransition(a.effects[o], to, FALSE, TRUE)
          \/ to # "DISPATCHING" /\ EffectTransition(a.effects[o], to, TRUE, FALSE)

\* One row is written, the others stay.
Writes(r) ==
  /\ RunIds' = RunIds
  /\ \A q \in RunIds : q # r => runs'[q] = runs[q]

LEMMA AppendKeepsClaims ==
  ASSUME NEW log \in Seq(Events), NEW ev \in Events, NEW l
  PROVE  /\ HasClaim(log, l) => HasClaim(AppendEvent(log, ev), l)
         /\ ev.kind = "lease.claimed" => HasClaim(AppendEvent(log, ev), ev.lease)
<1> DEFINE new == Append(log, ev)
<1>1. /\ Len(new) = Len(log) + 1 /\ DOMAIN new = 1..Len(new) /\ new[Len(new)] = ev
      /\ DOMAIN log = 1..Len(log) /\ \A i \in 1..Len(log) : new[i] = log[i]
      /\ Len(log) \in Nat
  OBVIOUS
<1>2. Len(new) \in DOMAIN new /\ DOMAIN log \subseteq DOMAIN new
  BY <1>1
<1> HIDE DEF new
<1>3. AppendEvent(log, ev) = new
  BY DEF AppendEvent, new
<1> QED
  BY <1>1, <1>2, <1>3 DEF HasClaim

LEMMA EventAppendKeepsClaims ==
  ASSUME NEW log \in Seq(Events), NEW kind \in EventKinds, NEW l
  PROVE  HasClaim(log, l) => HasClaim(AppendEvent(log, Event(kind)), l)
<1>1. Event(kind) \in Events
  BY DEF Event, Events, NoLease, Leases
<1> QED
  BY <1>1, AppendKeepsClaims

\* What an appended event adds to the claims of the log.
LEMMA AppendTells ==
  ASSUME NEW log \in Seq(Events), NEW ev \in Events
  PROVE  /\ LastKind(AppendEvent(log, ev)) = ev.kind
         /\ ev.kind # "lease.claimed" =>
              ClaimEpochs(AppendEvent(log, ev)) = ClaimEpochs(log)
         /\ ev.kind = "lease.claimed" =>
              ClaimEpochs(AppendEvent(log, ev)) = ClaimEpochs(log) \cup {ev.lease[1]}
<1> DEFINE new == Append(log, ev)
           n == Len(log)
<1>1. /\ n \in Nat /\ DOMAIN log = 1..n /\ Len(new) = n + 1
      /\ DOMAIN new = 1..(n + 1) /\ new[n + 1] = ev
      /\ \A i \in 1..n : new[i] = log[i]
  OBVIOUS
<1>2. AppendEvent(log, ev) = new
  BY DEF AppendEvent
<1> HIDE DEF new, n
<1>3. LastKind(new) = ev.kind
  BY <1>1 DEF LastKind
<1>4. DOMAIN new = DOMAIN log \cup {n + 1} /\ n + 1 \notin DOMAIN log
  BY <1>1
<1>5. \A i \in DOMAIN log : new[i] = log[i]
  BY <1>1
<1>6. ASSUME ev.kind # "lease.claimed" PROVE ClaimEpochs(new) = ClaimEpochs(log)
  <2>1. {j \in DOMAIN new : new[j].kind = "lease.claimed"}
          = {j \in DOMAIN log : log[j].kind = "lease.claimed"}
    BY <1>1, <1>4, <1>5, <1>6
  <2> QED
    BY <1>5, <2>1 DEF ClaimEpochs
<1>7. ASSUME ev.kind = "lease.claimed"
      PROVE  ClaimEpochs(new) = ClaimEpochs(log) \cup {ev.lease[1]}
  <2>1. {j \in DOMAIN new : new[j].kind = "lease.claimed"}
          = {j \in DOMAIN log : log[j].kind = "lease.claimed"} \cup {n + 1}
    BY <1>1, <1>4, <1>5, <1>7
  <2> QED
    BY <1>1, <1>5, <2>1 DEF ClaimEpochs
<1> QED
  BY <1>2, <1>3, <1>6, <1>7

LEMMA EventAppendTells ==
  ASSUME NEW log \in Seq(Events), NEW kind \in EventKinds, kind # "lease.claimed"
  PROVE  /\ LastKind(AppendEvent(log, Event(kind))) = kind
         /\ ClaimEpochs(AppendEvent(log, Event(kind))) = ClaimEpochs(log)
<1>1. Event(kind) \in Events /\ Event(kind).kind = kind
  BY DEF Event, Events, NoLease, Leases
<1> QED
  BY <1>1, AppendTells

\* The event of the state a run ends or waits in tells that state.
LEMMA EventForTells ==
  ASSUME NEW st \in Terminal \cup {"queued", "retry_wait", "needs_reconciliation"}
  PROVE  EventFor(st) \in LastKinds(st) /\ EventFor(st) # "lease.claimed"
  BY DEF EventFor, LastKinds, Terminal

(***************************************************************************)
(* Each handler has its shape.                                             *)
(***************************************************************************)

LEMMA ShapeCancel ==
  ASSUME TypeOK, NEW r \in RunIds, Cancel(r)
  PROVE  /\ Writes(r)
         /\ Flagged(runs[r], runs'[r]) \/ Withdrawn(runs[r], runs'[r])
<1> DEFINE a == runs[r]
           flagged == [a EXCEPT !.cancel = TRUE]
           log == AppendEvent(a.log, Event("run.cancelled"))
           ended == [a EXCEPT !.cancel = TRUE, !.state = "cancelled", !.log = log]
<1>1. a \in Rows /\ a.log \in Seq(Events)
  BY RowOfRun
<1>2. log \in Seq(Events) /\ \A l : HasClaim(a.log, l) => HasClaim(log, l)
  BY <1>1, EventLogType, EventAppendKeepsClaims DEF EventKinds
<1>3. ClaimEpochs(log) = ClaimEpochs(a.log) /\ LastKind(log) \in LastKinds("cancelled")
  BY <1>1, EventAppendTells DEF EventKinds, LastKinds, EventFor
<1> HIDE DEF log
<1>4. flagged \in Rows /\ ended \in Rows
  BY <1>1, <1>2, RowCancelled DEF Rows
<1>5. flagged.state = a.state /\ flagged.log = a.log /\ SameRun(a, flagged)
      /\ SameLease(a, flagged) /\ SameTime(a, flagged) /\ SameWork(a, flagged)
  BY <1>1 DEF Rows, SameRun, SameLease, SameTime, SameWork
<1>6. ended.state = "cancelled" /\ ended.log = log /\ SameRun(a, ended)
      /\ SameLease(a, ended) /\ SameTime(a, ended) /\ SameWork(a, ended)
  BY <1>1 DEF Rows, SameRun, SameLease, SameTime, SameWork
<1>7. \/ a.state \in {"leased", "running", "retry_wait"} /\ Replace(r, flagged)
      \/ a.state = "queued" /\ Replace(r, ended)
  BY DEF Cancel, log
<1> HIDE DEF a, flagged, ended
<1>8. /\ Writes(r)
      /\ \/ a.state \in {"leased", "running", "retry_wait"} /\ runs'[r] = flagged
         \/ a.state = "queued" /\ runs'[r] = ended
  BY <1>4, <1>7, ReplaceRow DEF Writes
<1>9. Moved(a, flagged) /\ Moved(a, ended)
  BY <1>2, <1>5, <1>6 DEF Moved, KeepsClaims
<1>10. Tells(a, ended)
  BY <1>3, <1>6 DEF Tells
<1> QED
  BY <1>5, <1>6, <1>8, <1>9, <1>10 DEF Flagged, Withdrawn, a

LEMMA ShapeDenied ==
  ASSUME TypeOK, NEW w \in Workers, ClaimDenied(w)
  PROVE  \E r \in RunIds : Writes(r) /\ Denied(runs[r], runs'[r])
<1> DEFINE log(r) == AppendEvent(AppendEvent(runs[r].log, Event("grant.denied")),
                                 Event("run.failed"))
           new(r) == [runs[r] EXCEPT !.state = "failed", !.error = "GRANT_DENIED",
                                     !.log = log(r)]
<1>1. PICK r \in RunIds : runs[r].state = "queued" /\ Replace(r, new(r))
  BY DEF ClaimDenied, Candidate, Claimable
<1> DEFINE a == runs[r]
<1>2. a \in Rows /\ a.log \in Seq(Events)
  BY RowOfRun
<1>3. log(r) \in Seq(Events) /\ \A l : HasClaim(a.log, l) => HasClaim(log(r), l)
  <2>1. AppendEvent(a.log, Event("grant.denied")) \in Seq(Events)
    BY <1>2, EventLogType DEF EventKinds
  <2> QED
    BY <1>2, <2>1, EventLogType, EventAppendKeepsClaims DEF EventKinds
<1>4. ClaimEpochs(log(r)) = ClaimEpochs(a.log) /\ LastKind(log(r)) \in LastKinds("failed")
  <2>1. AppendEvent(a.log, Event("grant.denied")) \in Seq(Events)
    BY <1>2, EventLogType DEF EventKinds
  <2>2. "run.failed" \in LastKinds("failed")
    BY DEF LastKinds, EventFor
  <2> QED
    BY <1>2, <2>1, <2>2, EventAppendTells DEF EventKinds
<1> HIDE DEF log
<1>5. new(r) \in Rows
  BY <1>2, <1>3, RowDenied
<1>6. new(r).state = "failed" /\ new(r).log = log(r) /\ SameRun(a, new(r))
      /\ SameLease(a, new(r)) /\ SameTime(a, new(r)) /\ SameWork(a, new(r))
  BY <1>2 DEF Rows, SameRun, SameLease, SameTime, SameWork
<1> HIDE DEF a, new
<1>7. Writes(r) /\ runs'[r] = new(r)
  BY <1>1, <1>5, ReplaceRow DEF Writes
<1>8. Denied(a, new(r))
  BY <1>1, <1>3, <1>4, <1>6 DEF Denied, Moved, KeepsClaims, Tells, a
<1> QED
  BY <1>7, <1>8 DEF a

LEMMA ShapeClaimed ==
  ASSUME TypeOK, NEW w \in Workers, ClaimGranted(w)
  PROVE  \E r \in RunIds :
           /\ Candidate(w, r) /\ Writes(r) /\ Claimed(runs[r], runs'[r], w)
           /\ activeCount' = [activeCount EXCEPT ![runs[r].tenant] = @ + 1]
<1> DEFINE ev(r) == [kind |-> "lease.claimed", lease |-> <<runs[r].epoch + 1, w>>]
           log(r) == AppendEvent(runs[r].log, ev(r))
           new(r) == [runs[r] EXCEPT
                       !.state = "leased", !.epoch = @ + 1, !.owner = w,
                       !.ttl = ClaimTtl(runs[r].grant), !.attempt = @ + 1,
                       !.held = TRUE, !.log = AppendEvent(@, ev(r))]
<1>1. PICK r \in RunIds :
        /\ Candidate(w, r) /\ Replace(r, new(r))
        /\ activeCount' = [activeCount EXCEPT ![runs[r].tenant] = @ + 1]
  BY DEF ClaimGranted
<1> DEFINE a == runs[r]
<1>2. a \in Rows /\ a.log \in Seq(Events) /\ a.epoch \in Nat
  BY RowOfRun DEF Rows
<1>3. ev(r) \in Events /\ ev(r).kind = "lease.claimed"
      /\ ev(r).lease = <<a.epoch + 1, w>>
  BY <1>2 DEF Events, EventKinds, Leases
<1>4. new(r) \in Rows
  BY ClaimGrantedRow
<1>5. /\ new(r).state = "leased" /\ new(r).held = TRUE /\ new(r).owner = w
      /\ new(r).log = log(r) /\ SameRun(a, new(r)) /\ SameWork(a, new(r))
      /\ new(r).renewal = a.renewal
  BY <1>2 DEF Rows, SameRun, SameWork
<1>6. /\ new(r).epoch = a.epoch + 1 /\ new(r).attempt = a.attempt + 1
      /\ new(r).ttl = ClaimTtl(a.grant)
  BY <1>2 DEF Rows
<1> HIDE DEF ev
<1>7. HasClaim(log(r), <<a.epoch + 1, w>>)
      /\ \A l : HasClaim(a.log, l) => HasClaim(log(r), l)
  BY <1>2, <1>3, AppendKeepsClaims
<1>8. ClaimEpochs(log(r)) = ClaimEpochs(a.log) \cup {a.epoch + 1}
       /\ LastKind(log(r)) = "lease.claimed"
  BY <1>2, <1>3, AppendTells
<1> HIDE DEF a, new, log
<1>9. Writes(r) /\ runs'[r] = new(r)
  BY <1>1, <1>4, ReplaceRow DEF Writes
<1>10. a.state = "queued" /\ a.attempt < MaxAttempts
  BY <1>1 DEF Candidate, Claimable, a
<1>11. Claimed(a, new(r), w)
  BY <1>5, <1>6, <1>7, <1>8, <1>10 DEF Claimed, KeepsClaims
<1> QED
  BY <1>1, <1>9, <1>11 DEF a

LEMMA ShapeHeartbeat ==
  ASSUME TypeOK, NEW r \in RunIds,
         \/ \E w \in Workers, e \in Nat : HeartbeatUpdate(w, r, e)
         \/ HeartbeatCommit(r)
         \/ HeartbeatAbort(r)
  PROVE  Writes(r) /\ Renewed(runs[r], runs'[r])
<1> DEFINE a == runs[r]
           updated == [a EXCEPT !.renewal = HeartbeatTtl(a.grant)]
           committed == [a EXCEPT !.ttl = a.renewal, !.renewal = NoRenewal]
           aborted == [a EXCEPT !.renewal = NoRenewal]
<1>1. a \in Rows /\ HeartbeatTtl(a.grant) \in Nat /\ 0 \in Nat
  BY RowOfRun, HeartbeatTtlBound
<1>2. updated \in Rows /\ aborted \in Rows
  BY <1>1, RowRenewal
<1>3. a.renewal # NoRenewal => committed \in Rows
  <2>1. a.renewal # NoRenewal => a.renewal \in Nat
    BY <1>1 DEF Rows
  <2> QED
    BY <1>1, <2>1, RowRenewal
<1>4. /\ SameRun(a, updated) /\ SameLease(a, updated) /\ SameWork(a, updated)
      /\ updated.log = a.log /\ updated.state = a.state /\ updated.cancel = a.cancel
      /\ updated.ttl = a.ttl /\ updated.renewal = HeartbeatTtl(a.grant)
  BY <1>1 DEF Rows, SameRun, SameLease, SameWork
<1>5. /\ SameRun(a, committed) /\ SameLease(a, committed) /\ SameWork(a, committed)
      /\ committed.log = a.log /\ committed.state = a.state
      /\ committed.cancel = a.cancel
      /\ committed.ttl = a.renewal /\ committed.renewal = NoRenewal
  BY <1>1 DEF Rows, SameRun, SameLease, SameWork
<1>6. /\ SameRun(a, aborted) /\ SameLease(a, aborted) /\ SameWork(a, aborted)
      /\ aborted.log = a.log /\ aborted.state = a.state /\ aborted.cancel = a.cancel
      /\ aborted.ttl = a.ttl /\ aborted.renewal = NoRenewal
  BY <1>1 DEF Rows, SameRun, SameLease, SameWork
<1>7. \/ Replace(r, updated) /\ a.held
      \/ Replace(r, committed) /\ a.renewal # NoRenewal
      \/ Replace(r, aborted) /\ a.renewal # NoRenewal
  BY DEF HeartbeatUpdate, HeartbeatCommit, HeartbeatAbort, Holds, Unlocked
<1> HIDE DEF a, updated, committed, aborted
<1>8. /\ Writes(r)
      /\ \/ runs'[r] = updated /\ a.held
         \/ runs'[r] = committed /\ a.renewal # NoRenewal
         \/ runs'[r] = aborted /\ a.renewal # NoRenewal
  BY <1>2, <1>3, <1>7, ReplaceRow DEF Writes
<1> QED
  BY <1>4, <1>5, <1>6, <1>8 DEF Renewed, KeepsClaims, a

LEMMA ShapeStarted ==
  ASSUME TypeOK, NEW w \in Workers, NEW r \in RunIds, NEW e, Started(w, r, e)
  PROVE  Writes(r) /\ Begun(runs[r], runs'[r])
<1> DEFINE a == runs[r]
           log == AppendEvent(a.log, Event("runner.started"))
           new == [a EXCEPT !.state = "running", !.log = log]
<1>1. a \in Rows /\ a.log \in Seq(Events)
  BY RowOfRun
<1>2. log \in Seq(Events) /\ \A l : HasClaim(a.log, l) => HasClaim(log, l)
  BY <1>1, EventLogType, EventAppendKeepsClaims DEF EventKinds
<1>3. ClaimEpochs(log) = ClaimEpochs(a.log) /\ LastKind(log) \in LastKinds("running")
  BY <1>1, EventAppendTells DEF EventKinds, LastKinds
<1>4. a.state = "leased" /\ Replace(r, new)
  BY DEF Started
<1> HIDE DEF log
<1>5. new \in Rows
  BY <1>1, <1>2, RowMoved DEF RunStates
<1>6. new.state = "running" /\ new.log = log /\ new.cancel = a.cancel
      /\ SameRun(a, new) /\ SameLease(a, new) /\ SameTime(a, new) /\ SameWork(a, new)
  BY <1>1 DEF Rows, SameRun, SameLease, SameTime, SameWork
<1> HIDE DEF a, new
<1>7. Writes(r) /\ runs'[r] = new
  BY <1>4, <1>5, ReplaceRow DEF Writes
<1> QED
  BY <1>2, <1>3, <1>4, <1>6, <1>7 DEF Begun, Moved, KeepsClaims, Tells, a

LEMMA ShapePromoted ==
  ASSUME TypeOK, ReapPromote
  PROVE  \E r \in RunIds :
           Promotable(r) /\ Writes(r) /\ Promoted(runs[r], runs'[r])
<1> DEFINE st(r) == Recovered(runs[r], FALSE)
           log(r) == AppendEvent(runs[r].log, Event(EventFor(st(r))))
           new(r) == [runs[r] EXCEPT !.state = st(r), !.log = log(r)]
<1>1. PICK r \in RunIds : Promotable(r) /\ Replace(r, new(r))
  BY DEF ReapPromote
<1> DEFINE a == runs[r]
<1>2. a \in Rows /\ a.log \in Seq(Events)
  BY RowOfRun
<1>3. st(r) \in RunStates /\ EventFor(st(r)) \in EventKinds
  BY RecoveredType, EventForType DEF Terminal
<1>4. log(r) \in Seq(Events) /\ \A l : HasClaim(a.log, l) => HasClaim(log(r), l)
  BY <1>2, <1>3, EventLogType, EventAppendKeepsClaims
<1>5. EventFor(st(r)) \in LastKinds(st(r)) /\ EventFor(st(r)) # "lease.claimed"
  BY RecoveredType, EventForTells DEF Terminal
<1>6. ClaimEpochs(log(r)) = ClaimEpochs(a.log) /\ LastKind(log(r)) \in LastKinds(st(r))
  BY <1>2, <1>3, <1>5, EventAppendTells
<1> HIDE DEF log, st
<1>7. new(r) \in Rows
  BY <1>2, <1>3, <1>4, RowMoved
<1>8. new(r).state = st(r) /\ new(r).log = log(r) /\ new(r).cancel = a.cancel
      /\ SameRun(a, new(r)) /\ SameLease(a, new(r)) /\ SameTime(a, new(r))
      /\ SameWork(a, new(r))
  BY <1>2 DEF Rows, SameRun, SameLease, SameTime, SameWork
<1> HIDE DEF a, new
<1>9. Writes(r) /\ runs'[r] = new(r)
  BY <1>1, <1>7, ReplaceRow DEF Writes
<1>10. a.state = "retry_wait" /\ st(r) = Recovered(a, FALSE)
  BY <1>1 DEF Promotable, a, st
<1>11. Promoted(a, new(r))
  BY <1>4, <1>6, <1>8, <1>10 DEF Promoted, Moved, KeepsClaims, Tells
<1> QED
  BY <1>1, <1>9, <1>11 DEF a

LEMMA ShapeFinish ==
  ASSUME TypeOK, NEW w \in Workers, NEW r \in RunIds, NEW e \in Nat,
         NEW result, Finish(w, r, e, result)
  PROVE  /\ Writes(r) /\ Ended(runs[r], runs'[r])
         /\ activeCount' = [activeCount EXCEPT ![runs[r].tenant] = @ - 1]
<1> DEFINE a == runs[r]
           st == IF a.cancel THEN "cancelled"
                 ELSE IF result = "error" THEN "failed" ELSE "succeeded"
           out == IF result = "output" THEN <<e, w>> ELSE NoLease
           err == IF result = "error" THEN "reported" ELSE "none"
           log == AppendEvent(a.log, Event(EventFor(st)))
           new == [Released(a, st) EXCEPT !.output = out, !.error = err, !.log = log]
<1>1. a \in Rows /\ a.log \in Seq(Events)
  BY RowOfRun
<1>2. /\ st \in Terminal
      /\ out # NoLease => out = <<e, w>> /\ st \in {"succeeded", "cancelled"}
  <2>1. st \in Terminal /\ (result = "output" => st \in {"succeeded", "cancelled"})
    BY DEF Terminal
  <2>2. result = "output" \/ out = NoLease
    OBVIOUS
  <2>3. result = "output" => out = <<e, w>>
    OBVIOUS
  <2> HIDE DEF st, out
  <2> QED
    BY <2>1, <2>2, <2>3
<1>3. /\ a.held /\ a.owner = w /\ a.epoch = e /\ a.state = "running" /\ a.ttl > 0
      /\ a.renewal = NoRenewal /\ ~Unfinished(a)
      /\ activeCount' = [activeCount EXCEPT ![a.tenant] = @ - 1]
  BY DEF Finish, Holds, Unlocked, ReleaseSlot
<1>4. Replace(r, [Released(a, st) EXCEPT !.output = out, !.error = err,
                                         !.log = AppendEvent(@, Event(EventFor(st)))])
  BY DEF Finish
<1> HIDE DEF a, st, out, err
<1>5. log \in Seq(Events) /\ \A l : HasClaim(a.log, l) => HasClaim(log, l)
  BY <1>1, <1>2, EventForType, EventLogType, EventAppendKeepsClaims
<1>6. ClaimEpochs(log) = ClaimEpochs(a.log) /\ LastKind(log) \in LastKinds(st)
  BY <1>1, <1>2, EventForType, EventForTells, EventAppendTells
<1>7. Released(a, st).log = a.log
  BY <1>1 DEF Released, Rows
<1>8. Replace(r, new)
  BY <1>4, <1>7
<1>9. new \in Rows
  <2>1. Released(a, st) \in Rows
    BY <1>1, <1>2, EventForType, RowReleased
  <2>2. out \in Leases /\ err \in {"none", "GRANT_DENIED", "reported"}
    BY DEF out, err, Leases, NoLease
  <2> QED
    BY <1>5, <2>1, <2>2, RowFinished
<1> HIDE DEF log
<1>10. /\ new.state = st /\ new.log = log /\ SameRun(a, new)
      /\ new.held = FALSE /\ new.owner = NoWorker /\ new.epoch = a.epoch
      /\ new.ttl = 0 /\ new.renewal = a.renewal
      /\ new.effects = a.effects /\ new.output = out
  <2>1. st \in RunStates
    BY <1>2, EventForType
  <2> QED
    BY <1>1, <1>5, <2>1 DEF Released, Rows, SameRun
<1> HIDE DEF new
<1>11. Writes(r) /\ runs'[r] = new
  BY <1>8, <1>9, ReplaceRow DEF Writes
<1> QED
  BY <1>2, <1>3, <1>5, <1>6, <1>10, <1>11 DEF Ended, KeepsClaims, Tells, a

LEMMA ShapeReaped ==
  ASSUME TypeOK, ReapExpired
  PROVE  /\ reaping \in RunIds /\ reaping' = 0
         /\ Writes(reaping) /\ Reaped(runs[reaping], runs'[reaping])
         /\ runs'[reaping].state = "queued" =>
              /\ ~ reapPending >= MaxPendingGlobal
              /\ ~ TenantQueueFull(runs[reaping].tenant)
         /\ activeCount' = [activeCount EXCEPT ![runs[reaping].tenant] = @ - 1]
<1> DEFINE r == reaping
           a == runs[r]
           full == \/ reapPending >= MaxPendingGlobal
                   \/ TenantQueueFull(a.tenant)
           st == Recovered(a, full)
           log == AppendEvent(AppendEvent(a.log, Event("lease.expired")),
                              Event(EventFor(st)))
           new == [Released(a, st) EXCEPT !.log = log]
<1>1. r \in RunIds
  BY DEF ReapExpired, SchedulerFree, TypeOK
<1>2. a \in Rows /\ a.log \in Seq(Events)
  BY <1>1, RowOfRun
<1>3. /\ st \in Terminal \cup {"queued", "retry_wait", "needs_reconciliation"}
      /\ st = "queued" => ~full
      /\ \E f \in BOOLEAN : st = Recovered(a, f)
  <2>1. st = "queued" => ~full
    BY DEF Recovered
  <2>2. st = Recovered(a, TRUE) \/ st = Recovered(a, FALSE)
    BY DEF Recovered
  <2> QED
    BY <2>1, <2>2, RecoveredType DEF Terminal
<1>4. /\ a.held /\ a.ttl = 0 /\ a.renewal = NoRenewal /\ reaping' = 0
      /\ activeCount' = [activeCount EXCEPT ![a.tenant] = @ - 1]
  BY DEF ReapExpired, StillExpired, Unlocked, ReleaseSlot
<1>5. Replace(r, [Released(a, st) EXCEPT
                    !.log = AppendEvent(AppendEvent(@,
                              Event("lease.expired")), Event(EventFor(st)))])
  BY DEF ReapExpired
<1>6. ~full => /\ ~ reapPending >= MaxPendingGlobal
               /\ ~ TenantQueueFull(a.tenant)
  OBVIOUS
<1> HIDE DEF a, st, full
<1>7. log \in Seq(Events) /\ \A l : HasClaim(a.log, l) => HasClaim(log, l)
  <2>1. AppendEvent(a.log, Event("lease.expired")) \in Seq(Events)
    BY <1>2, EventLogType DEF EventKinds
  <2>2. EventFor(st) \in EventKinds
    BY <1>3, EventForType
  <2> QED
    BY <1>2, <2>1, <2>2, EventLogType, EventAppendKeepsClaims DEF EventKinds
<1>8. ClaimEpochs(log) = ClaimEpochs(a.log) /\ LastKind(log) \in LastKinds(st)
  <2> DEFINE expired == AppendEvent(a.log, Event("lease.expired"))
  <2>1. expired \in Seq(Events) /\ ClaimEpochs(expired) = ClaimEpochs(a.log)
    BY <1>2, EventLogType, EventAppendTells DEF EventKinds
  <2>2. EventFor(st) \in EventKinds /\ EventFor(st) \in LastKinds(st)
        /\ EventFor(st) # "lease.claimed"
    BY <1>3, EventForType, EventForTells
  <2> HIDE DEF expired
  <2>3. log = AppendEvent(expired, Event(EventFor(st)))
    BY DEF expired
  <2> QED
    BY <2>1, <2>2, <2>3, EventAppendTells
<1>9. st \in RunStates
  BY <1>3, EventForType
<1>10. Released(a, st).log = a.log
  BY <1>2 DEF Released, Rows
<1>11. Replace(r, new)
  BY <1>5, <1>10
<1>12. new \in Rows
  <2>1. Released(a, st) \in Rows
    BY <1>2, <1>9, RowReleased
  <2> HIDE DEF log
  <2> QED
    BY <1>7, <2>1 DEF Rows
<1> HIDE DEF log
<1>13. /\ new.state = st /\ new.log = log /\ SameRun(a, new) /\ SameWork(a, new)
       /\ new.held = FALSE /\ new.owner = NoWorker /\ new.epoch = a.epoch
       /\ new.attempt = a.attempt /\ new.cancel = a.cancel
       /\ new.ttl = 0 /\ new.renewal = a.renewal
  BY <1>2, <1>7, <1>9 DEF Released, Rows, SameRun, SameWork
<1> HIDE DEF new
<1>14. Writes(r) /\ runs'[r] = new
  BY <1>1, <1>11, <1>12, ReplaceRow DEF Writes
<1>15. Reaped(a, new)
  BY <1>3, <1>4, <1>7, <1>8, <1>13 DEF Reaped, KeepsClaims, Tells
<1> QED
  BY <1>1, <1>3, <1>4, <1>6, <1>13, <1>14, <1>15 DEF a

LEMMA ShapeEffected ==
  ASSUME TypeOK, NEW r \in RunIds, NEW o \in Ordinals, NEW to \in EffectStates,
         BrokerSend(r, o, to) \/ BrokerResolve(r, o, to)
  PROVE  Writes(r) /\ Effected(runs[r], runs'[r])
<1> DEFINE a == runs[r]
           new == [a EXCEPT !.effects[o] = to]
<1>1. a \in Rows
  BY RowOfRun
<1>2. new \in Rows
  BY <1>1, RowEffect
<1>3. /\ SameRun(a, new) /\ SameLease(a, new) /\ SameTime(a, new)
      /\ new.log = a.log /\ new.output = a.output /\ new.state = a.state
      /\ new.cancel = a.cancel /\ new.effects = [a.effects EXCEPT ![o] = to]
  BY <1>1 DEF Rows, SameRun, SameLease, SameTime
<1>4. Replace(r, new)
  BY DEF BrokerSend, BrokerResolve
<1>5. \/ a.state = "running" /\ a.effects[o] = "NONE" /\ to = "PREPARED"
      \/ /\ a.state = "running" /\ to = "DISPATCHING"
         /\ EffectTransition(a.effects[o], to, FALSE, TRUE)
      \/ to # "DISPATCHING" /\ EffectTransition(a.effects[o], to, TRUE, FALSE)
  BY DEF BrokerSend, BrokerResolve
<1> HIDE DEF a, new
<1>6. Writes(r) /\ runs'[r] = new
  BY <1>2, <1>4, ReplaceRow DEF Writes
<1>7. Effected(a, new)
  BY <1>3, <1>5 DEF Effected, KeepsClaims
<1> QED
  BY <1>6, <1>7 DEF a

\* The shapes together.
RowStep(a, b) ==
  \/ Flagged(a, b) \/ Withdrawn(a, b) \/ Denied(a, b)
  \/ \E w \in Workers : Claimed(a, b, w)
  \/ Renewed(a, b) \/ Begun(a, b) \/ Ended(a, b)
  \/ Reaped(a, b) \/ Promoted(a, b) \/ Effected(a, b)

\* All of them but the end of a lease by finish_run.
QuietStep(a, b) ==
  \/ Flagged(a, b) \/ Withdrawn(a, b) \/ Denied(a, b)
  \/ \E w \in Workers : Claimed(a, b, w)
  \/ Renewed(a, b) \/ Begun(a, b)
  \/ Reaped(a, b) \/ Promoted(a, b) \/ Effected(a, b)

Results == {"output", "error", "nothing"}

\* A step leaves the table alone, adds a row, lets time pass, is a finish_run,
\* or writes one row in one of the nine other ways.
LEMMA StepKinds ==
  ASSUME TypeOK, Next
  PROVE  \/ UNCHANGED runs
         \/ \E t \in Tenants, k \in Keys, q \in Requests : Admit(t, k, q)
         \/ Tick
         \/ \E w \in Workers, r \in RunIds, e \in Nat, result \in Results :
              Finish(w, r, e, result)
         \/ \E r \in RunIds : Writes(r) /\ QuietStep(runs[r], runs'[r])
<1> DEFINE Quiet == \E r \in RunIds : Writes(r) /\ QuietStep(runs[r], runs'[r])
           Finished == \E w \in Workers, r \in RunIds, e \in Nat, result \in Results :
                         Finish(w, r, e, result)
           Stepped == Quiet \/ Finished
           Admitted == \E t \in Tenants, k \in Keys, q \in Requests : Admit(t, k, q)
<1> SUFFICES UNCHANGED runs \/ Admitted \/ Tick \/ Stepped
  OBVIOUS
<1>1. CASE Client
  <2>1. ASSUME NEW r \in RunIds, Cancel(r) PROVE Stepped
    BY <2>1, ShapeCancel DEF QuietStep
  <2> HIDE DEF Stepped
  <2> QED
    BY <1>1, <2>1, RowlessType DEF Client
<1>2. ASSUME NEW w \in Workers, Worker(w) PROVE Stepped
  <2>1. CASE ClaimDenied(w)
    BY <2>1, ShapeDenied DEF QuietStep
  <2>2. CASE ClaimGranted(w)
    BY <2>2, ShapeClaimed DEF QuietStep
  <2>3. ASSUME NEW r \in RunIds, NEW e \in 1..runs[r].epoch,
               \/ HeartbeatUpdate(w, r, e) \/ Started(w, r, e)
               \/ \E result \in {"output", "error", "nothing"} : Finish(w, r, e, result)
        PROVE  Stepped
    <3>1. e \in Nat
      BY RowOfRun DEF Rows
    <3>2. CASE HeartbeatUpdate(w, r, e)
      BY <3>1, <3>2, ShapeHeartbeat DEF QuietStep
    <3>3. CASE Started(w, r, e)
      BY <3>3, ShapeStarted DEF QuietStep
    <3>4. ASSUME NEW result \in Results, Finish(w, r, e, result) PROVE Stepped
      BY <3>1, <3>4
    <3> HIDE DEF Stepped
    <3> QED
      BY <2>3, <3>2, <3>3, <3>4 DEF Results
  <2> HIDE DEF Stepped
  <2> QED
    BY <1>2, <2>1, <2>2, <2>3 DEF Worker
<1>3. CASE \E r \in RunIds : HeartbeatCommit(r) \/ HeartbeatAbort(r)
  BY <1>3, ShapeHeartbeat DEF QuietStep
<1>4. CASE Sweeper
  <2>1. CASE ReapPromote
    BY <2>1, ShapePromoted DEF QuietStep
  <2>2. CASE ReapExpired
    BY <2>2, ShapeReaped DEF QuietStep
  <2> HIDE DEF Stepped
  <2> QED
    BY <1>4, <2>1, <2>2, RowlessType DEF Sweeper
<1>5. CASE Broker
  <2>1. ASSUME NEW r \in RunIds, NEW o \in Ordinals, NEW to \in EffectStates,
               BrokerSend(r, o, to) \/ BrokerResolve(r, o, to)
        PROVE  Stepped
    BY <2>1, ShapeEffected DEF QuietStep
  <2> HIDE DEF Stepped
  <2> QED
    BY <1>5, <2>1 DEF Broker
<1> HIDE DEF Stepped, Admitted
<1> QED
  BY <1>1, <1>2, <1>3, <1>4, <1>5 DEF Next

\* Seen from the table, a finish_run too writes one row.
LEMMA StepShape ==
  ASSUME TypeOK, Next
  PROVE  \/ UNCHANGED runs
         \/ \E t \in Tenants, k \in Keys, q \in Requests : Admit(t, k, q)
         \/ Tick
         \/ \E r \in RunIds : Writes(r) /\ RowStep(runs[r], runs'[r])
<1> DEFINE Stepped == \E r \in RunIds : Writes(r) /\ RowStep(runs[r], runs'[r])
           Admitted == \E t \in Tenants, k \in Keys, q \in Requests : Admit(t, k, q)
<1>1. ASSUME NEW w \in Workers, NEW r \in RunIds, NEW e \in Nat,
             NEW result \in Results, Finish(w, r, e, result)
      PROVE  Stepped
  BY <1>1, ShapeFinish DEF RowStep
<1>2. ASSUME NEW r \in RunIds, Writes(r), QuietStep(runs[r], runs'[r])
      PROVE  Stepped
  BY <1>2 DEF QuietStep, RowStep
<1> HIDE DEF Stepped, Admitted
<1> QED
  BY <1>1, <1>2, StepKinds DEF Stepped, Admitted

(***************************************************************************)
(* What is true of every row, whatever the other rows are.                 *)
(***************************************************************************)

RowLease(row) ==
  /\ row.held <=> row.state \in {"leased", "running"}
  /\ row.held <=> row.owner # NoWorker
  /\ row.renewal # NoRenewal => row.held
  /\ row.held => HasClaim(row.log, <<row.epoch, row.owner>>)

RowEffects(row) ==
  /\ row.state \in Terminal \cup {"queued", "retry_wait"} => ~Uncertain(row)
  /\ row.state = "succeeded" => ~Unfinished(row)

RowQueued(row) ==
  row.state = "queued" => ~row.cancel /\ row.attempt < MaxAttempts

RowResult(row) ==
  row.output # NoLease =>
    /\ row.state \in {"succeeded", "cancelled"}
    /\ row.output[1] = row.epoch
    /\ HasClaim(row.log, row.output)

RowOK(row) ==
  RowLease(row) /\ RowEffects(row) /\ RowQueued(row) /\ RowResult(row)

RowInv == \A r \in RunIds : RowOK(runs[r])

LEMMA RowLeaseStep ==
  ASSUME NEW a \in Rows, NEW b \in Rows, RowLease(a), RowStep(a, b)
  PROVE  RowLease(b)
<1>1. \A w \in Workers : w # NoWorker
  BY TenantAssumption
<1>2. a.held \in BOOLEAN /\ b.held \in BOOLEAN /\ a.owner \in Workers \cup {NoWorker}
      /\ a.epoch \in Nat
  BY DEF Rows
<1>3. <<a.epoch, a.owner>> \in Leases
  BY <1>2 DEF Leases
<1>4. CASE Flagged(a, b) \/ Withdrawn(a, b) \/ Denied(a, b) \/ Begun(a, b)
  BY <1>2, <1>3, <1>4 DEF RowLease, Flagged, Withdrawn, Denied, Begun, Moved,
     SameLease, SameTime, KeepsClaims
<1>5. ASSUME NEW w \in Workers, Claimed(a, b, w) PROVE RowLease(b)
  BY <1>1, <1>2, <1>5 DEF RowLease, Claimed
<1>6. CASE Renewed(a, b) \/ Effected(a, b)
  BY <1>2, <1>3, <1>6 DEF RowLease, Renewed, Effected, SameLease, SameTime,
     KeepsClaims
<1>7. CASE Ended(a, b)
  BY <1>2, <1>7 DEF RowLease, Ended, Terminal
<1>8. CASE Reaped(a, b)
  BY <1>2, <1>8, RecoveredType DEF RowLease, Reaped
<1>9. CASE Promoted(a, b)
  BY <1>2, <1>3, <1>9, RecoveredType DEF RowLease, Promoted, Moved, SameLease,
     SameTime, KeepsClaims
<1> QED
  BY <1>4, <1>5, <1>6, <1>7, <1>8, <1>9 DEF RowStep

\* Recovery never lets an uncertain run, a cancelled one or one that is out of
\* attempts back into the queue.
LEMMA RecoveredState ==
  ASSUME NEW row, NEW full
  PROVE  /\ Uncertain(row) => Recovered(row, full) = "needs_reconciliation"
         /\ Recovered(row, full) = "queued" =>
              ~row.cancel /\ ~ (row.attempt >= MaxAttempts)
         /\ Recovered(row, full) # "succeeded"
  BY DEF Recovered

LEMMA RowEffectsStep ==
  ASSUME NEW a \in Rows, NEW b \in Rows, RowEffects(a), RowStep(a, b)
  PROVE  RowEffects(b)
<1>1. b.effects = a.effects =>
        (Uncertain(b) <=> Uncertain(a)) /\ (Unfinished(b) <=> Unfinished(a))
  BY DEF Uncertain, Unfinished
<1>2. ~Unfinished(a) => ~Uncertain(a)
  BY DEF Uncertain, Unfinished
<1>3. CASE Flagged(a, b) \/ Withdrawn(a, b) \/ Denied(a, b)
  BY <1>1, <1>3 DEF RowEffects, Flagged, Withdrawn, Denied, Moved, SameWork
<1>4. CASE Begun(a, b) \/ \E w \in Workers : Claimed(a, b, w)
  BY <1>4 DEF RowEffects, Begun, Claimed, Terminal
<1>5. CASE Renewed(a, b)
  BY <1>1, <1>5 DEF RowEffects, Renewed, SameWork
<1>6. CASE Ended(a, b)
  BY <1>1, <1>2, <1>6 DEF RowEffects, Ended
<1>7. CASE Reaped(a, b)
  BY <1>1, <1>7, RecoveredState DEF RowEffects, Reaped, SameWork, Terminal
<1>8. CASE Promoted(a, b)
  BY <1>1, <1>8, RecoveredState DEF RowEffects, Promoted, Moved, SameWork, Terminal
<1>9. CASE Effected(a, b)
  <2>1. PICK o \in Ordinals, to \in EffectStates :
          /\ b.effects = [a.effects EXCEPT ![o] = to]
          /\ \/ a.state = "running"
             \/ to # "DISPATCHING" /\ EffectTransition(a.effects[o], to, TRUE, FALSE)
    BY <1>9 DEF Effected
  <2>2. a.effects \in [Ordinals -> EffectStates \cup {"NONE"}]
    BY DEF Rows
  <2>3. b.state = a.state
    BY <1>9 DEF Effected
  <2>4. CASE a.state = "running"
    BY <2>3, <2>4 DEF RowEffects, Terminal
  <2>5. CASE to # "DISPATCHING" /\ EffectTransition(a.effects[o], to, TRUE, FALSE)
    <3>1. a.effects[o] \in Unresolved
      BY <2>5 DEF EffectTransition, Unresolved
    <3>2. Uncertain(a) /\ Unfinished(a)
      BY <3>1 DEF Uncertain, Unfinished
    <3> QED
      BY <2>3, <3>2 DEF RowEffects
  <2> QED
    BY <2>1, <2>4, <2>5
<1> QED
  BY <1>3, <1>4, <1>5, <1>6, <1>7, <1>8, <1>9 DEF RowStep

LEMMA RowQueuedStep ==
  ASSUME NEW a \in Rows, NEW b \in Rows, RowQueued(a), RowStep(a, b)
  PROVE  RowQueued(b)
<1>1. a.attempt \in Nat /\ b.attempt \in Nat /\ MaxAttempts \in Nat
  BY LimitAssumption DEF Rows
<1>2. CASE \/ Flagged(a, b) \/ Withdrawn(a, b) \/ Denied(a, b) \/ Begun(a, b)
           \/ Ended(a, b) \/ \E w \in Workers : Claimed(a, b, w)
  BY <1>2 DEF RowQueued, Flagged, Withdrawn, Denied, Begun, Ended, Claimed, Terminal
<1>3. CASE Renewed(a, b) \/ Effected(a, b)
  BY <1>3 DEF RowQueued, Renewed, Effected, SameLease
<1>4. CASE Reaped(a, b) \/ Promoted(a, b)
  <2>1. \E full \in BOOLEAN : b.state = Recovered(a, full)
    BY <1>4 DEF Reaped, Promoted
  <2>2. b.cancel = a.cancel /\ b.attempt = a.attempt
    BY <1>4 DEF Reaped, Promoted, Moved, SameLease
  <2>3. b.state = "queued" => ~a.cancel /\ ~ (a.attempt >= MaxAttempts)
    BY <2>1, RecoveredState
  <2> QED
    BY <1>1, <2>2, <2>3 DEF RowQueued
<1> QED
  BY <1>2, <1>3, <1>4 DEF RowStep

LEMMA RowResultStep ==
  ASSUME NEW a \in Rows, NEW b \in Rows, RowLease(a), RowResult(a), RowStep(a, b)
  PROVE  RowResult(b)
<1>1. a.output \in Leases /\ a.epoch \in Nat /\ a.owner \in Workers \cup {NoWorker}
      /\ a.held \in BOOLEAN
  BY DEF Rows
<1>2. <<a.epoch, a.owner>> \in Leases /\ <<a.epoch, a.owner>>[1] = a.epoch
  BY <1>1 DEF Leases
<1>3. a.state \notin {"succeeded", "cancelled"} => a.output = NoLease
  BY DEF RowResult
<1>4. CASE \/ Flagged(a, b) \/ Withdrawn(a, b) \/ Denied(a, b) \/ Begun(a, b)
           \/ Promoted(a, b)
  BY <1>3, <1>4 DEF RowResult, Flagged, Withdrawn, Denied, Begun, Promoted, Moved,
     SameWork
<1>5. CASE \E w \in Workers : Claimed(a, b, w)
  BY <1>3, <1>5 DEF RowResult, Claimed, SameWork
<1>6. CASE Reaped(a, b)
  <2>1. a.state \in {"leased", "running"}
    BY <1>6 DEF RowLease, Reaped
  <2> QED
    BY <1>3, <1>6, <2>1 DEF RowResult, Reaped, SameWork
<1>7. CASE Renewed(a, b) \/ Effected(a, b)
  BY <1>1, <1>7 DEF RowResult, Renewed, Effected, SameWork, SameLease, KeepsClaims
<1>8. CASE Ended(a, b)
  <2>1. HasClaim(a.log, <<a.epoch, a.owner>>)
    BY <1>8 DEF Ended, RowLease
  <2>2. HasClaim(b.log, <<a.epoch, a.owner>>)
    BY <1>2, <1>8, <2>1 DEF Ended, KeepsClaims
  <2>3. \/ b.output = NoLease
        \/ b.output = <<a.epoch, a.owner>> /\ b.state \in {"succeeded", "cancelled"}
    BY <1>8 DEF Ended
  <2>4. b.epoch = a.epoch
    BY <1>8 DEF Ended
  <2> QED
    BY <1>2, <2>2, <2>3, <2>4 DEF RowResult
<1> QED
  BY <1>4, <1>5, <1>6, <1>7, <1>8 DEF RowStep

\* Time passes: only the times a lease has left change.
LEMMA RowTick ==
  ASSUME TypeOK, Tick, NEW r \in RunIds
  PROVE  LET a == runs[r]
             b == runs'[r]
         IN /\ SameRun(a, b) /\ SameLease(a, b) /\ SameWork(a, b)
            /\ b.state = a.state /\ b.cancel = a.cancel /\ b.log = a.log
            /\ b.ttl = Dec(a.ttl)
            /\ b.renewal = IF a.renewal = NoRenewal THEN NoRenewal
                           ELSE Dec(a.renewal)
<1>1. runs[r] \in Rows
  BY RowOfRun
<1>2. runs'[r] = [runs[r] EXCEPT
                    !.ttl = Dec(@),
                    !.renewal = IF @ = NoRenewal THEN NoRenewal ELSE Dec(@)]
  BY TickType
<1> QED
  BY <1>1, <1>2 DEF Rows, SameRun, SameLease, SameWork

LEMMA RowOKTick ==
  ASSUME TypeOK, Tick, NEW r \in RunIds, RowOK(runs[r])
  PROVE  RowOK(runs'[r])
<1> DEFINE a == runs[r]
           b == runs'[r]
<1>1. /\ SameLease(a, b) /\ SameWork(a, b)
      /\ b.state = a.state /\ b.cancel = a.cancel /\ b.log = a.log
      /\ b.renewal # NoRenewal => a.renewal # NoRenewal
  BY RowTick
<1>2. RowLease(a) /\ RowEffects(a) /\ RowQueued(a) /\ RowResult(a)
  BY DEF RowOK
<1> HIDE DEF a, b
<1>3. RowLease(b)
  BY <1>1, <1>2 DEF RowLease, SameLease
<1>4. RowEffects(b)
  BY <1>1, <1>2 DEF RowEffects, SameWork, Uncertain, Unfinished
<1>5. RowQueued(b) /\ RowResult(b)
  BY <1>1, <1>2 DEF RowQueued, RowResult, SameLease, SameWork
<1> QED
  BY <1>3, <1>4, <1>5 DEF RowOK, b

LEMMA RowOKNew ==
  ASSUME NEW t \in Tenants, NEW k \in Keys, NEW q \in Requests
  PROVE  RowOK(NewRow(t, k, q))
<1> DEFINE b == NewRow(t, k, q)
<1>1. /\ b.state = "queued" /\ b.held = FALSE /\ b.owner = NoWorker
      /\ b.renewal = NoRenewal /\ b.cancel = FALSE /\ b.attempt = 0
      /\ b.output = NoLease /\ b.effects = [o \in Ordinals |-> "NONE"]
  BY DEF NewRow
<1> HIDE DEF b
<1>2. ~Uncertain(b)
  BY <1>1 DEF Uncertain, Unresolved
<1>3. RowLease(b) /\ RowEffects(b) /\ RowResult(b)
  BY <1>1, <1>2 DEF RowLease, RowEffects, RowResult
<1>4. RowQueued(b)
  BY <1>1, LimitAssumption DEF RowQueued
<1> QED
  BY <1>3, <1>4 DEF RowOK, b

LEMMA RowInvStep ==
  ASSUME TypeOK, TypeOK', RowInv, [Next]_vars
  PROVE  RowInv'
<1>1. CASE UNCHANGED runs
  BY <1>1 DEF RowInv, RunIds
<1>2. ASSUME NEW t \in Tenants, NEW k \in Keys, NEW q \in Requests, Admit(t, k, q)
      PROVE  RowInv'
  BY <1>2, AdmitType, RowOKNew DEF RowInv
<1>3. CASE Tick
  BY <1>3, TickType, RowOKTick DEF RowInv
<1>4. ASSUME NEW r \in RunIds, Writes(r), RowStep(runs[r], runs'[r])
      PROVE  RowInv'
  <2> DEFINE a == runs[r]
             b == runs'[r]
  <2>1. a \in Rows /\ b \in Rows
    <3>1. RunIds' = RunIds
      BY <1>4 DEF Writes
    <3>2. runs' \in Seq(Rows) /\ r \in DOMAIN runs'
      BY <3>1 DEF TypeOK, RunIds
    <3> QED
      BY <3>2, RowOfRun
  <2>2. RowLease(a) /\ RowEffects(a) /\ RowQueued(a) /\ RowResult(a)
    BY DEF RowInv, RowOK
  <2>3. RowStep(a, b)
    BY <1>4
  <2> HIDE DEF a, b
  <2>4. RowOK(b)
    BY <2>1, <2>2, <2>3, RowLeaseStep, RowEffectsStep, RowQueuedStep, RowResultStep
    DEF RowOK
  <2> QED
    BY <1>4, <2>4 DEF RowInv, Writes, b
<1>5. CASE UNCHANGED vars
  BY <1>5 DEF RowInv, RunIds, vars
<1> QED
  BY <1>1, <1>2, <1>3, <1>4, <1>5, StepShape

LEMMA RowsCorrect == Spec => [](TypeOK /\ RowInv)
<1>1. Init => RowInv
  BY DEF Init, RowInv, RunIds
<1>2. TypeOK /\ TypeOK' /\ RowInv /\ [Next]_vars => RowInv'
  BY RowInvStep
<1> QED
  BY <1>1, <1>2, TypeCorrect, PTL DEF Spec

\* A run whose remote effect is in flight or of unknown outcome is never
\* queued again, deferred or closed: reap_one sends it to reconciliation and
\* finish_run refuses it, for any number of workers, runs and effects.
THEOREM NoReplayWhileUncertain == Spec => []UncertainBars
<1>1. TypeOK /\ RowInv => UncertainBars
  BY DEF RowInv, RowOK, RowEffects, UncertainBars, Uncertain
<1> QED
  BY <1>1, RowsCorrect, PTL

\* A run succeeds only with every effect it prepared committed or definitely
\* failed (finish_run's unresolved test).
THEOREM SuccessHasNoOpenEffect == Spec => []SuccessIsComplete
<1>1. TypeOK /\ RowInv => SuccessIsComplete
  <2> SUFFICES ASSUME TypeOK, RowInv, NEW r \in InState({"succeeded"}),
                      NEW o \in Ordinals
               PROVE  runs[r].effects[o] \in {"NONE", "COMMITTED", "DEFINITELY_FAILED"}
    BY DEF SuccessIsComplete
  <2>1. r \in RunIds /\ runs[r].state = "succeeded"
    BY DEF InState
  <2>2. runs[r].effects[o] \in EffectStates \cup {"NONE"}
    BY <2>1, RowOfRun DEF Rows
  <2>3. runs[r].effects[o] \notin Unresolved \cup {"PREPARED"}
    BY <2>1 DEF RowInv, RowOK, RowEffects, Unfinished
  <2> QED
    BY <2>2, <2>3 DEF EffectStates, Unresolved
<1> QED
  BY <1>1, RowsCorrect, PTL

\* A stored output carries the last epoch the run was leased under and the
\* worker that claimed that epoch, however late or often old tokens are used.
THEOREM OldTokensNeverWin == Spec => []ResultFenced
<1>1. TypeOK /\ RowInv => ResultFenced
  BY DEF RowInv, RowOK, RowResult, ResultFenced, HasClaim, ClaimEvents
<1> QED
  BY <1>1, RowsCorrect, PTL

\* claim_run can take every queued run sooner or later: none is flagged for
\* cancellation or out of attempts, whatever path led it to the queue.
THEOREM QueuedRunsAreClaimable == Spec => []NothingStranded
<1>1. TypeOK /\ RowInv => NothingStranded
  BY DEF RowInv, RowOK, RowQueued, NothingStranded, InState, Claimable
<1> QED
  BY <1>1, RowsCorrect, PTL

\* The log of a row: it ends with the event of the row's state, and records a
\* claim of every epoch up to the row's, of no other.
RowLog(row) ==
  LastKind(row.log) \in LastKinds(row.state) /\ ClaimEpochs(row.log) = 1..row.epoch

LEMMA RowLogStep ==
  ASSUME NEW a \in Rows, NEW b \in Rows, RowLog(a), RowStep(a, b)
  PROVE  RowLog(b)
<1>1. a.epoch \in Nat
  BY DEF Rows
<1>2. CASE Flagged(a, b) \/ Renewed(a, b) \/ Effected(a, b)
  BY <1>2 DEF RowLog, Flagged, Renewed, Effected, Moved, SameLease
<1>3. CASE \/ Withdrawn(a, b) \/ Denied(a, b) \/ Begun(a, b) \/ Ended(a, b)
           \/ Reaped(a, b) \/ Promoted(a, b)
  <2>1. Tells(a, b) /\ b.epoch = a.epoch
    BY <1>3 DEF Withdrawn, Denied, Begun, Ended, Reaped, Promoted, Moved, SameLease
  <2> QED
    BY <2>1 DEF Tells, RowLog
<1>4. ASSUME NEW w \in Workers, Claimed(a, b, w) PROVE RowLog(b)
  <2>1. /\ b.epoch = a.epoch + 1 /\ b.state = "leased"
        /\ ClaimEpochs(b.log) = ClaimEpochs(a.log) \cup {b.epoch}
        /\ LastKind(b.log) = "lease.claimed"
    BY <1>4 DEF Claimed
  <2>2. 1..(a.epoch + 1) = 1..a.epoch \cup {a.epoch + 1}
    BY <1>1
  <2>3. LastKind(b.log) \in LastKinds(b.state)
    BY <2>1 DEF LastKinds
  <2> QED
    BY <2>1, <2>2, <2>3 DEF RowLog
<1> QED
  BY <1>2, <1>3, <1>4 DEF RowStep

LEMMA RowLogNew ==
  ASSUME NEW t \in Tenants, NEW k \in Keys, NEW q \in Requests
  PROVE  RowLog(NewRow(t, k, q))
<1> DEFINE b == NewRow(t, k, q)
           ev == Event("run.admitted")
<1>1. b.state = "queued" /\ b.epoch = 0 /\ b.log = <<ev>>
  BY DEF NewRow
<1>2. ev.kind = "run.admitted"
  BY DEF Event
<1> HIDE DEF b, ev
<1>3. Len(b.log) = 1 /\ DOMAIN b.log = {1} /\ b.log[1] = ev
  BY <1>1
<1>4. ClaimEpochs(b.log) = {} /\ LastKind(b.log) = "run.admitted"
  BY <1>2, <1>3 DEF ClaimEpochs, LastKind
<1> QED
  BY <1>1, <1>4 DEF RowLog, LastKinds, b

\* The event log of a run tells its row's story: append_event wrote the event
\* of the row's state last, and claims of exactly the row's epochs, the current
\* one by the worker that holds the lease, for any number of runs and sweeps.
THEOREM LogTellsTheRow == Spec => []LogMatchesRow
<1> DEFINE LogInv == \A r \in RunIds : RowLog(runs[r])
<1>1. Init => LogInv
  BY DEF Init, RunIds
<1>2. ASSUME TypeOK, TypeOK', LogInv, [Next]_vars PROVE LogInv'
  <2>1. CASE UNCHANGED runs
    BY <1>2, <2>1 DEF RunIds
  <2>2. ASSUME NEW t \in Tenants, NEW k \in Keys, NEW q \in Requests, Admit(t, k, q)
        PROVE  LogInv'
    BY <1>2, <2>2, AdmitType, RowLogNew
  <2>3. CASE Tick
    <3>1. ASSUME NEW r \in RunIds PROVE RowLog(runs'[r])
      BY <1>2, <2>3, <3>1, RowTick DEF RowLog, SameLease
    <3> QED
      BY <1>2, <2>3, <3>1, TickType
  <2>4. ASSUME NEW r \in RunIds, Writes(r), RowStep(runs[r], runs'[r])
        PROVE  LogInv'
    <3>1. runs' \in Seq(Rows) /\ r \in DOMAIN runs' /\ runs[r] \in Rows
      BY <1>2, <2>4, RowOfRun DEF TypeOK, RunIds, Writes
    <3>2. RowLog(runs'[r])
      BY <1>2, <2>4, <3>1, RowLogStep
    <3> QED
      BY <1>2, <2>4, <3>2 DEF Writes
  <2> QED
    BY <1>2, <2>1, <2>2, <2>3, <2>4, StepShape DEF vars
<1>3. LogInv /\ RowInv => LogMatchesRow
  <2> SUFFICES ASSUME LogInv, RowInv, NEW r \in RunIds
               PROVE  LET row == runs[r]
                      IN /\ row.log[Len(row.log)].kind \in LastKinds(row.state)
                         /\ {row.log[i].lease[1] : i \in ClaimEvents(row)} = 1..row.epoch
                         /\ row.held => \E i \in ClaimEvents(row) :
                                          row.log[i].lease = <<row.epoch, row.owner>>
    BY DEF LogMatchesRow
  <2>1. RowLog(runs[r]) /\ RowLease(runs[r])
    BY DEF RowInv, RowOK
  <2> QED
    BY <2>1 DEF RowLog, RowLease, LastKind, ClaimEpochs, HasClaim, ClaimEvents
<1> HIDE DEF LogInv
<1> QED
  BY <1>1, <1>2, <1>3, TypeCorrect, RowsCorrect, PTL DEF Spec

\* An unexpired lease ends only with the result of the worker that holds it:
\* reap_one examines the row again after it has locked it.
THEOREM LiveLeaseNeverTaken == Spec => LiveLeaseKept
<1> DEFINE Live(a) == a.held /\ a.ttl > 0
           Same(a, b) == b.held /\ b.epoch = a.epoch /\ b.owner = a.owner
           Reports(r) == \E result \in Results :
                           Finish(runs[r].owner, r, runs[r].epoch, result)
<1>1. ASSUME NEW a \in Rows, NEW b \in Rows, RowLease(a), QuietStep(a, b), Live(a)
      PROVE  Same(a, b)
  <2>1. a.state \in {"leased", "running"}
    BY <1>1 DEF RowLease
  <2>2. CASE \/ Withdrawn(a, b) \/ Denied(a, b) \/ Promoted(a, b)
             \/ \E w \in Workers : Claimed(a, b, w)
    BY <2>1, <2>2 DEF Withdrawn, Denied, Promoted, Claimed
  <2>3. CASE Flagged(a, b) \/ Renewed(a, b) \/ Begun(a, b) \/ Effected(a, b)
    BY <1>1, <2>3 DEF Flagged, Renewed, Begun, Effected, Moved, SameLease
  <2>4. CASE Reaped(a, b)
    BY <1>1, <2>4 DEF Reaped
  <2> QED
    BY <1>1, <2>2, <2>3, <2>4 DEF QuietStep
<1>2. TypeOK /\ TypeOK' /\ RowInv /\ [Next]_vars =>
        \A r \in RunIds : Live(runs[r]) => Same(runs[r], runs'[r]) \/ Reports(r)
  <2> SUFFICES ASSUME TypeOK, TypeOK', RowInv, [Next]_vars, NEW r \in RunIds,
                      Live(runs[r])
               PROVE  Same(runs[r], runs'[r]) \/ Reports(r)
    OBVIOUS
  <2>1. CASE runs'[r] = runs[r]
    BY <2>1
  <2>2. CASE Tick
    BY <2>2, RowTick DEF SameLease
  <2>3. CASE RunIds' = RunIds /\ QuietStep(runs[r], runs'[r])
    <3>1. runs' \in Seq(Rows) /\ r \in DOMAIN runs' /\ runs[r] \in Rows
      BY <2>3, RowOfRun DEF TypeOK, RunIds
    <3>2. runs'[r] \in Rows /\ RowLease(runs[r])
      BY <3>1 DEF RowInv, RowOK
    <3> HIDE DEF Live, Same
    <3> QED
      BY <1>1, <2>3, <3>1, <3>2
  <2>4. ASSUME NEW t \in Tenants, NEW k \in Keys, NEW q \in Requests, Admit(t, k, q)
        PROVE  runs'[r] = runs[r]
    BY <2>4, AdmitType
  <2>5. ASSUME NEW w \in Workers, NEW q \in RunIds, NEW e \in Nat,
               NEW result \in Results, Finish(w, q, e, result)
        PROVE  runs'[r] = runs[r] \/ Reports(r)
    <3>1. Writes(q)
      BY <2>5, ShapeFinish
    <3>2. CASE q # r
      BY <3>1, <3>2 DEF Writes
    <3>3. CASE q = r
      <4>1. runs[q].owner = w /\ runs[q].epoch = e
        BY <2>5 DEF Finish, Holds
      <4>2. Finish(runs[q].owner, q, runs[q].epoch, result)
        BY <2>5, <4>1
      <4> QED
        BY <3>3, <4>2
    <3> QED
      BY <3>2, <3>3
  <2> HIDE DEF Live, Same, Reports
  <2> QED
    BY <2>1, <2>2, <2>3, <2>4, <2>5, StepKinds DEF Writes, vars
<1>3. (\A r \in RunIds : Live(runs[r]) => Same(runs[r], runs'[r]) \/ Reports(r)) =>
        \A r \in RunIds : runs[r].held /\ runs[r].ttl > 0 =>
          \/ runs'[r].held /\ runs'[r].epoch = runs[r].epoch
                           /\ runs'[r].owner = runs[r].owner
          \/ \E result \in {"output", "error", "nothing"} :
               Finish(runs[r].owner, r, runs[r].epoch, result)
  BY DEF Results
<1> HIDE DEF Live, Same, Reports
<1> QED
  BY <1>2, <1>3, TypeCorrect, RowsCorrect, PTL DEF Spec, LiveLeaseKept

(***************************************************************************)
(* Leases and grants.                                                      *)
(***************************************************************************)

\* A child grant never outlives an ancestor, as time passes.
Attenuated == \A g \in Grants : \A a \in Chain[g] : life[g] =< life[a]

RowTime(row) ==
  row.held => \A a \in Chain[row.grant] : row.ttl =< life[a] /\ row.renewal =< life[a]

TimeInv == Attenuated /\ \A r \in RunIds : RowTime(runs[r])

LEMMA OnlyTimeAgesGrants ==
  ASSUME Next
  PROVE  Tick \/ UNCHANGED life
<1>1. Client => UNCHANGED life
  BY DEF Client, PutModule, Admit, Revoke, Cancel
<1>2. ASSUME NEW w \in Workers, Worker(w) PROVE UNCHANGED life
  <2>1. CASE ClaimDenied(w) \/ ClaimGranted(w)
    BY <2>1 DEF ClaimDenied, ClaimGranted
  <2>2. ASSUME NEW r, NEW e, \/ HeartbeatUpdate(w, r, e) \/ Started(w, r, e)
                             \/ \E result : Finish(w, r, e, result)
        PROVE  UNCHANGED life
    BY <2>2 DEF HeartbeatUpdate, Started, Finish
  <2> QED
    BY <1>2, <2>1, <2>2 DEF Worker
<1>3. (\E r \in RunIds : HeartbeatCommit(r) \/ HeartbeatAbort(r)) => UNCHANGED life
  BY DEF HeartbeatCommit, HeartbeatAbort
<1>4. Sweeper => UNCHANGED life
  BY DEF Sweeper, ReapPromote, ReapSelect, ReapExpired, ReapRenewed, ReapAbort
<1>5. Broker => UNCHANGED life
  BY DEF Broker, BrokerSend, BrokerResolve
<1> QED
  BY <1>1, <1>2, <1>3, <1>4, <1>5 DEF Next

LEMMA RowTimeStep ==
  ASSUME TypeOK, Attenuated, NEW a \in Rows, NEW b \in Rows, RowLease(a),
         RowTime(a), RowStep(a, b)
  PROVE  RowTime(b)
<1>1. a.grant \in Grants /\ a.held \in BOOLEAN /\ a.ttl \in Nat
      /\ a.renewal \in Nat \cup {NoRenewal}
  BY DEF Rows
<1>2. \A x \in Chain[a.grant] : life[x] \in Nat /\ NoRenewal =< life[x]
  <2>1. \A x \in Chain[a.grant] : x \in Grants
    BY <1>1, GrantAssumption
  <2>2. \A x \in Grants : life[x] \in Nat
    BY DEF TypeOK
  <2> QED
    BY <2>1, <2>2 DEF NoRenewal
<1>3. CASE \/ Flagged(a, b) \/ Withdrawn(a, b) \/ Denied(a, b) \/ Begun(a, b)
           \/ Promoted(a, b)
  BY <1>3 DEF RowTime, Flagged, Withdrawn, Denied, Begun, Promoted, Moved,
     SameRun, SameLease, SameTime
<1>4. ASSUME NEW w \in Workers, Claimed(a, b, w) PROVE RowTime(b)
  <2>1. \A x \in Chain[a.grant] : ClaimTtl(a.grant) =< life[x]
    BY <1>1, ClaimTtlBound
  <2>2. a.renewal = NoRenewal
    BY <1>1, <1>4 DEF RowLease, Claimed
  <2> QED
    BY <1>2, <1>4, <2>1, <2>2 DEF RowTime, Claimed, SameRun
<1>5. CASE Renewed(a, b)
  <2>1. \A x \in Chain[a.grant] : HeartbeatTtl(a.grant) =< life[x]
    <3>1. HeartbeatTtl(a.grant) \in Nat /\ HeartbeatTtl(a.grant) =< life[a.grant]
          /\ life[a.grant] \in Nat
      BY <1>1, HeartbeatTtlBound DEF TypeOK
    <3>2. \A x \in Chain[a.grant] : life[a.grant] =< life[x]
      BY <1>1 DEF Attenuated
    <3> QED
      BY <1>2, <3>1, <3>2
  <2>2. /\ b.held = a.held /\ b.grant = a.grant
        /\ \/ b.ttl = a.ttl /\ b.renewal = HeartbeatTtl(a.grant)
           \/ b.ttl = a.renewal /\ b.renewal = NoRenewal
           \/ b.ttl = a.ttl /\ b.renewal = NoRenewal
    BY <1>5 DEF Renewed, SameLease, SameRun
  <2> QED
    BY <1>2, <2>1, <2>2 DEF RowTime
<1>6. CASE Ended(a, b) \/ Reaped(a, b)
  BY <1>6 DEF RowTime, Ended, Reaped
<1>7. CASE Effected(a, b)
  BY <1>7 DEF RowTime, Effected, SameRun, SameLease, SameTime
<1> QED
  BY <1>3, <1>4, <1>5, <1>6, <1>7 DEF RowStep

LEMMA AttenuatedTick ==
  ASSUME TypeOK, Attenuated, Tick
  PROVE  /\ Attenuated'
         /\ \A g \in Grants : life'[g] >= Dec(life[g])
<1>1. \A g \in Grants : life[g] \in Nat
  BY DEF TypeOK
<1>2. \A g \in Grants :
        life'[g] = IF g \in LongLived THEN life[g] ELSE Dec(life[g])
  BY DEF Tick
<1>3. ASSUME NEW g \in Grants, NEW a \in Chain[g] PROVE life'[g] =< life'[a]
  <2>1. a \in Grants /\ (g \in LongLived => a \in LongLived)
    BY GrantAssumption
  <2>2. life[g] =< life[a] /\ life[g] \in Nat /\ life[a] \in Nat
    BY <1>1, <2>1 DEF Attenuated
  <2> QED
    BY <1>2, <2>1, <2>2 DEF Dec
<1>4. ASSUME NEW g \in Grants PROVE life'[g] >= Dec(life[g])
  BY <1>1, <1>2 DEF Dec
<1> QED
  BY <1>3, <1>4 DEF Attenuated

LEMMA RowTimeTick ==
  ASSUME TypeOK, TimeInv, Tick, NEW r \in RunIds, RowTime(runs[r])
  PROVE  RowTime(runs[r])'
<1> DEFINE a == runs[r]
           b == runs'[r]
<1>1. /\ b.grant = a.grant /\ b.held = a.held /\ b.ttl = Dec(a.ttl)
      /\ b.renewal = IF a.renewal = NoRenewal THEN NoRenewal ELSE Dec(a.renewal)
  BY RowTick DEF SameRun, SameLease
<1>2. a.grant \in Grants /\ a.ttl \in Nat /\ a.renewal \in Nat \cup {NoRenewal}
  BY RowOfRun DEF Rows
<1>3. RowTime(a)
  OBVIOUS
<1> HIDE DEF a
<1>4. ASSUME b.held, NEW x \in Chain[b.grant]
      PROVE  b.ttl =< life'[x] /\ b.renewal =< life'[x]
  <2>1. x \in Grants
    BY <1>1, <1>2, <1>4, GrantAssumption
  <2>2. a.ttl =< life[x] /\ a.renewal =< life[x]
    BY <1>1, <1>3, <1>4 DEF RowTime
  <2>3. life[x] \in Nat /\ life'[x] \in Nat /\ life'[x] >= Dec(life[x])
    <3>1. life' \in [Grants -> Nat]
      BY TickType DEF TypeOK
    <3> QED
      BY <2>1, <3>1, AttenuatedTick DEF TypeOK, TimeInv
  <2> QED
    BY <1>1, <1>2, <2>2, <2>3 DEF Dec, NoRenewal
<1> QED
  BY <1>4 DEF RowTime

LEMMA TimeInvStep ==
  ASSUME TypeOK, TypeOK', RowInv, TimeInv, [Next]_vars
  PROVE  TimeInv'
<1>1. CASE Tick
  <2>1. Attenuated' /\ RunIds' = RunIds
    BY <1>1, AttenuatedTick, TickType DEF TimeInv
  <2>2. \A r \in RunIds : RowTime(runs[r])'
    BY <1>1, RowTimeTick DEF TimeInv
  <2> QED
    BY <2>1, <2>2 DEF TimeInv
<1>2. CASE UNCHANGED <<runs, life>>
  BY <1>2 DEF TimeInv, Attenuated, RowTime, RunIds
<1>3. CASE UNCHANGED life /\ ~ UNCHANGED runs /\ ~Tick
  <2>1. Attenuated'
    BY <1>3 DEF TimeInv, Attenuated
  <2>2. \A row : RowTime(row)' <=> RowTime(row)
    BY <1>3 DEF RowTime
  <2>3. ASSUME NEW t \in Tenants, NEW k \in Keys, NEW q \in Requests, Admit(t, k, q)
        PROVE  \A r \in RunIds' : RowTime(runs'[r])
    <3>1. RowTime(NewRow(t, k, q))
      BY DEF RowTime, NewRow
    <3> QED
      BY <2>3, <3>1, AdmitType DEF TimeInv
  <2>4. ASSUME NEW r \in RunIds, Writes(r), RowStep(runs[r], runs'[r])
        PROVE  \A q \in RunIds' : RowTime(runs'[q])
    <3>1. runs' \in Seq(Rows) /\ r \in DOMAIN runs' /\ runs[r] \in Rows
      BY <2>4, RowOfRun DEF TypeOK, RunIds, Writes
    <3>2. runs'[r] \in Rows /\ RowLease(runs[r]) /\ RowTime(runs[r]) /\ Attenuated
      BY <3>1 DEF RowInv, RowOK, TimeInv
    <3>3. RowTime(runs'[r])
      BY <2>4, <3>1, <3>2, RowTimeStep
    <3> QED
      BY <2>4, <3>3 DEF Writes, TimeInv
  <2>5. \A r \in RunIds' : RowTime(runs'[r])
    BY <1>3, <2>3, <2>4, StepShape DEF vars
  <2>6. \A r \in RunIds' : RowTime(runs[r])'
    BY <1>3, <2>5 DEF RowTime
  <2> QED
    BY <2>1, <2>6 DEF TimeInv
<1> QED
  BY <1>1, <1>2, <1>3, OnlyTimeAgesGrants DEF vars

\* A lease, and a renewal about to commit, end no later than any grant of the
\* run's chain: claim_run takes the least expiry of the chain, and the own
\* grant's expiry that heartbeat_run takes is no later than its ancestors'.
THEOREM LeaseEndsWithGrant == Spec => []LeaseWithinGrant
<1>1. Init => TimeInv
  BY GrantAssumption DEF Init, TimeInv, Attenuated, RunIds
<1>2. TypeOK /\ TypeOK' /\ RowInv /\ TimeInv /\ [Next]_vars => TimeInv'
  BY TimeInvStep
<1>3. TimeInv => LeaseWithinGrant
  BY DEF TimeInv, RowTime, LeaseWithinGrant, Held
<1> QED
  BY <1>1, <1>2, <1>3, RowsCorrect, PTL DEF Spec

\* admit_run never gives a key of a tenant to a second run, whatever became of
\* the first.
THEOREM KeysNameOneRun == Spec => []OneRunPerKey
<1>1. ASSUME NEW a, NEW b, RowStep(a, b) PROVE SameRun(a, b)
  BY <1>1 DEF RowStep, Flagged, Withdrawn, Denied, Claimed, Renewed, Begun, Ended,
     Reaped, Promoted, Effected, Moved
<1>2. ASSUME TypeOK, OneRunPerKey, [Next]_vars PROVE OneRunPerKey'
  <2>1. CASE RunIds' = RunIds /\ \A r \in RunIds : SameRun(runs[r], runs'[r])
    BY <1>2, <2>1 DEF OneRunPerKey, SameRun
  <2>2. CASE UNCHANGED runs
    BY <1>2, <2>2 DEF OneRunPerKey, RunIds
  <2>3. ASSUME NEW t \in Tenants, NEW k \in Keys, NEW q \in Requests, Admit(t, k, q)
        PROVE  OneRunPerKey'
    <3>1. NewRow(t, k, q).tenant = t /\ NewRow(t, k, q).key = k
      BY DEF NewRow
    <3>2. \A r \in RunIds : ~ (runs[r].tenant = t /\ runs[r].key = k)
      BY <2>3 DEF Admit, KeyIsNew
    <3> QED
      BY <1>2, <2>3, <3>1, <3>2, AdmitType DEF OneRunPerKey
  <2>4. CASE Tick
    BY <1>2, <2>1, <2>4, TickType, RowTick
  <2>5. ASSUME NEW r \in RunIds, Writes(r), RowStep(runs[r], runs'[r])
        PROVE  RunIds' = RunIds /\ \A q \in RunIds : SameRun(runs[q], runs'[q])
    BY <1>1, <2>5 DEF Writes, SameRun
  <2> QED
    BY <1>2, <2>1, <2>2, <2>3, <2>4, <2>5, StepShape DEF vars
<1>3. Init => OneRunPerKey
  BY DEF Init, OneRunPerKey, RunIds
<1> QED
  BY <1>2, <1>3, TypeCorrect, PTL DEF Spec

(***************************************************************************)
(* Scheduler implements RunLifecycle: the SQL handlers of the store, which *)
(* never call RunState::transition or EffectState::transition, follow both *)
(* tables at every step.                                                   *)
(***************************************************************************)


\* What a step may do to one run, in the terms of the abstract specification.
Transition(a, b) ==
  /\ b.effects = a.effects /\ b.state \in RunStates
  /\ RunTransition(a.state, b.state, Uncertain(a), FALSE)

EffectMove(a, b) ==
  /\ b.state = a.state
  /\ \E o \in Ordinals, to \in EffectStates :
       /\ \/ a.effects[o] = "NONE" /\ to = "PREPARED"
          \/ EffectTransition(a.effects[o], to, TRUE, TRUE)
       /\ to \in {"PREPARED", "DISPATCHING"} => a.state = "running"
       /\ b.effects = [a.effects EXCEPT ![o] = to]

Stutters(a, b) == b.state = a.state /\ b.effects = a.effects

LEMMA RecoveredAllowed ==
  ASSUME NEW row, NEW full \in BOOLEAN, row.state \in {"leased", "running"}
  PROVE  RunTransition(row.state, Recovered(row, full), Uncertain(row), FALSE)
<1>1. CASE Uncertain(row)
  BY <1>1 DEF Recovered, RunTransition, Successors, Terminal
<1>2. CASE ~Uncertain(row)
  BY <1>2 DEF Recovered, RunTransition, Successors, Terminal
<1> QED
  BY <1>1, <1>2

LEMMA PromotedAllowed ==
  ASSUME NEW row, row.state = "retry_wait"
  PROVE  RunTransition(row.state, Recovered(row, FALSE), Uncertain(row), FALSE)
<1>1. CASE Uncertain(row)
  BY <1>1 DEF Recovered, RunTransition, Successors, Terminal
<1>2. CASE ~Uncertain(row)
  BY <1>2 DEF Recovered, RunTransition, Successors, Terminal
<1> QED
  BY <1>1, <1>2

LEMMA RowStepAllowed ==
  ASSUME NEW a \in Rows, NEW b \in Rows, RowLease(a), RowEffects(a), RowStep(a, b)
  PROVE  Stutters(a, b) \/ Transition(a, b) \/ EffectMove(a, b)
<1>1. b.state \in RunStates
  BY DEF Rows
<1>2. CASE Flagged(a, b) \/ Renewed(a, b)
  BY <1>2 DEF Flagged, Renewed, Moved, SameWork, Stutters
<1>3. CASE Withdrawn(a, b) \/ Denied(a, b)
  <2>1. /\ a.state = "queued" /\ b.state \in {"cancelled", "failed"}
        /\ b.effects = a.effects
    BY <1>3 DEF Withdrawn, Denied, Moved, SameWork
  <2>2. ~Uncertain(a)
    BY <2>1 DEF RowEffects
  <2> QED
    BY <1>1, <2>1, <2>2 DEF Transition, RunTransition, Successors
<1>4. CASE Begun(a, b) \/ \E w \in Workers : Claimed(a, b, w)
  <2>1. /\ b.effects = a.effects
        /\ \/ a.state = "queued" /\ b.state = "leased"
           \/ a.state = "leased" /\ b.state = "running"
    BY <1>4 DEF Begun, Claimed, Moved, SameWork
  <2> QED
    BY <1>1, <2>1 DEF Transition, RunTransition, Successors, Terminal
<1>5. CASE Ended(a, b)
  <2>1. a.state = "running" /\ b.state \in Terminal /\ b.effects = a.effects
    BY <1>5 DEF Ended
  <2>2. ~Uncertain(a)
    BY <1>5 DEF Ended, Uncertain, Unfinished
  <2> QED
    BY <1>1, <2>1, <2>2 DEF Transition, RunTransition, Successors, Terminal
<1>6. CASE Reaped(a, b)
  <2>1. a.state \in {"leased", "running"}
    BY <1>6 DEF Reaped, RowLease
  <2>2. PICK full \in BOOLEAN : b.state = Recovered(a, full)
    BY <1>6 DEF Reaped
  <2>3. b.effects = a.effects
    BY <1>6 DEF Reaped, SameWork
  <2>4. RunTransition(a.state, Recovered(a, full), Uncertain(a), FALSE)
    BY <2>1, RecoveredAllowed
  <2> QED
    BY <1>1, <2>2, <2>3, <2>4 DEF Transition
<1>7. CASE Promoted(a, b)
  BY <1>1, <1>7, PromotedAllowed DEF Promoted, Moved, SameWork, Transition
<1>8. CASE Effected(a, b)
  <2>1. PICK o \in Ordinals, to \in EffectStates :
          /\ b.effects = [a.effects EXCEPT ![o] = to]
          /\ \/ a.state = "running" /\ a.effects[o] = "NONE" /\ to = "PREPARED"
             \/ /\ a.state = "running" /\ to = "DISPATCHING"
                /\ EffectTransition(a.effects[o], to, FALSE, TRUE)
             \/ to # "DISPATCHING" /\ EffectTransition(a.effects[o], to, TRUE, FALSE)
    BY <1>8 DEF Effected
  <2>2. \/ a.effects[o] = "NONE" /\ to = "PREPARED"
        \/ EffectTransition(a.effects[o], to, TRUE, TRUE)
    BY <2>1 DEF EffectTransition
  <2>3. to \in {"PREPARED", "DISPATCHING"} => a.state = "running"
    BY <2>1 DEF EffectTransition
  <2>4. b.state = a.state
    BY <1>8 DEF Effected
  <2> QED
    BY <2>1, <2>2, <2>3, <2>4 DEF EffectMove
<1> QED
  BY <1>2, <1>3, <1>4, <1>5, <1>6, <1>7, <1>8 DEF RowStep

(***************************************************************************)
(* The refinement mapping.                                                 *)
(***************************************************************************)

absState == [r \in AllRuns |-> IF r \in RunIds THEN runs[r].state ELSE "absent"]
absEffects == [r \in AllRuns |-> IF r \in RunIds THEN runs[r].effects
                                 ELSE [o \in Ordinals |-> "NONE"]]

LEMMA RunsInAllRuns ==
  ASSUME TypeOK
  PROVE  RunIds \subseteq AllRuns
  BY LimitAssumption DEF TypeOK, RunIds, AllRuns

\* A step that writes one row changes the mapped variables at that row only.
LEMMA MappedWrite ==
  ASSUME TypeOK, NEW r \in RunIds, Writes(r)
  PROVE  /\ r \in AllRuns
         /\ absState[r] = runs[r].state /\ absEffects[r] = runs[r].effects
         /\ absState' = [absState EXCEPT ![r] = runs'[r].state]
         /\ absEffects' = [absEffects EXCEPT ![r] = runs'[r].effects]
<1>1. r \in AllRuns /\ RunIds' = RunIds
  BY RunsInAllRuns DEF Writes
<1>2. absState' = [absState EXCEPT ![r] = runs'[r].state]
  BY <1>1 DEF absState, Writes
<1>3. absEffects' = [absEffects EXCEPT ![r] = runs'[r].effects]
  BY <1>1 DEF absEffects, Writes
<1> QED
  BY <1>1, <1>2, <1>3 DEF absState, absEffects

LEMMA MoveImplemented ==
  ASSUME TypeOK, NEW r \in RunIds, Writes(r), Transition(runs[r], runs'[r])
  PROVE  Lifecycle!Move(r)
<1> DEFINE to == runs'[r].state
<1>1. /\ r \in AllRuns /\ absState[r] = runs[r].state
      /\ absEffects[r] = runs[r].effects
      /\ absState' = [absState EXCEPT ![r] = to]
      /\ absEffects' = [absEffects EXCEPT ![r] = runs[r].effects]
  BY MappedWrite DEF Transition
<1>2. absEffects' = absEffects
  BY <1>1 DEF absEffects
<1>3. to \in RunStates /\ RunTransition(absState[r], to, Uncertain(runs[r]), FALSE)
  BY <1>1 DEF Transition
<1>4. Uncertain(runs[r]) <=> \E o \in Ordinals : absEffects[r][o] \in Unresolved
  BY <1>1 DEF Uncertain
<1> HIDE DEF to
<1>5. /\ \E s \in RunStates :
           /\ RunTransition(absState[r], s,
                            \E o \in Ordinals : absEffects[r][o] \in Unresolved, FALSE)
           /\ absState' = [absState EXCEPT ![r] = s]
      /\ absEffects' = absEffects
  BY <1>1, <1>2, <1>3, <1>4 DEF RunTransition
<1> QED
  BY <1>5 DEF Lifecycle!Move, Lifecycle!HasUnresolved, Lifecycle!RunTransition,
     Lifecycle!Unresolved, Lifecycle!Terminal, Lifecycle!Successors,
     Lifecycle!RunStates, RunTransition, Unresolved, Terminal, Successors,
     RunStates, absState, absEffects

LEMMA EffectImplemented ==
  ASSUME TypeOK, NEW r \in RunIds, Writes(r), EffectMove(runs[r], runs'[r])
  PROVE  \E o \in Ordinals : Lifecycle!MoveEffect(r, o)
<1> DEFINE a == runs[r]
<1>1. PICK o \in Ordinals, to \in EffectStates :
        /\ \/ a.effects[o] = "NONE" /\ to = "PREPARED"
           \/ EffectTransition(a.effects[o], to, TRUE, TRUE)
        /\ to \in {"PREPARED", "DISPATCHING"} => a.state = "running"
        /\ runs'[r].effects = [a.effects EXCEPT ![o] = to]
        /\ runs'[r].state = a.state
  BY DEF EffectMove
<1>2. /\ r \in AllRuns /\ absState[r] = a.state /\ absEffects[r] = a.effects
      /\ absState' = [absState EXCEPT ![r] = a.state]
      /\ absEffects' = [absEffects EXCEPT ![r] = [a.effects EXCEPT ![o] = to]]
  BY <1>1, MappedWrite
<1>3. absState' = absState
  BY <1>2 DEF absState
<1>4. absEffects' = [absEffects EXCEPT ![r][o] = to]
  BY <1>2
<1> HIDE DEF a
<1>5. /\ \E s \in EffectStates :
           /\ \/ absEffects[r][o] = "NONE" /\ s = "PREPARED"
              \/ EffectTransition(absEffects[r][o], s, TRUE, TRUE)
           /\ s \in {"PREPARED", "DISPATCHING"} => absState[r] = "running"
           /\ absEffects' = [absEffects EXCEPT ![r][o] = s]
      /\ absState' = absState
  BY <1>1, <1>2, <1>3, <1>4
<1>6. Lifecycle!MoveEffect(r, o)
  BY <1>5 DEF Lifecycle!MoveEffect, Lifecycle!EffectTransition,
     Lifecycle!EffectStates, EffectTransition, EffectStates, absState, absEffects
<1> QED
  BY <1>6

LEMMA AppearImplemented ==
  ASSUME TypeOK, NEW t \in Tenants, NEW k \in Keys, NEW q \in Requests,
         Admit(t, k, q)
  PROVE  \E r \in AllRuns : Lifecycle!Appear(r)
<1> DEFINE new == NewRow(t, k, q)
<1>1. new.state = "queued" /\ new.effects = [o \in Ordinals |-> "NONE"]
  BY DEF NewRow
<1>2. PICK r : r = Len(runs')
  OBVIOUS
<1>3. /\ r \notin RunIds /\ RunIds' = RunIds \cup {r} /\ runs'[r] = new
      /\ \A p \in RunIds : runs'[p] = runs[p]
  BY <1>2, AdmitType
<1>4. r \in AllRuns
  BY <1>2, AdmitType, LimitAssumption DEF TypeOK, AllRuns
<1> HIDE DEF new
<1>5. absState[r] = "absent" /\ absState' = [absState EXCEPT ![r] = "queued"]
  BY <1>1, <1>3, <1>4 DEF absState
<1>6. absEffects' = absEffects
  BY <1>1, <1>3, <1>4 DEF absEffects
<1>7. Lifecycle!Appear(r)
  BY <1>5, <1>6 DEF Lifecycle!Appear, absState, absEffects
<1> QED
  BY <1>4, <1>7

LEMMA MappedStutter ==
  ASSUME RunIds' = RunIds, \A r \in RunIds : Stutters(runs[r], runs'[r])
  PROVE  UNCHANGED <<absState, absEffects>>
  BY DEF Stutters, absState, absEffects

LEMMA StepImplemented ==
  ASSUME TypeOK, TypeOK', RowInv, [Next]_vars
  PROVE  [Lifecycle!LifecycleNext]_(Lifecycle!lifecycleVars)
<1> DEFINE Same == UNCHANGED <<absState, absEffects>>
<1>1. Same => UNCHANGED Lifecycle!lifecycleVars
  BY DEF Lifecycle!lifecycleVars, absState, absEffects
<1>2. CASE UNCHANGED runs
  <2>1. Same
    BY <1>2, MappedStutter DEF RunIds, Stutters
  <2> QED
    BY <1>1, <2>1
<1>3. ASSUME NEW t \in Tenants, NEW k \in Keys, NEW q \in Requests, Admit(t, k, q)
      PROVE  Lifecycle!LifecycleNext
  BY <1>3, AppearImplemented DEF Lifecycle!LifecycleNext
<1>4. CASE Tick
  <2>1. Same
    BY <1>4, TickType, RowTick, MappedStutter DEF Stutters, SameWork
  <2> QED
    BY <1>1, <2>1
<1>5. ASSUME NEW r \in RunIds, Writes(r), RowStep(runs[r], runs'[r])
      PROVE  Lifecycle!LifecycleNext \/ Same
  <2>1. runs' \in Seq(Rows) /\ r \in DOMAIN runs' /\ runs[r] \in Rows
    BY <1>5, RowOfRun DEF TypeOK, RunIds, Writes
  <2>2. runs'[r] \in Rows /\ RowLease(runs[r]) /\ RowEffects(runs[r])
    BY <2>1 DEF RowInv, RowOK
  <2>3. r \in AllRuns
    BY RunsInAllRuns
  <2>4. CASE Stutters(runs[r], runs'[r])
    BY <1>5, <2>4, MappedStutter DEF Writes, Stutters
  <2>5. CASE Transition(runs[r], runs'[r])
    BY <1>5, <2>3, <2>5, MoveImplemented DEF Lifecycle!LifecycleNext
  <2>6. CASE EffectMove(runs[r], runs'[r])
    BY <1>5, <2>3, <2>6, EffectImplemented DEF Lifecycle!LifecycleNext
  <2> QED
    BY <1>5, <2>1, <2>2, <2>4, <2>5, <2>6, RowStepAllowed
<1> HIDE DEF Same
<1> QED
  BY <1>1, <1>2, <1>3, <1>4, <1>5, StepShape DEF vars

\* Every behaviour of the store's handlers is one that the domain's two
\* transition tables allow: no handler, in any interleaving, moves a run or an
\* effect along an arrow that RunState::transition or EffectState::transition
\* does not have.
THEOREM StoreFollowsDomain == Spec => ImplementsLifecycle
<1>1. Init => Lifecycle!LifecycleInit
  BY DEF Init, RunIds, Lifecycle!LifecycleInit
<1>2. TypeOK /\ TypeOK' /\ RowInv /\ [Next]_vars =>
        [Lifecycle!LifecycleNext]_(Lifecycle!lifecycleVars)
  BY StepImplemented
<1> QED
  BY <1>1, <1>2, RowsCorrect, PTL DEF Spec, ImplementsLifecycle,
     Lifecycle!LifecycleSpec
=============================================================================
