---------------------------- MODULE ReaperProofs ----------------------------
(***************************************************************************)
(* Permits are never lost and the reaper's queue never overflows, for any  *)
(* capacity and any number of children.                                    *)
(***************************************************************************)
EXTENDS Reaper, FiniteSetTheorems, TLAPS

Busy == {c \in Children : owner[c] # "free"}

ReaperTypeOK ==
  /\ owner \in [Children -> Owners]
  /\ process \in [Children -> Processes]
  /\ aborted \in BOOLEAN

\* The permits bound the queue because a child about to be queued holds one that
\* the queue does not.
ReaperInv == ReaperTypeOK /\ PermitsMatch /\ NeverAborts

\* Any set of children is finite.
LEMMA ChildrenFinite ==
  ASSUME NEW S \in SUBSET Children
  PROVE  IsFiniteSet(S) /\ Cardinality(S) \in Nat
BY ReaperAssumption, FS_Subset, FS_CardinalityType

\* Giving a free child an owner adds one to those that are owned.
LEMMA OwnedByOneMore ==
  ASSUME ReaperTypeOK, NEW c \in Children, owner[c] = "free",
         NEW o \in Owners \ {"free"}, owner' = [owner EXCEPT ![c] = o]
  PROVE  Cardinality(Busy') = Cardinality(Busy) + 1
<1>1. Busy' = Busy \cup {c} /\ c \notin Busy
  BY DEF Busy, ReaperTypeOK
<1>2. IsFiniteSet(Busy)
  BY ChildrenFinite DEF Busy
<1> QED BY <1>1, <1>2, FS_AddElement

\* Letting go of an owned child takes one away.
LEMMA OwnedByOneLess ==
  ASSUME ReaperTypeOK, NEW c \in Children, owner[c] # "free",
         owner' = [owner EXCEPT ![c] = "free"]
  PROVE  Cardinality(Busy') = Cardinality(Busy) - 1
<1>1. Busy' = Busy \ {c} /\ c \in Busy
  BY DEF Busy, ReaperTypeOK
<1>2. IsFiniteSet(Busy)
  BY ChildrenFinite DEF Busy
<1> QED BY <1>1, <1>2, FS_RemoveElement

\* Moving a child from one owner to another changes nothing.
LEMMA OwnedByAnother ==
  ASSUME ReaperTypeOK, NEW c \in Children, owner[c] # "free",
         NEW o \in Owners \ {"free"}, owner' = [owner EXCEPT ![c] = o]
  PROVE  Busy' = Busy
BY DEF Busy, ReaperTypeOK

\* A child that its supervisor kills finds room in the queue.
LEMMA RoomInQueue ==
  ASSUME ReaperInv, NEW c \in Children, owner[c] = "supervisor"
  PROVE  Cardinality(Held({"queue"})) < Capacity
<1> DEFINE Q == Held({"queue"})
<1>1. Q \subseteq Busy \ {c} /\ c \in Busy
  BY DEF Held, Busy
<1>2. IsFiniteSet(Busy) /\ IsFiniteSet(Busy \ {c})
  BY ChildrenFinite DEF Busy
<1>3. Cardinality(Busy \ {c}) = Cardinality(Busy) - 1
  BY <1>1, <1>2, FS_RemoveElement
<1>4. Cardinality(Q) =< Cardinality(Busy \ {c})
  BY <1>1, <1>2, FS_Subset
<1>5. Cardinality(Busy) =< Capacity
  BY DEF ReaperInv, PermitsMatch, Busy
<1>6. Cardinality(Q) \in Nat /\ Cardinality(Busy) \in Nat
  BY ChildrenFinite DEF Held, Busy
<1> QED BY <1>3, <1>4, <1>5, <1>6, ReaperAssumption

\* Every step keeps the invariant: one step per action, Release in common.
LEMMA ReaperStep == ReaperInv /\ [Next]_vars => ReaperInv'
<1> SUFFICES ASSUME ReaperInv, [Next]_vars PROVE ReaperInv'
  OBVIOUS
<1> USE DEF ReaperInv, NeverAborts
<1>0. /\ live = Cardinality(Busy) /\ live =< Capacity /\ ~aborted
      /\ live \in Nat /\ Capacity \in Nat
  BY ChildrenFinite, ReaperAssumption DEF PermitsMatch, Busy
<1>1. ASSUME NEW c \in Children, Release(c), aborted' = aborted,
             owner[c] # "free"
      PROVE  ReaperInv'
  <2>1. ReaperTypeOK'
    BY <1>1 DEF Release, ReaperTypeOK, Owners, Processes
  <2>a. ReaperTypeOK /\ owner' = [owner EXCEPT ![c] = "free"] /\ live' = live - 1
    BY <1>1 DEF Release
  <2>b. Cardinality(Busy') = Cardinality(Busy) - 1
    BY <1>1, <2>a, OwnedByOneLess
  <2>2. live' = Cardinality(Busy') /\ live' =< Capacity
    BY <1>0, <2>a, <2>b
  <2>3. \A d \in Children : process'[d] \in {"alive", "killed", "zombie"}
            => owner'[d] \in {"supervisor", "queue", "reaper"}
    BY <1>1 DEF Release, ReaperTypeOK, PermitsMatch
  <2> QED BY <1>0, <1>1, <2>1, <2>2, <2>3 DEF PermitsMatch, Busy
<1>2. ASSUME NEW c \in Children, Reserve(c) PROVE ReaperInv'
  <2>1. ReaperTypeOK'
    BY <1>2 DEF Reserve, ReaperTypeOK, Owners
  <2>a. /\ ReaperTypeOK /\ owner[c] = "free" /\ owner' = [owner EXCEPT ![c] = "spawn"]
        /\ "spawn" \in Owners \ {"free"} /\ live' = live + 1 /\ live < Capacity
    BY <1>2 DEF Reserve, HasPermit, Owners
  <2>b. Cardinality(Busy') = Cardinality(Busy) + 1
    BY <2>a, OwnedByOneMore
  <2>2. live' = Cardinality(Busy') /\ live' =< Capacity
    BY <1>0, <2>a, <2>b
  <2>3. \A d \in Children : process'[d] \in {"alive", "killed", "zombie"}
            => owner'[d] \in {"supervisor", "queue", "reaper"}
    BY <1>2 DEF Reserve, ReaperTypeOK, PermitsMatch
  <2> QED BY <1>0, <1>2, <2>1, <2>2, <2>3 DEF PermitsMatch, Busy, Reserve
<1>3. ASSUME NEW c \in Children, Spawn(c) PROVE ReaperInv'
  <2>1. ReaperTypeOK'
    BY <1>3 DEF Spawn, ReaperTypeOK, Owners, Processes
  <2>2. Busy' = Busy
    BY <1>3, OwnedByAnother DEF Spawn, Owners
  <2>3. \A d \in Children : process'[d] \in {"alive", "killed", "zombie"}
            => owner'[d] \in {"supervisor", "queue", "reaper"}
    BY <1>3 DEF Spawn, ReaperTypeOK, PermitsMatch
  <2> QED BY <1>0, <1>3, <2>1, <2>2, <2>3 DEF PermitsMatch, Busy, Spawn
<1>4. ASSUME NEW c \in Children, SpawnFails(c) \/ Disarm(c) \/ KillExited(c)
      PROVE  ReaperInv'
  BY <1>1, <1>4 DEF SpawnFails, Disarm, KillExited
<1>5. ASSUME NEW c \in Children, Exit(c) \/ Wait(c) PROVE ReaperInv'
  <2>1. ReaperTypeOK'
    BY <1>5 DEF Exit, Wait, ReaperTypeOK, Processes
  <2>2. \A d \in Children : process'[d] \in {"alive", "killed", "zombie"}
            => owner[d] \in {"supervisor", "queue", "reaper"}
    BY <1>5 DEF Exit, Wait, ReaperTypeOK, PermitsMatch
  <2>3. live' = live /\ owner' = owner /\ aborted' = aborted
    BY <1>5 DEF Exit, Wait
  <2> QED BY <2>1, <2>2, <2>3 DEF PermitsMatch
<1>6. ASSUME NEW c \in Children, KillLive(c) PROVE ReaperInv'
  <2>0. Cardinality(Held({"queue"})) \in Nat
    BY ChildrenFinite DEF Held
  <2>1. HandOver(c) /\ aborted' = aborted
    BY <1>0, <1>6, <2>0, RoomInQueue DEF KillLive
  <2>2. ReaperTypeOK'
    BY <1>6, <2>1 DEF KillLive, HandOver, ReaperTypeOK, Owners, Processes
  <2>3. Busy' = Busy
    BY <1>6, <2>1, OwnedByAnother DEF KillLive, HandOver, Owners
  <2>4. \A d \in Children : process'[d] \in {"alive", "killed", "zombie"}
            => owner'[d] \in {"supervisor", "queue", "reaper"}
    BY <1>6, <2>1 DEF KillLive, HandOver, ReaperTypeOK, PermitsMatch
  <2> QED BY <1>0, <2>1, <2>2, <2>3, <2>4 DEF PermitsMatch, Busy, HandOver
<1>7. ASSUME NEW c \in Children, TakeJob(c) PROVE ReaperInv'
  <2>1. ReaperTypeOK'
    BY <1>7 DEF TakeJob, ReaperTypeOK, Owners
  <2>2. Busy' = Busy
    BY <1>7, OwnedByAnother DEF TakeJob, Owners
  <2>3. \A d \in Children : process'[d] \in {"alive", "killed", "zombie"}
            => owner'[d] \in {"supervisor", "queue", "reaper"}
    BY <1>7 DEF TakeJob, ReaperTypeOK, PermitsMatch
  <2> QED BY <1>0, <1>7, <2>1, <2>2, <2>3 DEF PermitsMatch, Busy, TakeJob
<1>8. ASSUME Sweep PROVE ReaperInv'
  <2>0. PICK failed \in SUBSET Held({"reaper"}) : SweepBut(failed)
    BY <1>8 DEF Sweep
  <2> DEFINE done == {c \in Held({"reaper"}) \ failed : process[c] = "zombie"}
  <2>1. /\ live' = live - Cardinality(done)
        /\ owner' = [c \in Children |-> IF c \in done THEN "free" ELSE owner[c]]
        /\ process' = [c \in Children |-> IF c \in done THEN "none" ELSE process[c]]
        /\ aborted' = aborted
    BY <2>0 DEF SweepBut
  <2>2. done \subseteq Busy
    BY DEF Held, Busy
  <2> HIDE DEF done
  <2>3. ReaperTypeOK'
    BY <2>1 DEF ReaperTypeOK, Owners, Processes
  <2>4. Busy' = Busy \ done
    BY <2>1, <2>2 DEF Busy
  <2>5. IsFiniteSet(Busy) /\ Busy \cap done = done
    BY <2>2, ChildrenFinite DEF Busy
  <2>6. Cardinality(Busy') = Cardinality(Busy) - Cardinality(done)
    <3>1. Cardinality(Busy \ done) = Cardinality(Busy) - Cardinality(Busy \cap done)
      BY <2>5, FS_Difference
    <3> QED BY <2>4, <2>5, <3>1
  <2>7. Cardinality(done) \in Nat /\ Cardinality(done) =< Cardinality(Busy)
    BY <2>2, <2>5, FS_Subset, FS_CardinalityType
  <2>8. live' = Cardinality(Busy') /\ live' =< Capacity
    BY <1>0, <2>1, <2>6, <2>7
  <2>9. \A d \in Children : process'[d] \in {"alive", "killed", "zombie"}
            => owner'[d] \in {"supervisor", "queue", "reaper"}
    BY <2>1 DEF PermitsMatch
  <2> QED BY <1>0, <2>1, <2>3, <2>8, <2>9 DEF PermitsMatch, Busy
<1>9. CASE NoJob \/ UNCHANGED vars
  <2>1. live' = live /\ owner' = owner /\ process' = process /\ aborted' = aborted
    BY <1>9 DEF NoJob, vars
  <2> QED BY <2>1 DEF ReaperTypeOK, PermitsMatch
<1> QED BY <1>2, <1>3, <1>4, <1>5, <1>6, <1>7, <1>8, <1>9 DEF Next

\* The invariant holds of every behaviour.
LEMMA ReaperAlways == Spec => []ReaperInv
<1>1. Init => ReaperInv
  <2> SUFFICES ASSUME Init PROVE ReaperInv
    OBVIOUS
  <2>1. Busy = {}
    BY DEF Init, Busy
  <2>2. Cardinality(Busy) = 0
    BY <2>1, FS_EmptySet
  <2>3. Capacity \in Nat /\ 0 =< Capacity
    BY ReaperAssumption
  <2>4. ReaperTypeOK
    BY DEF Init, ReaperTypeOK, Owners, Processes
  <2>5. PermitsMatch
    BY <2>2, <2>3 DEF Init, PermitsMatch, Busy
  <2> QED BY <2>4, <2>5 DEF Init, ReaperInv, NeverAborts
<1> QED BY <1>1, ReaperStep, PTL DEF Spec

\* LIVE_RUNNERS counts exactly the owned children, stays within REAPER_CAPACITY,
\* and no process that was not waited for is without an owner.
THEOREM PermitsNeverLost == Spec => []PermitsMatch
<1>1. ReaperInv => PermitsMatch
  BY DEF ReaperInv
<1> QED BY <1>1, ReaperAlways, PTL

\* queue_reap never finds its queue full, so the supervisor never aborts.
THEOREM QueueNeverFull == Spec => []NeverAborts
<1>1. ReaperInv => NeverAborts
  BY DEF ReaperInv
<1> QED BY <1>1, ReaperAlways, PTL
=============================================================================
