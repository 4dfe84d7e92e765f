------------------------------- MODULE Reaper -------------------------------
(***************************************************************************)
(* The life of runner processes across invocations: the permits of         *)
(* LIVE_RUNNERS, RunnerChild, and the reaper thread that waits for killed  *)
(* children (crates/runtime/src/supervisor.rs).  An invocation must not    *)
(* block on a child that is slow to die, so it hands the child and its     *)
(* permit to the reaper; both must come back, and the hand-over must never *)
(* find the reaper's queue full, for then the process aborts.              *)
(*                                                                         *)
(* Any number of threads run invocations, so a child is all there is to    *)
(* tell them apart.  The queue is a set: its order matters to nobody.      *)
(***************************************************************************)
EXTENDS Integers, FiniteSets

CONSTANTS
  Children,   \* RunnerChild values that can exist at once; bound of the model
  Capacity    \* REAPER_CAPACITY: 8

ASSUME ReaperAssumption == IsFiniteSet(Children) /\ Capacity \in Nat \ {0}

VARIABLES
  live,      \* LIVE_RUNNERS
  owner,     \* who holds a child and its permit
  process,   \* the child's process
  turn,      \* the reaper thread: about to take a job, or to sweep
  aborted    \* std::process::abort

vars == <<live, owner, process, turn, aborted>>

\* "free": no such child.  "spawn": a permit and no process yet.
Owners == {"free", "spawn", "supervisor", "queue", "reaper"}

\* "killed": SIGKILL sent.  "zombie": exited.  "reaped": waited for.
Processes == {"none", "alive", "killed", "zombie", "reaped"}

Held(by) == {c \in Children : owner[c] \in by}

Init ==
  /\ live = 0
  /\ owner = [c \in Children |-> "free"]
  /\ process = [c \in Children |-> "none"]
  /\ turn = "take"
  /\ aborted = FALSE

-----------------------------------------------------------------------------
\* Mutant: one permit too many.
HasPermitOffByOne == live =< Capacity

\* fetch_update's condition.
HasPermit == live < Capacity

\* ReapPermit::reserve.
Reserve(c) ==
  /\ ~aborted /\ owner[c] = "free" /\ HasPermit
  /\ live' = live + 1
  /\ owner' = [owner EXCEPT ![c] = "spawn"]
  /\ UNCHANGED <<process, turn, aborted>>

\* Dropping the last owner of a child drops its permit.
Release(c) ==
  /\ live' = live - 1
  /\ owner' = [owner EXCEPT ![c] = "free"]
  /\ process' = [process EXCEPT ![c] = "none"]

Spawn(c) ==
  /\ ~aborted /\ owner[c] = "spawn"
  /\ owner' = [owner EXCEPT ![c] = "supervisor"]
  /\ process' = [process EXCEPT ![c] = "alive"]
  /\ UNCHANGED <<live, turn, aborted>>

SpawnFails(c) ==
  /\ ~aborted /\ owner[c] = "spawn"
  /\ Release(c)
  /\ UNCHANGED <<turn, aborted>>

\* The process ends: by itself, or because it was killed.
Exit(c) ==
  /\ process[c] \in {"alive", "killed"}
  /\ process' = [process EXCEPT ![c] = "zombie"]
  /\ UNCHANGED <<live, owner, turn, aborted>>

\* wait_bounded's try_wait.
Wait(c) ==
  /\ ~aborted /\ owner[c] = "supervisor" /\ process[c] = "zombie"
  /\ process' = [process EXCEPT ![c] = "reaped"]
  /\ UNCHANGED <<live, owner, turn, aborted>>

\* run returns Ok: disarm, and the child is dropped after it was waited for.
Disarm(c) ==
  /\ ~aborted /\ owner[c] = "supervisor" /\ process[c] = "reaped"
  /\ Release(c)
  /\ UNCHANGED <<turn, aborted>>

\* The drop of RunnerChild on any error finds a child that has exited.
KillExited(c) ==
  /\ ~aborted /\ owner[c] = "supervisor" /\ process[c] \in {"zombie", "reaped"}
  /\ Release(c)
  /\ UNCHANGED <<turn, aborted>>

\* Mutant: the permit stays with RunnerChild and is dropped with it.
HandOverWithoutPermit(c) ==
  /\ owner' = [owner EXCEPT ![c] = "queue"]
  /\ live' = live - 1

\* The job carries the permit.
HandOver(c) ==
  /\ owner' = [owner EXCEPT ![c] = "queue"]
  /\ UNCHANGED live

\* kill_tree of a child that has not exited when try_wait looks: queue_reap.
KillLive(c) ==
  /\ ~aborted /\ owner[c] = "supervisor" /\ process[c] = "alive"
  /\ process' = [process EXCEPT ![c] = "killed"]
  /\ \/ /\ Cardinality(Held({"queue"})) < Capacity
        /\ HandOver(c)
        /\ UNCHANGED aborted
     \/ /\ Cardinality(Held({"queue"})) >= Capacity
        /\ aborted' = TRUE
        /\ UNCHANGED <<owner, live>>
  /\ UNCHANGED turn

-----------------------------------------------------------------------------
\* recv_timeout gives a job.
TakeJob(c) ==
  /\ ~aborted /\ turn = "take"
  /\ Cardinality(Held({"reaper"})) < Capacity
  /\ owner[c] = "queue"
  /\ owner' = [owner EXCEPT ![c] = "reaper"]
  /\ turn' = "sweep"
  /\ UNCHANGED <<live, process, aborted>>

\* Mutant: recv instead of recv_timeout.
NoJobNever == FALSE /\ UNCHANGED vars

\* recv_timeout runs out, or the reaper sleeps because it has enough to do.
NoJob ==
  /\ ~aborted /\ turn = "take"
  /\ \/ Held({"queue"}) = {}
     \/ Cardinality(Held({"reaper"})) >= Capacity
  /\ turn' = "sweep"
  /\ UNCHANGED <<live, owner, process, aborted>>

\* active.retain_mut: jobs whose child has exited are dropped.  A child for which
\* try_wait fails is kept for the next round.
SweepBut(failed) ==
  /\ ~aborted /\ turn = "sweep" /\ turn' = "take"
  /\ LET done == {c \in Held({"reaper"}) \ failed : process[c] = "zombie"} IN
       /\ live' = live - Cardinality(done)
       /\ owner' = [c \in Children |-> IF c \in done THEN "free" ELSE owner[c]]
       /\ process' = [c \in Children |-> IF c \in done THEN "none" ELSE process[c]]
  /\ UNCHANGED aborted

Sweep == \E failed \in SUBSET Held({"reaper"}) : SweepBut(failed)

-----------------------------------------------------------------------------
Next ==
  \/ \E c \in Children :
       \/ Reserve(c) \/ Spawn(c) \/ SpawnFails(c) \/ Exit(c)
       \/ Wait(c) \/ Disarm(c) \/ KillExited(c) \/ KillLive(c) \/ TakeJob(c)
  \/ NoJob \/ Sweep

Spec == Init /\ [][Next]_vars

\* A killed process dies and the reaper's loop runs; its queue is in order, so
\* each job is taken; try_wait may fail, but not for ever.
FairSpec ==
  /\ Spec
  /\ \A c \in Children :
       WF_vars(process[c] = "killed" /\ Exit(c)) /\ SF_vars(TakeJob(c))
  /\ WF_vars(NoJob) /\ WF_vars(Sweep) /\ SF_vars(SweepBut({}))

-----------------------------------------------------------------------------
(* What should hold. *)

\* LIVE_RUNNERS counts the children somebody owns and never passes its cap, and
\* every process that was not waited for has an owner that will: none is lost
\* and none is counted twice, wherever it is handed over.
PermitsMatch ==
  /\ live = Cardinality({c \in Children : owner[c] # "free"})
  /\ live =< Capacity
  /\ \A c \in Children :
       process[c] \in {"alive", "killed", "zombie"}
         => owner[c] \in {"supervisor", "queue", "reaper"}

\* "a live child cannot find a full queue": queue_reap never aborts the process.
NeverAborts == ~aborted

\* A child handed to the reaper is waited for and its permit comes back, even if
\* no further child is ever killed.
KilledAreReaped ==
  \A c \in Children : owner[c] \in {"queue", "reaper"} ~> owner[c] = "free"
=============================================================================
