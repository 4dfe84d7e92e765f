----------------------------- MODULE Invocation -----------------------------
(***************************************************************************)
(* One supervised invocation: Supervisor::run of                           *)
(* crates/runtime/src/supervisor.rs, the pipes and message sequences of    *)
(* ipc.rs, and at the other end either the real runner                     *)
(* (bin/effectlatch-runner.rs with the guest imports of abi.rs) or a child *)
(* that sends whatever it likes.                                           *)
(*                                                                         *)
(* Concurrency.  The supervisor's loop looks at the lease and the clock,   *)
(* at the broker's answer and at the child's next frame in three separate  *)
(* steps (pc).  A writer thread feeds stdin, a thread per effect calls the *)
(* broker and may outlive the call, and the child runs by itself.  In the  *)
(* runner an input thread moves responses from stdin to a channel the      *)
(* guest receives from.  The supervisor's reader thread and its channel    *)
(* only lengthen the stdout pipe: one queue stands for the three.          *)
(***************************************************************************)
EXTENDS Integers, Sequences

CONSTANTS
  HostCalls,    \* AbiCaps::host_calls, at most 64
  LogCap,       \* AbiCaps::log_bytes
  LogSizes,     \* lengths of log messages that are tried
  MaxEffects,   \* Limits::max_effects
  MessageCap,   \* frames a parent accepts: 128
  PipeCap,      \* frames between the child and the supervisor
  RogueIds      \* message ids that a child without protocol tries

ASSUME InvocationAssumption ==
  /\ HostCalls \in Nat \ {0} /\ LogCap \in Nat \ {0}
  /\ LogSizes \subseteq Nat /\ MaxEffects \in Nat
  /\ MessageCap \in Nat /\ HostCalls < MessageCap
  /\ PipeCap \in Nat \ {0} /\ RogueIds \subseteq Nat

VARIABLES
  pc,               \* where the supervisor is; "dead" if its process died
  result,           \* what run returned
  sequence,         \* ParentSequence
  errorCode,        \* the finish frame carried an error code
  dispatchPending,  \* dispatch_pending
  outgoing,         \* what the writer thread still has to write
  lease,            \* broker.lease_state()
  late,             \* the deadline has passed
  dispatches,       \* what the broker knows of the effect with message id i
  stdin, stdout,    \* the pipes
  honest,           \* the child is the real runner
  child,            \* its phase
  abi,              \* State of abi.rs and IpcDispatcher
  toWrite           \* frames the runner writes before it exits

parent == <<pc, result, sequence, errorCode, dispatchPending, outgoing>>
runner == <<honest, child, abi, toWrite>>
vars == <<parent, lease, late, dispatches, stdin, stdout, runner>>

\* What the steps of one side leave alone.
messages == <<sequence, errorCode, dispatchPending, outgoing, lease, late,
              dispatches, stdin, stdout>>
others == <<parent, lease, late, dispatches>>

LeaseStates == {"Current", "Cancelled", "Lost"}
Results == {"none", "ok", "Cancelled", "LeaseLost", "Deadline", "BrokerResponse",
            "Io", "Protocol", "Sequence", "RunnerFailure", "ChildExit"}
Ended == {"done", "dead"}
Gone == {"exit0", "exit1", "killed"}

\* A child's frame; n is the message id of an effect or the length of a log.
Frame(kind, n, error) == [kind |-> kind, n |-> n, error |-> error]
Frames ==
  [kind : {"effect"}, n : Nat, error : {FALSE}]
    \cup [kind : {"log"}, n : Nat, error : {FALSE}]
    \cup [kind : {"finish", "bad"}, n : {0}, error : BOOLEAN]

\* What the supervisor writes: the start frame, then responses.
Message(id, status) == [id |-> id, status |-> status]
Nothing == Message(0, "nothing")
Messages == [id : Nat, status : {"nothing", "start", "committed", "failed", "unresolved"}]

Init ==
  /\ pc = "start" /\ result = "none" /\ errorCode = FALSE
  /\ sequence = [next |-> 1, pending |-> 0, finished |-> FALSE,
                 logBytes |-> 0, messages |-> 0]
  /\ dispatchPending = FALSE
  /\ outgoing = Message(0, "start")
  /\ lease = "Current" /\ late = FALSE
  /\ dispatches = <<>> /\ stdin = <<>> /\ stdout = <<>>
  /\ honest \in BOOLEAN
  /\ child = IF honest THEN "boot" ELSE "rogue"
  /\ abi = [calls |-> 0, sticky |-> FALSE, logs |-> <<>>, logBytes |-> 0,
            output |-> FALSE, asked |-> 0, next |-> 0, sent |-> 0,
            responses |-> <<>>]
  /\ toWrite = <<>>

-----------------------------------------------------------------------------
(* The supervisor. *)

\* run returns: unless the child has exited, dropping RunnerChild kills it.
Return(r) ==
  /\ pc' = "done" /\ result' = r
  /\ child' = IF child \in Gone THEN child ELSE "killed"
  /\ UNCHANGED <<honest, abi, toWrite>>

Continue(where) ==
  /\ pc' = where
  /\ UNCHANGED <<result, runner>>

LeaseError == IF lease = "Cancelled" THEN "Cancelled" ELSE "LeaseLost"

\* Lease first, then the clock, at the top of the loop and of each wait.
\* Mutant: the deadline is not looked at.
StoppedByLease == lease # "Current"

Stopped == lease # "Current" \/ late

Stop == Return(IF lease # "Current" THEN LeaseError ELSE "Deadline")

\* write_bounded: the writer thread is done, its pipe is broken, or time is up.
WriteBounded(where) ==
  /\ \/ Stopped /\ Stop
     \/ ~Stopped /\ outgoing = Nothing /\ Continue(where)
     \/ ~Stopped /\ outgoing # Nothing /\ child \in Gone /\ Return("Io")
  /\ UNCHANGED messages

WriteStart == pc = "start" /\ WriteBounded("check")

WriteResponse == pc = "respond" /\ WriteBounded("recv")

\* The module or the input does not fit a start frame.
StartRejected ==
  /\ pc = "start" /\ outgoing # Nothing
  /\ Return("Protocol")
  /\ UNCHANGED messages

\* lease_state is a call of the broker; it is taken to return.
CheckLease ==
  /\ pc = "check"
  /\ \/ Stopped /\ Stop
     \/ ~Stopped /\ Continue("poll")
  /\ UNCHANGED messages

\* The pending effect is the newest; its thread sends the broker's answer.
Asked == Len(dispatches)

InProgress == {"started", "intent"}

\* Mutant: a silent broker counts as an answer.
AnsweredAtOnce == TRUE

Answered == dispatches[Asked] \notin InProgress

PollNothing ==
  /\ pc = "poll"
  /\ dispatchPending => ~Answered
  /\ Continue("recv")
  /\ UNCHANGED messages

\* The answer ends the run: the lease is gone, or the reply is not to the request.
PollReturns ==
  /\ pc = "poll" /\ dispatchPending /\ Answered
  /\ \/ dispatches[Asked] = "mismatch" /\ Return("BrokerResponse")
     \/ dispatches[Asked] = "cancelled" /\ Return("Cancelled")
     \/ dispatches[Asked] = "lost" /\ Return("LeaseLost")
  /\ dispatchPending' = FALSE
  /\ UNCHANGED <<sequence, errorCode, outgoing, lease, late, dispatches, stdin, stdout>>

\* EffectResponse: committed, or a failure's code.
Response == IF dispatches[Asked] \in {"committed", "unresolved"}
              THEN dispatches[Asked] ELSE "failed"

PollResponds ==
  /\ pc = "poll" /\ dispatchPending /\ Answered
  /\ dispatches[Asked] \notin {"mismatch", "cancelled", "lost"}
  /\ dispatchPending' = FALSE
  /\ \/ /\ sequence.pending = Asked
        /\ sequence' = [sequence EXCEPT !.pending = 0]
        /\ outgoing' = Message(Asked, Response)
        /\ Continue("respond")
     \/ /\ sequence.pending # Asked
        /\ Return("Sequence")
        /\ UNCHANGED <<sequence, outgoing>>
  /\ UNCHANGED <<errorCode, lease, late, dispatches, stdin, stdout>>

\* The reply does not fit a response frame.
PollOversized ==
  /\ pc = "poll" /\ dispatchPending
  /\ dispatches[Asked] = "committed" /\ sequence.pending = Asked
  /\ dispatchPending' = FALSE
  /\ sequence' = [sequence EXCEPT !.pending = 0]
  /\ Return("Protocol")
  /\ UNCHANGED <<errorCode, outgoing, lease, late, dispatches, stdin, stdout>>

\* Mutant: frames are not counted, and finish does not end them.
AcceptsAnyNumber(f) ==
  /\ sequence.pending = 0
  /\ \/ f.kind = "effect" /\ f.n = sequence.next
     \/ f.kind = "log" /\ f.n =< LogCap - sequence.logBytes
     \/ f.kind = "finish"

\* ParentSequence::observe accepts frame f.
Accepts(f) ==
  /\ ~sequence.finished
  /\ sequence.messages < MessageCap
  /\ sequence.pending = 0
  /\ \/ f.kind = "effect" /\ f.n = sequence.next
     \/ f.kind = "log" /\ f.n =< LogCap - sequence.logBytes
     \/ f.kind = "finish"

Observe(f) ==
  [next |-> IF f.kind = "effect" THEN sequence.next + 1 ELSE sequence.next,
   pending |-> IF f.kind = "effect" THEN f.n ELSE 0,
   finished |-> f.kind = "finish",
   logBytes |-> IF f.kind = "log" THEN sequence.logBytes + f.n ELSE sequence.logBytes,
   messages |-> sequence.messages + 1]

\* No frame within LEASE_POLL.
RecvTimeout ==
  /\ pc = "recv"
  /\ Continue("check")
  /\ UNCHANGED messages

\* The child is gone and everything it wrote has been read: read_child fails.
RecvBroken ==
  /\ pc = "recv" /\ stdout = <<>> /\ child \in Gone
  /\ Return("Protocol")
  /\ UNCHANGED messages

\* A frame that read_child or the sequence refuses.
RecvRefused ==
  /\ pc = "recv" /\ stdout # <<>>
  /\ LET f == Head(stdout) IN
       \/ f.kind = "bad" /\ Return("Protocol")
       \/ f.kind # "bad" /\ ~Accepts(f) /\ Return("Sequence")
  /\ stdout' = Tail(stdout)
  /\ UNCHANGED <<sequence, errorCode, dispatchPending, outgoing, lease, late,
                 dispatches, stdin>>

\* An effect request starts a dispatch thread.
RecvEffect ==
  /\ pc = "recv" /\ stdout # <<>>
  /\ Head(stdout).kind = "effect" /\ Accepts(Head(stdout))
  /\ stdout' = Tail(stdout)
  /\ sequence' = Observe(Head(stdout))
  /\ \/ /\ ~dispatchPending
        /\ dispatchPending' = TRUE
        /\ dispatches' = Append(dispatches, "started")
        /\ Continue("check")
     \/ /\ dispatchPending
        /\ Return("Sequence")
        /\ UNCHANGED <<dispatchPending, dispatches>>
  /\ UNCHANGED <<errorCode, outgoing, lease, late, stdin>>

RecvLog ==
  /\ pc = "recv" /\ stdout # <<>>
  /\ Head(stdout).kind = "log" /\ Accepts(Head(stdout))
  /\ stdout' = Tail(stdout)
  /\ sequence' = Observe(Head(stdout))
  /\ Continue("check")
  /\ UNCHANGED <<errorCode, dispatchPending, outgoing, lease, late, dispatches, stdin>>

RecvFinish ==
  /\ pc = "recv" /\ stdout # <<>>
  /\ Head(stdout).kind = "finish" /\ Accepts(Head(stdout))
  /\ stdout' = Tail(stdout)
  /\ sequence' = Observe(Head(stdout))
  /\ errorCode' = Head(stdout).error
  /\ \/ dispatchPending /\ Return("Sequence")
     \/ ~dispatchPending /\ Continue("wait")
  /\ UNCHANGED <<dispatchPending, outgoing, lease, late, dispatches, stdin>>

\* wait_bounded sees the child's exit before either deadline.
WaitExit ==
  /\ pc = "wait" /\ ~late
  /\ \/ child = "exit0" /\ Return(IF errorCode THEN "RunnerFailure" ELSE "ok")
     \/ child = "exit1" /\ Return("ChildExit")
  /\ UNCHANGED messages

\* The deadline or CLEANUP_WAIT passes first, or killing the group fails.
WaitTimeout ==
  /\ pc = "wait"
  /\ Return("Io")
  /\ UNCHANGED messages

\* The supervisor's process dies without running any destructor.
ParentDies ==
  /\ pc \notin Ended
  /\ pc' = "dead"
  /\ UNCHANGED <<result, messages, runner>>

\* The writer thread's write_all returns.
WriterWrites ==
  /\ outgoing # Nothing /\ pc # "dead" /\ child \notin Gone
  /\ stdin' = Append(stdin, outgoing)
  /\ outgoing' = Nothing
  /\ UNCHANGED <<pc, result, sequence, errorCode, dispatchPending, lease, late,
                 dispatches, stdout, runner>>

-----------------------------------------------------------------------------
(* The broker and the clock. *)

\* dispatch_if_current checks the lease and commits the intent in one step.
Authorize(i) ==
  /\ pc # "dead" /\ dispatches[i] = "started"
  /\ \E to \in {"intent", "failed", "cancelled", "lost"} :
       /\ to \in {"intent", "failed"} => lease = "Current"
       /\ to = "cancelled" => lease = "Cancelled"
       /\ to = "lost" => lease = "Lost"
       /\ dispatches' = [dispatches EXCEPT ![i] = to]
  /\ UNCHANGED <<parent, lease, late, stdin, stdout, runner>>

\* valid_reply is false of a "mismatch".
Resolve(i) ==
  /\ pc # "dead" /\ dispatches[i] = "intent"
  /\ \E to \in {"committed", "mismatch", "failed", "unresolved"} :
       dispatches' = [dispatches EXCEPT ![i] = to]
  /\ UNCHANGED <<parent, lease, late, stdin, stdout, runner>>

\* Cancellation or loss of the lease, and never back, while somebody looks.
LeaseChanges ==
  /\ pc \notin Ended \/ \E i \in DOMAIN dispatches : dispatches[i] = "started"
  /\ \/ lease = "Current" /\ lease' = "Cancelled"
     \/ lease # "Lost" /\ lease' = "Lost"
  /\ UNCHANGED <<parent, late, dispatches, stdin, stdout, runner>>

DeadlinePasses ==
  /\ ~late /\ pc \notin Ended
  /\ late' = TRUE
  /\ UNCHANGED <<parent, lease, dispatches, stdin, stdout, runner>>

-----------------------------------------------------------------------------
(* The real runner. *)

\* A write to stdout succeeds: there is room, and somebody reads.
CanWrite == Len(stdout) < PipeCap /\ pc # "dead"

\* Read the start frame; the guest starts, or its module does not compile.
Boot ==
  /\ child = "boot" /\ stdin # <<>>
  /\ stdin' = Tail(stdin)
  /\ \/ child' = "run" /\ UNCHANGED toWrite
     \/ child' = "flush" /\ toWrite' = <<Frame("finish", 0, TRUE)>>
  /\ UNCHANGED <<others, stdout, honest, abi>>

\* budget: the call is counted; calls beyond the cap are all alike.
Counted == [abi EXCEPT !.calls = IF @ > HostCalls THEN @ ELSE @ + 1]

BudgetLeft == ~abi.sticky /\ ~abi.output /\ abi.calls < HostCalls

\* An import that changes nothing but State.
GuestCall(after) ==
  /\ child = "run"
  /\ abi' = after
  /\ UNCHANGED <<others, stdin, stdout, honest, child, toWrite>>

GuestRefused == ~BudgetLeft /\ GuestCall([Counted EXCEPT !.sticky = TRUE])

\* input_len and input_read.
GuestInput == BudgetLeft /\ GuestCall(Counted)

\* Bad memory, size, text or request in any import.
GuestInvalid == BudgetLeft /\ GuestCall([Counted EXCEPT !.sticky = TRUE])

GuestOutput == BudgetLeft /\ GuestCall([Counted EXCEPT !.output = TRUE])

\* Mutant: each message is compared with the whole cap.
LogFitsAlone(n) == n =< LogCap

LogFits(n) == n =< LogCap - abi.logBytes

GuestLog(n) ==
  /\ BudgetLeft /\ LogFits(n)
  /\ GuestCall([Counted EXCEPT !.logs = Append(@, n), !.logBytes = @ + n])

\* Mutant: the guest goes on without its response.
GuestEffectNoWait(o) ==
  /\ child = "run" /\ BudgetLeft
  /\ o =< abi.next /\ o < MaxEffects
  /\ CanWrite
  /\ abi' = [Counted EXCEPT !.asked = o, !.sent = @ + 1]
  /\ stdout' = Append(stdout, Frame("effect", abi.sent + 1, FALSE))
  /\ UNCHANGED <<others, stdin, honest, child, toWrite>>

\* effect_call up to the request frame; later ordinals are refused (GuestInvalid).
GuestEffect(o) ==
  /\ child = "run" /\ BudgetLeft
  /\ o =< abi.next /\ o < MaxEffects
  /\ CanWrite
  /\ abi' = [Counted EXCEPT !.asked = o, !.sent = @ + 1]
  /\ stdout' = Append(stdout, Frame("effect", abi.sent + 1, FALSE))
  /\ child' = "await"
  /\ UNCHANGED <<others, stdin, honest, toWrite>>

\* Mutant: a failed effect is forgotten.
FailedOnce == abi

\* dispatch failed: later calls get the same code.
Failed == [abi EXCEPT !.sticky = TRUE]

\* effect_call after the response: "failed" goes on, "unresolved" traps, and so
\* does a committed reply that is too large for the guest.
GuestResponse ==
  /\ child = "await" /\ abi.responses # <<>>
  /\ LET response == Head(abi.responses)
         status == IF response.id = abi.sent THEN response.status ELSE "failed"
     IN
       \/ /\ status = "committed"
          /\ abi' = [abi EXCEPT !.next = IF abi.asked = @ THEN @ + 1 ELSE @,
                                !.responses = Tail(@)]
          /\ child' = "run" /\ UNCHANGED toWrite
       \/ /\ status = "failed"
          /\ abi' = [Failed EXCEPT !.responses = Tail(@)]
          /\ child' = "run" /\ UNCHANGED toWrite
       \/ /\ status \in {"committed", "unresolved"}
          /\ abi' = [Failed EXCEPT !.responses = Tail(@)]
          /\ child' = "flush" /\ toWrite' = <<Frame("finish", 0, TRUE)>>
  /\ UNCHANGED <<others, stdin, stdout, honest>>

LogFrames == [i \in DOMAIN abi.logs |-> Frame("log", abi.logs[i], FALSE)]

\* Mutant: a guest that returns has succeeded.
GuestReturnsAnyway ==
  /\ child = "run" /\ child' = "flush"
  /\ toWrite' = Append(LogFrames, Frame("finish", 0, FALSE))
  /\ UNCHANGED <<others, stdin, stdout, honest, abi>>

\* The guest's run returns (whatever its code) ...
GuestReturns ==
  /\ child = "run" /\ child' = "flush"
  /\ toWrite' = IF abi.sticky THEN <<Frame("finish", 0, TRUE)>>
                ELSE Append(LogFrames, Frame("finish", 0, FALSE))
  /\ UNCHANGED <<others, stdin, stdout, honest, abi>>

\* ... or traps: fuel, memory, the watchdog, its own code.
GuestTraps ==
  /\ child = "run" /\ child' = "flush"
  /\ toWrite' = <<Frame("finish", 0, TRUE)>>
  /\ UNCHANGED <<others, stdin, stdout, honest, abi>>

RunnerWrites ==
  /\ child = "flush" /\ toWrite # <<>> /\ CanWrite
  /\ stdout' = Append(stdout, Head(toWrite))
  /\ toWrite' = Tail(toWrite)
  /\ UNCHANGED <<others, stdin, honest, child, abi>>

RunnerExits ==
  /\ child = "flush" /\ toWrite = <<>>
  /\ child' = "exit0"
  /\ UNCHANGED <<others, stdin, stdout, honest, abi, toWrite>>

\* Killed from outside, out of memory, or run() returns an error.
RunnerCrashes ==
  /\ honest /\ child \notin Gone
  /\ child' = "exit1"
  /\ UNCHANGED <<others, stdin, stdout, honest, abi, toWrite>>

\* sync_channel(1): one response waits in it, the next with the input thread.
InputBlocked == Len(abi.responses) > 1

\* The input thread reads a response and sends it to the guest; once the guest
\* has ended nobody receives, and the process exits.
InputReads ==
  /\ child \in {"run", "await", "flush"} /\ stdin # <<>> /\ ~InputBlocked
  /\ stdin' = Tail(stdin)
  /\ abi' = [abi EXCEPT !.responses = Append(@, Head(stdin))]
  /\ child' = IF child = "flush" THEN "exit1" ELSE child
  /\ UNCHANGED <<others, stdout, honest, toWrite>>

\* End of file on stdin: PARENT_GONE_EXIT, or an error from read_start.
ParentGone ==
  /\ honest /\ child \notin Gone /\ pc = "dead"
  /\ stdin = <<>> /\ ~InputBlocked
  /\ child' = "exit1"
  /\ UNCHANGED <<others, stdin, stdout, honest, abi, toWrite>>

-----------------------------------------------------------------------------
(* A child that follows no protocol. *)

RogueFrames ==
  {Frame("effect", id, FALSE) : id \in RogueIds}
    \cup {Frame("log", n, FALSE) : n \in LogSizes}
    \cup {Frame("finish", 0, e) : e \in BOOLEAN} \cup {Frame("bad", 0, FALSE)}

RogueSends(f) ==
  /\ child = "rogue" /\ CanWrite
  /\ stdout' = Append(stdout, f)
  /\ UNCHANGED <<others, stdin, runner>>

RogueReads ==
  /\ child = "rogue" /\ stdin # <<>>
  /\ stdin' = Tail(stdin)
  /\ UNCHANGED <<others, stdout, runner>>

RogueExits ==
  /\ child = "rogue" /\ child' \in {"exit0", "exit1"}
  /\ UNCHANGED <<others, stdin, stdout, honest, abi, toWrite>>

-----------------------------------------------------------------------------
\* The thread in Supervisor::run; each of its waits is bounded.
Supervise ==
  \/ StartRejected \/ WriteStart \/ WriteResponse \/ CheckLease
  \/ PollNothing \/ PollReturns \/ PollResponds \/ PollOversized
  \/ RecvTimeout \/ RecvBroken \/ RecvRefused \/ RecvEffect \/ RecvLog \/ RecvFinish
  \/ WaitExit \/ WaitTimeout

Broker == \E i \in DOMAIN dispatches : Authorize(i) \/ Resolve(i)

Guest ==
  \/ GuestRefused \/ GuestInput \/ GuestInvalid \/ GuestOutput
  \/ \E n \in LogSizes : GuestLog(n)
  \/ \E o \in 0..MaxEffects : GuestEffect(o)
  \/ GuestResponse \/ GuestReturns \/ GuestTraps

Input == InputReads \/ ParentGone

Runner == Boot \/ Guest \/ RunnerWrites \/ RunnerExits \/ RunnerCrashes \/ Input

Rogue == (\E f \in RogueFrames : RogueSends(f)) \/ RogueReads \/ RogueExits

Next ==
  \/ Supervise \/ WriterWrites \/ ParentDies
  \/ Broker \/ LeaseChanges \/ DeadlinePasses
  \/ Runner \/ Rogue

Spec == Init /\ [][Next]_vars

\* The supervisor's thread runs.
FairSpec == Spec /\ WF_vars(Supervise)

-----------------------------------------------------------------------------
(* What should hold. *)

DispatchStates == {"started", "intent", "committed", "mismatch", "failed",
                   "unresolved", "cancelled", "lost"}

\* The types of the supervisor's and the runner's state; ParentSequence never
\* takes more frames or log bytes than its caps, whatever the child sends.
InvocationTypeOK ==
  /\ pc \in {"start", "check", "poll", "recv", "respond", "wait"} \cup Ended
  /\ result \in Results /\ lease \in LeaseStates
  /\ sequence \in [next : Nat, pending : Nat, finished : BOOLEAN,
                   logBytes : 0..LogCap, messages : 0..MessageCap]
  /\ errorCode \in BOOLEAN /\ dispatchPending \in BOOLEAN /\ late \in BOOLEAN
  /\ outgoing \in Messages /\ stdin \in Seq(Messages)
  /\ dispatches \in Seq(DispatchStates)
  /\ stdout \in Seq(Frames) /\ toWrite \in Seq(Frames)
  /\ honest \in BOOLEAN
  /\ child \in {"boot", "run", "await", "flush", "rogue"} \cup Gone
  /\ abi \in [calls : 0..(HostCalls + 1), sticky : BOOLEAN, logs : Seq(Nat),
              logBytes : 0..LogCap, output : BOOLEAN, asked : Nat, next : Nat,
              sent : Nat, responses : Seq(Messages)]

\* Whatever frames the child sends, the broker works on one effect of a run at a
\* time, the one with the newest message id, and outside the write of a response
\* dispatch_pending and ParentSequence::pending agree on it.
OneDispatch ==
  /\ \A i \in DOMAIN dispatches : dispatches[i] \in InProgress => i = Asked
  /\ pc \notin Ended => sequence.pending = IF dispatchPending THEN Asked ELSE 0

\* run returns Ok only after the child exited by itself with status 0 and no
\* effect is left at the broker; of the real runner, every effect it asked for
\* was committed and every log message it kept has arrived.
SuccessIsCommitted ==
  result = "ok" =>
    /\ child = "exit0"
    /\ \A i \in DOMAIN dispatches : dispatches[i] \notin InProgress
    /\ honest =>
         /\ \A i \in DOMAIN dispatches : dispatches[i] = "committed"
         /\ Len(dispatches) = abi.sent
         /\ sequence.logBytes = abi.logBytes
         /\ sequence.messages = Len(abi.logs) + abi.sent + 1

\* The caps of the ABI keep the real runner within the caps of ParentSequence,
\* whatever its guest calls: the supervisor never rejects its frames.
HonestNeverRejected == honest => result # "Sequence"

\* After an effect of the real runner failed, was refused or is unresolved, no
\* further effect of that run reaches the broker (State::sticky).
StopsAtFailure ==
  honest => \A i \in DOMAIN dispatches : i < Asked => dispatches[i] = "committed"

\* run returns once its lease is lost or cancelled or its deadline has passed,
\* even if the child neither reads nor writes nor exits and the broker is silent.
InvocationEnds == (late \/ lease # "Current") ~> pc \in Ended

\* What is being written, is in stdin or was read by the input thread.
OnItsWay ==
  (IF outgoing = Nothing THEN <<>> ELSE <<outgoing>>) \o stdin \o abi.responses

\* A response on its way to the real runner is the only one, and answers the
\* request that the guest waits in: it is never taken for the answer to another
\* request, and never arrives when the receiver is gone, which would end a run
\* that has finished.  So the input thread is never stuck in a send of a response
\* that the guest does not receive: when the supervisor's process dies it is at
\* its read, and ends a runner whose guest never calls the host again.
ResponsesAwaited ==
  honest /\ child \in {"run", "await", "flush"} =>
    /\ Len(OnItsWay) =< IF child = "await" THEN 1 ELSE 0
    /\ \A i \in DOMAIN OnItsWay : OnItsWay[i].id = abi.sent
=============================================================================
