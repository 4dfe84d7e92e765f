-------------------------- MODULE InvocationProofs --------------------------
(***************************************************************************)
(* Proofs about Invocation: whatever frames the child sends, the broker    *)
(* works on one effect at a time; and the real runner's frames are always  *)
(* accepted, so that an Ok result means that everything it asked for was   *)
(* committed and everything it logged has arrived.                         *)
(*                                                                         *)
(* The caps are kept on two sides that share no state: State of abi.rs     *)
(* counts the guest's calls and log bytes, ParentSequence counts frames    *)
(* and the bytes of log frames.  The invariant relates the two through the *)
(* frames under way (Quiet, Awaiting, Flushing).                           *)
(***************************************************************************)
EXTENDS Invocation, SequenceTheorems, TLAPS

Finish(error) == Frame("finish", 0, error)

AllCommitted == \A i \in 1..Len(dispatches) : dispatches[i] = "committed"

-----------------------------------------------------------------------------
(* The inductive invariant. *)

\* One dispatch thread at a time, and both of the supervisor's records of it
\* agree, whatever the child does.
ThreadInv ==
  /\ \A i \in 1..Len(dispatches) : dispatches[i] \in InProgress =>
       i = Len(dispatches) /\ dispatchPending
  /\ dispatchPending => Len(dispatches) > 0
  /\ pc \notin Ended =>
       /\ sequence.pending = (IF dispatchPending THEN Len(dispatches) ELSE 0)
       /\ sequence.next = Len(dispatches) + 1
  /\ pc = "wait" => ~dispatchPending

\* f[i] is the number of bytes of the first i log messages.
Sums(f, logs) ==
  /\ f \in [0..Len(logs) -> 0..LogCap]
  /\ f[0] = 0
  /\ \A i \in 1..Len(logs) : f[i] = f[i - 1] + logs[i]

Summed(logs, bytes) ==
  \E f \in [0..Len(logs) -> 0..LogCap] : Sums(f, logs) /\ f[Len(logs)] = bytes

\* What State of abi.rs keeps: every effect and every log message took one of
\* the host calls, and log_bytes is what the messages add up to.
CallsInv ==
  /\ abi.sent + Len(abi.logs) =< HostCalls
  /\ abi.sent + Len(abi.logs) =< abi.calls
  /\ Summed(abi.logs, abi.logBytes)

\* Nothing the runner sent is unread, and it is not waiting for an answer.
Quiet ==
  /\ stdout = <<>> /\ ~dispatchPending
  /\ Len(dispatches) = abi.sent /\ sequence.messages = abi.sent
  /\ sequence.logBytes = 0 /\ ~sequence.finished /\ pc # "wait"
  /\ abi.responses = <<>>
  /\ ~abi.sticky => AllCommitted
  /\ child = "boot" =>
       \/ outgoing.status = "start" /\ stdin = <<>>
       \/ outgoing = Nothing /\ Len(stdin) = 1
  /\ child = "run" => outgoing = Nothing /\ stdin = <<>>

\* The runner waits for the answer to effect abi.sent: its request is in the
\* pipe, or at the broker, or the response is on its way.
Awaiting ==
  /\ abi.sent > 0
  /\ sequence.logBytes = 0 /\ ~sequence.finished /\ pc # "wait"
  /\ sequence.messages = Len(dispatches)
  /\ \A i \in 1..Len(dispatches) : i < abi.sent => dispatches[i] = "committed"
  /\ \/ /\ stdout = <<Frame("effect", abi.sent, FALSE)>>
        /\ ~dispatchPending /\ Len(dispatches) = abi.sent - 1
        /\ outgoing = Nothing /\ stdin = <<>> /\ abi.responses = <<>>
     \/ /\ stdout = <<>>
        /\ dispatchPending /\ Len(dispatches) = abi.sent
        /\ outgoing = Nothing /\ stdin = <<>> /\ abi.responses = <<>>
     \/ /\ stdout = <<>>
        /\ ~dispatchPending /\ Len(dispatches) = abi.sent
        /\ \/ /\ outgoing = Message(abi.sent, Response) /\ stdin = <<>>
              /\ abi.responses = <<>>
           \/ /\ outgoing = Nothing /\ stdin = <<Message(abi.sent, Response)>>
              /\ abi.responses = <<>>
           \/ /\ outgoing = Nothing /\ stdin = <<>>
              /\ abi.responses = <<Message(abi.sent, Response)>>

\* The frames p that the runner writes before it exits, log frames and a finish
\* frame, with f[i] the bytes logged by the first i: they fit the caps of
\* ParentSequence, and without an error code they report complete success.
Plan(p, f) ==
  /\ Len(p) > 0 /\ abi.sent + Len(p) =< MessageCap
  /\ f[0] = 0
  /\ \A i \in 1..Len(p) : f[i] = f[i - 1] + p[i].n
  /\ \A i \in 1..Len(p) : i < Len(p) => p[i].kind = "log"
  /\ p[Len(p)].kind = "finish"
  /\ ~p[Len(p)].error =>
       AllCommitted /\ Len(p) = Len(abi.logs) + 1 /\ f[Len(p)] = abi.logBytes

\* Of the frames p, k are read; so is in the pipe and tw not yet written.
Remaining(p, k, so, tw) ==
  /\ k \in 0..Len(p)
  /\ Len(so) + Len(tw) = Len(p) - k
  /\ \A i \in 1..Len(so) : so[i] = p[k + i]
  /\ \A i \in 1..Len(tw) : tw[i] = p[k + Len(so) + i]

Plans == Seq(Frames)

FlushingOf(p, f) ==
  /\ Plan(p, f)
  /\ Remaining(p, sequence.messages - abi.sent, stdout, toWrite)
  /\ sequence.logBytes = f[sequence.messages - abi.sent]
  /\ sequence.finished <=> sequence.messages - abi.sent = Len(p)
  /\ sequence.finished => (errorCode = p[Len(p)].error)
  /\ pc = "wait" => sequence.finished

\* Nothing is on its way to the runner.
Clear == outgoing = Nothing /\ stdin = <<>> /\ abi.responses = <<>>

Flushing ==
  /\ ~dispatchPending /\ Len(dispatches) = abi.sent
  /\ Clear
  /\ \E p \in Plans : \E f \in [0..Len(p) -> 0..LogCap] : FlushingOf(p, f)

\* While run has not returned, the real runner is in one of the three phases; a
\* crash (exit1) leaves the pipes as they are.
HonestInv ==
  (honest /\ pc \notin Ended) =>
    \/ child \in {"boot", "run", "exit1"} /\ Quiet
    \/ child \in {"await", "exit1"} /\ Awaiting
    \/ child \in {"flush", "exit0", "exit1"} /\ Flushing

\* What run has returned.
ResultInv ==
  /\ result # "none" => pc = "done"
  /\ result = "ok" =>
       /\ child = "exit0" /\ ~dispatchPending
       /\ honest =>
            /\ AllCommitted /\ Len(dispatches) = abi.sent
            /\ sequence.logBytes = abi.logBytes
            /\ sequence.messages = Len(abi.logs) + abi.sent + 1
  /\ HonestNeverRejected

\* Response m is on its way to the runner, and nothing else is.
Carried(m) ==
  \/ outgoing = m /\ stdin = <<>> /\ abi.responses = <<>>
  \/ outgoing = Nothing /\ stdin = <<m>> /\ abi.responses = <<>>
  \/ outgoing = Nothing /\ stdin = <<>> /\ abi.responses = <<m>>

\* What is on its way to the real runner, also after its supervisor died.
MailInv ==
  /\ pc = "done" => child \in Gone
  /\ honest /\ child = "boot" =>
       abi.responses = <<>> /\ (stdin = <<>> \/ (outgoing = Nothing /\ Len(stdin) = 1))
  /\ honest /\ child \in {"run", "flush"} => Clear
  /\ honest /\ child = "await" => Clear \/ \E m : m.id = abi.sent /\ Carried(m)

InvocationInv ==
  /\ InvocationTypeOK /\ ThreadInv /\ CallsInv
  /\ HonestInv /\ ResultInv /\ StopsAtFailure /\ MailInv

-----------------------------------------------------------------------------
(* Types. *)

SequenceType == [next : Nat, pending : Nat, finished : BOOLEAN,
                 logBytes : 0..LogCap, messages : 0..MessageCap]

AbiType == [calls : 0..(HostCalls + 1), sticky : BOOLEAN, logs : Seq(Nat),
            logBytes : 0..LogCap, output : BOOLEAN, asked : Nat, next : Nat,
            sent : Nat, responses : Seq(Messages)]

\* What a frame is made of.
LEMMA FrameFields ==
  ASSUME NEW f \in Frames
  PROVE  /\ f.n \in Nat /\ f.error \in BOOLEAN
         /\ f.kind \in {"effect", "log", "finish", "bad"}
         /\ f.kind \in {"finish", "bad"} => f.n = 0
<1>1. CASE f \in [kind : {"effect"}, n : Nat, error : {FALSE}]
  <2>1. f.kind = "effect" /\ f.n \in Nat /\ f.error = FALSE  BY <1>1
  <2> QED  BY <2>1
<1>2. CASE f \in [kind : {"log"}, n : Nat, error : {FALSE}]
  <2>1. f.kind = "log" /\ f.n \in Nat /\ f.error = FALSE  BY <1>2
  <2> QED  BY <2>1
<1>3. CASE f \in [kind : {"finish", "bad"}, n : {0}, error : BOOLEAN]
  <2>1. f.kind \in {"finish", "bad"} /\ f.n = 0 /\ f.error \in BOOLEAN  BY <1>3
  <2> QED  BY <2>1
<1> QED  BY <1>1, <1>2, <1>3 DEF Frames

LEMMA FramesBuilt ==
  /\ \A n \in Nat : Frame("effect", n, FALSE) \in Frames
  /\ \A n \in Nat : Frame("log", n, FALSE) \in Frames
  /\ \A e \in BOOLEAN : Frame("finish", 0, e) \in Frames
  /\ Frame("bad", 0, FALSE) \in Frames
BY SMT DEF Frames, Frame

LEMMA LogFields ==
  ASSUME NEW n
  PROVE  Frame("log", n, FALSE).kind = "log" /\ Frame("log", n, FALSE).n = n
BY DEF Frame

LEMMA FinishFields ==
  ASSUME NEW e \in BOOLEAN
  PROVE  /\ Finish(e) \in Frames /\ Finish(e).kind = "finish" /\ Finish(e).n = 0
         /\ Finish(e).error = e
<1>1. Finish(e) \in Frames  BY FramesBuilt DEF Finish
<1>2. Finish(e).kind = "finish"  BY DEF Finish, Frame
<1>3. Finish(e).n = 0  BY DEF Finish, Frame
<1>4. Finish(e).error = e  BY DEF Finish, Frame
<1> QED  BY <1>1, <1>2, <1>3, <1>4

LEMMA HeadTail ==
  ASSUME NEW S, NEW s \in Seq(S), s # <<>>
  PROVE  Head(s) \in S /\ Tail(s) \in Seq(S) /\ Len(Tail(s)) = Len(s) - 1
BY SMT

LEMMA Singleton ==
  ASSUME NEW S, NEW x \in S
  PROVE  <<x>> \in Seq(S) /\ Len(<<x>>) = 1 /\ <<x>>[1] = x
BY SMT

\* ParentSequence::observe keeps its caps.
LEMMA ObserveType ==
  ASSUME sequence \in SequenceType, NEW f \in Frames, Accepts(f)
  PROVE  /\ Observe(f) \in SequenceType
         /\ Observe(f).messages = sequence.messages + 1
BY FrameFields, InvocationAssumption, SMT DEF SequenceType, Accepts, Observe

\* budget keeps the type of State and counts a call that is within the cap.
LEMMA CountedType ==
  ASSUME abi \in AbiType
  PROVE  /\ Counted \in AbiType
         /\ Counted.sent = abi.sent /\ Counted.logs = abi.logs
         /\ Counted.logBytes = abi.logBytes /\ Counted.sticky = abi.sticky
         /\ Counted.responses = abi.responses
         /\ BudgetLeft => Counted.calls = abi.calls + 1
         /\ abi.calls =< Counted.calls
<1>1. abi.calls \in 0..(HostCalls + 1) /\ HostCalls \in Nat
  BY InvocationAssumption DEF AbiType
<1>2. PICK c \in 0..(HostCalls + 1) :
        /\ c = IF abi.calls > HostCalls THEN abi.calls ELSE abi.calls + 1
        /\ abi.calls =< c
        /\ abi.calls < HostCalls => c = abi.calls + 1
  BY <1>1
<1>3. Counted = [abi EXCEPT !.calls = c]  BY <1>2 DEF Counted
<1>4. Counted \in AbiType  BY <1>3 DEF AbiType
<1>5. /\ Counted.sent = abi.sent /\ Counted.logs = abi.logs
      /\ Counted.logBytes = abi.logBytes /\ Counted.sticky = abi.sticky
      /\ Counted.responses = abi.responses /\ Counted.calls = c
  BY <1>3 DEF AbiType
<1> QED  BY <1>2, <1>4, <1>5 DEF BudgetLeft

LEMMA LogFramesType ==
  ASSUME abi \in AbiType
  PROVE  /\ LogFrames \in Seq(Frames) /\ Len(LogFrames) = Len(abi.logs)
         /\ \A i \in 1..Len(abi.logs) : LogFrames[i] = Frame("log", abi.logs[i], FALSE)
<1>1. PICK logs \in Seq(Nat) : logs = abi.logs  BY DEF AbiType
<1>2. \A i \in 1..Len(logs) : logs[i] \in Nat  BY <1>1
<1>3. \A i \in 1..Len(logs) : Frame("log", logs[i], FALSE) \in Frames
  BY <1>2, FramesBuilt
<1>4. LogFrames = [i \in 1..Len(logs) |-> Frame("log", logs[i], FALSE)]
  BY <1>1 DEF LogFrames
<1>5. Len(logs) \in Nat  BY <1>1
<1>6. LogFrames \in Seq(Frames)
  <2>1. LogFrames \in [1..Len(logs) -> Frames]  BY <1>3, <1>4
  <2> QED  BY <2>1, <1>5, SeqDef
<1>7. Len(LogFrames) = Len(logs)  BY <1>4, <1>5, <1>6
<1>8. \A i \in 1..Len(logs) : LogFrames[i] = Frame("log", logs[i], FALSE)
  BY <1>4
<1> QED  BY <1>1, <1>6, <1>7, <1>8

\* The two halves of the type invariant.
ControlType ==
  /\ pc \in {"start", "check", "poll", "recv", "respond", "wait"} \cup Ended
  /\ result \in Results /\ lease \in LeaseStates
  /\ errorCode \in BOOLEAN /\ dispatchPending \in BOOLEAN /\ late \in BOOLEAN
  /\ honest \in BOOLEAN
  /\ child \in {"boot", "run", "await", "flush", "rogue"} \cup Gone

DataType ==
  /\ sequence \in SequenceType /\ abi \in AbiType
  /\ outgoing \in Messages /\ stdin \in Seq(Messages)
  /\ dispatches \in Seq(DispatchStates)
  /\ stdout \in Seq(Frames) /\ toWrite \in Seq(Frames)

LEMMA TypeHalves == InvocationTypeOK <=> ControlType /\ DataType
BY DEF InvocationTypeOK, ControlType, DataType, SequenceType, AbiType

-----------------------------------------------------------------------------
(* The steps, by what they change. *)

Outside == <<lease, late, stdin, stdout, runner>>

\* The supervisor goes on, dies or returns, and touches no message.
ParentMoves ==
  /\ pc \notin Ended
  /\ UNCHANGED <<messages, honest, abi, toWrite>>
  /\ \/ pc # "wait" /\ pc' \in {"check", "poll", "recv"} /\ UNCHANGED <<result, child>>
     \/ pc' = "dead" /\ UNCHANGED <<result, child>>
     \/ pc' = "done" /\ result' \in Results \ {"ok", "Sequence"} /\ child' \in Gone
     \/ /\ pc = "wait" /\ ~errorCode /\ child = "exit0"
        /\ pc' = "done" /\ result' = "ok" /\ child' = child

\* The broker's answer or a refused frame ends the run.
ParentGivesUp ==
  /\ pc \notin Ended /\ pc' = "done" /\ child' \in Gone
  /\ result' \in Results \ {"ok"}
  /\ sequence' \in {sequence, [sequence EXCEPT !.pending = 0]}
  /\ \/ /\ dispatchPending /\ Answered /\ result' # "Sequence"
        /\ dispatchPending' = FALSE /\ stdout' = stdout
     \/ /\ stdout # <<>> /\ stdout' = Tail(stdout) /\ dispatchPending' = dispatchPending
        /\ result' = "Sequence" => Head(stdout).kind # "bad" /\ ~Accepts(Head(stdout))
  /\ UNCHANGED <<errorCode, outgoing, lease, late, dispatches, stdin,
                 honest, abi, toWrite>>

BrokerMoves ==
  \E i \in 1..Len(dispatches), to \in DispatchStates :
    /\ dispatches[i] \in InProgress
    /\ dispatches' = [dispatches EXCEPT ![i] = to]
    /\ UNCHANGED <<parent, Outside>>

ClockMoves ==
  /\ lease' \in LeaseStates /\ late' \in BOOLEAN
  /\ UNCHANGED <<parent, dispatches, stdin, stdout, runner>>

\* An import that sends nothing: it may set sticky, and it may keep a message.
GuestCalls ==
  /\ child = "run" /\ abi' \in AbiType
  /\ abi'.sent = abi.sent /\ abi'.sticky \in {abi.sticky, TRUE}
  /\ abi'.responses = abi.responses
  /\ \/ /\ abi'.logs = abi.logs /\ abi'.logBytes = abi.logBytes
        /\ abi.calls =< abi'.calls
     \/ \E n \in Nat :
          /\ n =< LogCap - abi.logBytes
          /\ abi.calls < HostCalls /\ abi'.calls = abi.calls + 1
          /\ abi'.logs = Append(abi.logs, n) /\ abi'.logBytes = abi.logBytes + n
  /\ UNCHANGED <<others, stdin, stdout, honest, child, toWrite>>

GuestEnds ==
  /\ child = "run" /\ child' = "flush"
  /\ \/ toWrite' = <<Finish(TRUE)>>
     \/ ~abi.sticky /\ toWrite' = Append(LogFrames, Finish(FALSE))
  /\ UNCHANGED <<others, stdin, stdout, honest, abi>>

ChildStops ==
  /\ child \notin Gone /\ child' \in {"exit0", "exit1"}
  /\ child' = "exit0" => child \in {"flush", "rogue"}
  /\ UNCHANGED <<others, stdin, stdout, honest, abi, toWrite>>

RogueMoves ==
  /\ child = "rogue"
  /\ stdin' \in Seq(Messages) /\ stdout' \in Seq(Frames)
  /\ UNCHANGED <<others, runner>>

Steps ==
  \/ ParentMoves \/ ParentGivesUp \/ PollResponds
  \/ RecvEffect \/ RecvLog \/ RecvFinish \/ WriterWrites
  \/ BrokerMoves \/ ClockMoves
  \/ Boot \/ GuestCalls \/ (\E o \in 0..MaxEffects : GuestEffect(o))
  \/ GuestResponse \/ GuestEnds \/ RunnerWrites \/ ChildStops \/ RogueMoves
  \/ InputReads

LEMMA ReturnTypes ==
  ASSUME ControlType, NEW r, Return(r)
  PROVE  /\ pc' = "done" /\ result' = r /\ child' \in Gone
         /\ child \in Gone => child' = child
         /\ UNCHANGED <<honest, abi, toWrite>>
BY DEF ControlType, Return, Gone

LEMMA ParentMovesSteps ==
  ASSUME ControlType,
         \/ StartRejected \/ WriteStart \/ WriteResponse \/ CheckLease \/ PollNothing
         \/ RecvTimeout \/ RecvBroken \/ WaitExit \/ WaitTimeout \/ ParentDies
  PROVE  ParentMoves
<1> USE DEF Gone, Ended, Results, ParentMoves, Continue, runner
<1>1. ASSUME Stop  PROVE pc' = "done" /\ result' \in Results \ {"ok", "Sequence"}
                         /\ child' \in Gone /\ UNCHANGED <<honest, abi, toWrite>>
  BY <1>1, ReturnTypes DEF Stop, LeaseError
<1>2. CASE StartRejected  BY <1>2, ReturnTypes DEF StartRejected
<1>3. CASE WriteStart  BY <1>1, <1>3, ReturnTypes DEF WriteStart, WriteBounded
<1>4. CASE WriteResponse  BY <1>1, <1>4, ReturnTypes DEF WriteResponse, WriteBounded
<1>5. CASE CheckLease  BY <1>1, <1>5 DEF CheckLease
<1>6. CASE PollNothing  BY <1>6 DEF PollNothing
<1>7. CASE RecvTimeout  BY <1>7 DEF RecvTimeout
<1>8. CASE RecvBroken  BY <1>8, ReturnTypes DEF RecvBroken
<1>9. CASE WaitExit
  <2>1. CASE child = "exit0"
    <3>1. Return(IF errorCode THEN "RunnerFailure" ELSE "ok") /\ UNCHANGED messages
          /\ pc = "wait"
      BY <1>9, <2>1 DEF WaitExit
    <3>2. CASE errorCode  BY <2>1, <3>1, <3>2, ReturnTypes
    <3>3. CASE ~errorCode  BY <2>1, <3>1, <3>3, ReturnTypes
    <3> QED  BY <3>2, <3>3
  <2>2. CASE child # "exit0"  BY <1>9, <2>2, ReturnTypes DEF WaitExit
  <2> QED  BY <2>1, <2>2
<1>10. CASE WaitTimeout  BY <1>10, ReturnTypes DEF WaitTimeout
<1>11. CASE ParentDies  BY <1>11 DEF ParentDies
<1> QED  BY <1>2, <1>3, <1>4, <1>5, <1>6, <1>7, <1>8, <1>9, <1>10, <1>11

LEMMA ParentGivesUpSteps ==
  ASSUME ControlType, PollReturns \/ PollOversized \/ RecvRefused
  PROVE  ParentGivesUp
<1>1. CASE PollReturns
  <2>1. PICK r \in {"BrokerResponse", "Cancelled", "LeaseLost"} : Return(r)
    BY <1>1 DEF PollReturns
  <2>2. /\ pc' = "done" /\ result' = r /\ child' \in Gone
        /\ UNCHANGED <<honest, abi, toWrite>>
    BY <2>1, ReturnTypes
  <2>3. r \in Results \ {"ok"} /\ r # "Sequence"  BY DEF Results
  <2> QED  BY <1>1, <2>2, <2>3 DEF PollReturns, ParentGivesUp, Ended
<1>2. CASE RecvRefused
  BY <1>2, ReturnTypes DEF RecvRefused, ParentGivesUp, Ended, Results
<1>3. CASE PollOversized
  <2>1. /\ pc' = "done" /\ result' = "Protocol" /\ child' \in Gone
        /\ UNCHANGED <<honest, abi, toWrite>>
    BY <1>3, ReturnTypes DEF PollOversized
  <2>2. Answered  BY <1>3 DEF PollOversized, Answered, InProgress
  <2>3. pc \notin Ended /\ "Protocol" \in Results \ {"ok"}
    BY <1>3 DEF PollOversized, Ended, Results
  <2> QED  BY <1>3, <2>1, <2>2, <2>3 DEF PollOversized, ParentGivesUp
<1> QED  BY <1>1, <1>2, <1>3

LEMMA BrokerSteps ==
  ASSUME DataType, NEW i \in DOMAIN dispatches, Authorize(i) \/ Resolve(i)
  PROVE  BrokerMoves
<1>1. i \in 1..Len(dispatches) /\ dispatches[i] \in InProgress
  BY DEF DataType, Authorize, Resolve, InProgress
<1>2. PICK to \in DispatchStates : dispatches' = [dispatches EXCEPT ![i] = to]
  BY DEF Authorize, Resolve, DispatchStates
<1> QED  BY <1>1, <1>2 DEF Authorize, Resolve, BrokerMoves, Outside

LEMMA ClockSteps ==
  ASSUME ControlType, LeaseChanges \/ DeadlinePasses
  PROVE  ClockMoves
BY DEF ControlType, LeaseChanges, DeadlinePasses, ClockMoves, LeaseStates

LEMMA GuestCallSteps ==
  ASSUME DataType,
         \/ GuestRefused \/ GuestInput \/ GuestInvalid \/ GuestOutput
         \/ (\E n \in LogSizes : GuestLog(n))
  PROVE  GuestCalls
<1>1. abi \in AbiType /\ Counted \in AbiType  BY CountedType DEF DataType
<1>2. PICK c \in AbiType : c = Counted  BY <1>1
<1>3. /\ c.sent = abi.sent /\ c.logs = abi.logs /\ c.logBytes = abi.logBytes
      /\ c.sticky = abi.sticky /\ abi.calls =< c.calls
      /\ c.responses = abi.responses
      /\ BudgetLeft => c.calls = abi.calls + 1
  BY <1>1, <1>2, CountedType
<1>4. CASE GuestRefused \/ GuestInvalid
  <2>1. abi' = [c EXCEPT !.sticky = TRUE] /\ child = "run"
        /\ UNCHANGED <<others, stdin, stdout, honest, child, toWrite>>
    BY <1>2, <1>4 DEF GuestRefused, GuestInvalid, GuestCall
  <2>2. /\ abi' \in AbiType /\ abi'.sent = c.sent /\ abi'.sticky = TRUE
        /\ abi'.logs = c.logs /\ abi'.logBytes = c.logBytes /\ abi'.calls = c.calls
        /\ abi'.responses = c.responses
    BY <1>2, <2>1 DEF AbiType
  <2> QED  BY <1>3, <2>1, <2>2 DEF GuestCalls
<1>5. CASE GuestInput
  BY <1>1, <1>2, <1>3, <1>5 DEF GuestInput, GuestCall, GuestCalls
<1>6. CASE GuestOutput
  <2>1. abi' = [c EXCEPT !.output = TRUE] /\ child = "run"
        /\ UNCHANGED <<others, stdin, stdout, honest, child, toWrite>>
    BY <1>2, <1>6 DEF GuestOutput, GuestCall
  <2>2. /\ abi' \in AbiType /\ abi'.sent = c.sent /\ abi'.sticky = c.sticky
        /\ abi'.logs = c.logs /\ abi'.logBytes = c.logBytes /\ abi'.calls = c.calls
        /\ abi'.responses = c.responses
    BY <1>2, <2>1 DEF AbiType
  <2> QED  BY <1>3, <2>1, <2>2 DEF GuestCalls
<1>7. ASSUME NEW n \in LogSizes, GuestLog(n)  PROVE GuestCalls
  <2>1. /\ abi' = [c EXCEPT !.logs = Append(c.logs, n), !.logBytes = c.logBytes + n]
        /\ child = "run" /\ BudgetLeft /\ LogFits(n)
        /\ UNCHANGED <<others, stdin, stdout, honest, child, toWrite>>
    BY <1>2, <1>7 DEF GuestLog, GuestCall
  <2>2. n \in Nat /\ n =< LogCap - abi.logBytes /\ abi.calls < HostCalls
    BY <2>1, InvocationAssumption DEF LogFits, BudgetLeft
  <2>a. /\ c.logs \in Seq(Nat) /\ abi.logBytes \in 0..LogCap /\ LogCap \in Nat
        /\ c.logBytes = abi.logBytes
    BY <1>1, <1>2, <1>3, InvocationAssumption DEF AbiType
  <2>3. PICK logs \in Seq(Nat) : logs = Append(c.logs, n)
    <3>1. Append(c.logs, n) \in Seq(Nat)  BY <2>a, <2>2, AppendProperties
    <3> QED  BY <3>1
  <2>4. PICK b \in 0..LogCap : b = c.logBytes + n
    <3>1. c.logBytes + n \in 0..LogCap  BY <2>a, <2>2
    <3> QED  BY <3>1
  <2>5. abi' = [c EXCEPT !.logs = logs, !.logBytes = b]  BY <2>1, <2>3, <2>4
  <2>6. /\ abi' \in AbiType /\ abi'.sent = c.sent /\ abi'.sticky = c.sticky
        /\ abi'.logs = logs /\ abi'.logBytes = b /\ abi'.calls = c.calls
        /\ abi'.responses = c.responses
    BY <1>2, <2>5 DEF AbiType
  <2> QED  BY <1>3, <2>1, <2>2, <2>3, <2>4, <2>6 DEF GuestCalls
<1> QED  BY <1>4, <1>5, <1>6, <1>7

LEMMA NextSteps ==
  ASSUME InvocationTypeOK, Next
  PROVE  Steps
<1> USE DEF Steps
<1>0. ControlType /\ DataType  BY TypeHalves
<1>1. CASE \/ StartRejected \/ WriteStart \/ WriteResponse \/ CheckLease \/ PollNothing
           \/ RecvTimeout \/ RecvBroken \/ WaitExit \/ WaitTimeout \/ ParentDies
  BY <1>0, <1>1, ParentMovesSteps
<1>2. CASE PollReturns \/ PollOversized \/ RecvRefused
  BY <1>0, <1>2, ParentGivesUpSteps
<1>3. CASE PollResponds \/ RecvEffect \/ RecvLog \/ RecvFinish \/ WriterWrites
  BY <1>3
<1>4. CASE Broker  BY <1>0, <1>4, BrokerSteps DEF Broker
<1>5. CASE LeaseChanges \/ DeadlinePasses  BY <1>0, <1>5, ClockSteps
<1>6. CASE \/ GuestRefused \/ GuestInput \/ GuestInvalid \/ GuestOutput
           \/ (\E n \in LogSizes : GuestLog(n))
  BY <1>0, <1>6, GuestCallSteps
<1>7. CASE Boot \/ (\E o \in 0..MaxEffects : GuestEffect(o)) \/ GuestResponse
           \/ RunnerWrites \/ InputReads
  BY <1>7
<1>8. CASE GuestReturns \/ GuestTraps
  BY <1>8 DEF GuestReturns, GuestTraps, GuestEnds, Finish
<1>9. CASE RunnerExits \/ RunnerCrashes \/ ParentGone \/ RogueExits
  BY <1>9 DEF RunnerExits, RunnerCrashes, ParentGone, RogueExits, ChildStops, Gone
<1>10. CASE RogueReads
  BY <1>0, <1>10, HeadTail DEF RogueReads, RogueMoves, DataType
<1>11. ASSUME NEW f \in RogueFrames, RogueSends(f)  PROVE RogueMoves
  <2>1. f \in Frames
    <3>1. CASE f \in {Frame("effect", id, FALSE) : id \in RogueIds}
      BY <3>1, FramesBuilt, InvocationAssumption
    <3>2. CASE f \in {Frame("log", n, FALSE) : n \in LogSizes}
      BY <3>2, FramesBuilt, InvocationAssumption
    <3>3. CASE f \in {Frame("finish", 0, e) : e \in BOOLEAN}  BY <3>3, FramesBuilt
    <3>4. CASE f = Frame("bad", 0, FALSE)  BY <3>4, FramesBuilt
    <3> QED  BY <3>1, <3>2, <3>3, <3>4 DEF RogueFrames
  <2>2. stdout \in Seq(Frames) /\ stdin \in Seq(Messages)  BY <1>0 DEF DataType
  <2>3. Append(stdout, f) \in Seq(Frames)  BY <2>1, <2>2
  <2> QED  BY <1>11, <2>2, <2>3 DEF RogueSends, RogueMoves
<1> QED
  BY <1>1, <1>2, <1>3, <1>4, <1>5, <1>6, <1>7, <1>8, <1>9, <1>10, <1>11
  DEF Next, Supervise, Runner, Guest, Rogue, Input

-----------------------------------------------------------------------------
(* The type invariant. *)

LEMMA InitTypes == Init => InvocationTypeOK
<1> SUFFICES ASSUME Init PROVE ControlType /\ DataType  BY TypeHalves
<1>1. ControlType
  BY DEF Init, ControlType, Results, LeaseStates
<1>2. sequence \in SequenceType /\ abi \in AbiType
  BY InvocationAssumption DEF Init, SequenceType, AbiType
<1>3. outgoing \in Messages  BY DEF Init, Messages, Message
<1>4. /\ stdin \in Seq(Messages) /\ dispatches \in Seq(DispatchStates)
      /\ stdout \in Seq(Frames) /\ toWrite \in Seq(Frames)
  BY DEF Init
<1> QED  BY <1>1, <1>2, <1>3, <1>4 DEF DataType

\* The frame at the head of the pipe.
LEMMA ReadHead ==
  ASSUME DataType, stdout # <<>>
  PROVE  Head(stdout) \in Frames /\ Tail(stdout) \in Seq(Frames)
BY HeadTail DEF DataType

LEMMA StepTypes ==
  ASSUME InvocationTypeOK, Steps
  PROVE  ControlType' /\ DataType'
<1>0. ControlType /\ DataType  BY TypeHalves
<1>f. Finish(TRUE) \in Frames /\ Finish(FALSE) \in Frames
  BY FramesBuilt DEF Finish
<1>e. <<Finish(TRUE)>> \in Seq(Frames)  BY <1>f, Singleton
<1> USE <1>0
<1>1. CASE ParentMoves
  BY <1>1 DEF ParentMoves, ControlType, DataType, messages, Results, Ended, Gone
<1>2. CASE ParentGivesUp
  <2>1. sequence' \in SequenceType
    <3>1. sequence \in SequenceType  BY DEF DataType
    <3> QED  BY <1>2, <3>1 DEF ParentGivesUp, SequenceType
  <2> QED
    BY <1>2, <2>1, ReadHead DEF ParentGivesUp, ControlType, DataType, Results, Ended, Gone
<1>3. CASE PollResponds
  <2>1. ControlType'
    BY <1>3, ReturnTypes DEF PollResponds, ControlType, Continue, runner, Results,
       Ended, Gone
  <2>2. UNCHANGED <<honest, abi, toWrite, dispatches, stdin, stdout>>
    BY <1>3, ReturnTypes DEF PollResponds, Continue, runner
  <2>3. sequence' \in SequenceType
    <3>1. sequence \in SequenceType  BY DEF DataType
    <3>2. sequence' = sequence \/ sequence' = [sequence EXCEPT !.pending = 0]
      BY <1>3 DEF PollResponds
    <3> QED  BY <3>1, <3>2 DEF SequenceType
  <2>4. outgoing' \in Messages
    <3>1. Len(dispatches) \in Nat  BY DEF DataType
    <3>2. Response \in {"committed", "failed", "unresolved"}  BY DEF Response
    <3>3. Message(Asked, Response) \in Messages
      BY <3>1, <3>2 DEF Message, Messages, Asked
    <3> QED  BY <1>3, <3>3 DEF PollResponds, DataType
  <2> QED  BY <2>1, <2>2, <2>3, <2>4 DEF DataType
<1>4. CASE RecvEffect
  <2>1. Head(stdout) \in Frames /\ Tail(stdout) \in Seq(Frames)
    BY <1>4, ReadHead DEF RecvEffect
  <2>2. sequence' \in SequenceType
    BY <1>4, <2>1, ObserveType DEF RecvEffect, DataType
  <2>3. dispatches' \in Seq(DispatchStates)
    <3>1. Append(dispatches, "started") \in Seq(DispatchStates)
      BY AppendProperties DEF DataType, DispatchStates
    <3> QED  BY <1>4, <3>1 DEF RecvEffect, DataType
  <2>4. ControlType' /\ UNCHANGED <<honest, abi, toWrite, outgoing, stdin>>
    BY <1>4, ReturnTypes DEF RecvEffect, ControlType, Continue, runner, Results,
       Ended, Gone
  <2> QED  BY <1>4, <2>1, <2>2, <2>3, <2>4 DEF RecvEffect, DataType
<1>5. CASE RecvLog
  <2>1. Head(stdout) \in Frames /\ Tail(stdout) \in Seq(Frames)
    BY <1>5, ReadHead DEF RecvLog
  <2>2. sequence' \in SequenceType
    BY <1>5, <2>1, ObserveType DEF RecvLog, DataType
  <2>3. ControlType' /\ UNCHANGED <<honest, abi, toWrite>>
    BY <1>5 DEF RecvLog, ControlType, Continue, runner
  <2> QED  BY <1>5, <2>1, <2>2, <2>3 DEF RecvLog, DataType
<1>6. CASE RecvFinish
  <2>1. Head(stdout) \in Frames /\ Tail(stdout) \in Seq(Frames)
    BY <1>6, ReadHead DEF RecvFinish
  <2>2. sequence' \in SequenceType
    BY <1>6, <2>1, ObserveType DEF RecvFinish, DataType
  <2>3. ControlType' /\ UNCHANGED <<honest, abi, toWrite>>
    <3>1. errorCode' \in BOOLEAN  BY <1>6, <2>1, FrameFields DEF RecvFinish
    <3> QED  BY <1>6, <3>1, ReturnTypes DEF RecvFinish, ControlType, Continue, runner, Results,
       Ended, Gone
  <2> QED  BY <1>6, <2>1, <2>2, <2>3 DEF RecvFinish, DataType
<1>7. CASE WriterWrites
  <2>1. Nothing \in Messages  BY DEF Nothing, Message, Messages
  <2>2. Append(stdin, outgoing) \in Seq(Messages)  BY AppendProperties DEF DataType
  <2> QED  BY <1>7, <2>1, <2>2 DEF WriterWrites, ControlType, DataType, runner
<1>8. CASE BrokerMoves
  <2>1. PICK i \in 1..Len(dispatches), to \in DispatchStates :
          dispatches' = [dispatches EXCEPT ![i] = to]
    BY <1>8 DEF BrokerMoves
  <2>2. dispatches' \in Seq(DispatchStates)
    BY <2>1, ExceptSeq DEF DataType
  <2> QED  BY <1>8, <2>2 DEF BrokerMoves, ControlType, DataType, parent, Outside, runner
<1>9. CASE ClockMoves
  BY <1>9 DEF ClockMoves, ControlType, DataType, parent, runner
<1>10. CASE Boot
  <2>1. Tail(stdin) \in Seq(Messages)  BY <1>10, HeadTail DEF Boot, DataType
  <2>2. toWrite' \in Seq(Frames)  BY <1>10, <1>e DEF Boot, DataType, Finish
  <2> QED  BY <1>10, <2>1, <2>2 DEF Boot, ControlType, DataType, others, parent
<1>11. CASE GuestCalls
  BY <1>11 DEF GuestCalls, ControlType, DataType, others, parent
<1>12. ASSUME NEW o \in 0..MaxEffects, GuestEffect(o)  PROVE ControlType' /\ DataType'
  <2>1. abi.sent \in Nat /\ Counted \in AbiType /\ o \in Nat
    BY CountedType, InvocationAssumption DEF DataType, AbiType
  <2>2. PICK c \in AbiType : c = Counted  BY <2>1
  <2>3. abi' = [c EXCEPT !.asked = o, !.sent = c.sent + 1]
    BY <1>12, <2>2 DEF GuestEffect
  <2>4. PICK m \in Nat : m = c.sent + 1  BY <2>2 DEF AbiType
  <2>5. abi' \in AbiType  BY <2>1, <2>2, <2>3, <2>4 DEF AbiType
  <2>6. PICK m1 \in Nat : m1 = abi.sent + 1  BY <2>1
  <2>7. stdout' \in Seq(Frames)
    <3>1. Frame("effect", m1, FALSE) \in Frames  BY <2>6, FramesBuilt
    <3>2. Append(stdout, Frame("effect", m1, FALSE)) \in Seq(Frames)
      BY <3>1, AppendProperties DEF DataType
    <3> QED  BY <1>12, <2>6, <3>2 DEF GuestEffect
  <2> QED  BY <1>12, <2>5, <2>7 DEF GuestEffect, ControlType, DataType, others, parent
<1>13. CASE GuestResponse
  <2>1. PICK rest \in Seq(Messages) : rest = Tail(abi.responses)
    <3>1. abi.responses \in Seq(Messages)  BY DEF DataType, AbiType
    <3>2. Tail(abi.responses) \in Seq(Messages)  BY <1>13, <3>1, HeadTail DEF GuestResponse
    <3> QED  BY <3>2
  <2>2. toWrite' \in Seq(Frames)  BY <1>13, <1>e DEF GuestResponse, DataType, Finish
  <2>3. abi' \in AbiType
    <3>1. abi \in AbiType /\ abi.next \in Nat  BY DEF DataType, AbiType
    <3>2. PICK n \in Nat : n = IF abi.asked = abi.next THEN abi.next + 1 ELSE abi.next
      BY <3>1
    <3>3. \/ abi' = [abi EXCEPT !.next = n, !.responses = rest]
          \/ abi' = [abi EXCEPT !.sticky = TRUE, !.responses = rest]
      BY <1>13, <2>1, <3>1, <3>2 DEF GuestResponse, Failed, AbiType
    <3> QED  BY <3>1, <3>3 DEF AbiType
  <2>4. ControlType'  BY <1>13 DEF GuestResponse, ControlType, others, parent
  <2> QED  BY <1>13, <2>1, <2>2, <2>3, <2>4 DEF GuestResponse, DataType, others, parent
<1>14. CASE GuestEnds
  <2>1. LogFrames \in Seq(Frames)  BY LogFramesType DEF DataType
  <2>2. Append(LogFrames, Finish(FALSE)) \in Seq(Frames)
    BY <1>f, <2>1, AppendProperties
  <2>4. toWrite' \in Seq(Frames)  BY <1>14, <1>e, <2>2 DEF GuestEnds
  <2> QED  BY <1>14, <2>4 DEF GuestEnds, ControlType, DataType, others, parent
<1>15. CASE RunnerWrites
  <2>1. Head(toWrite) \in Frames /\ Tail(toWrite) \in Seq(Frames)
    BY <1>15, HeadTail DEF RunnerWrites, DataType
  <2>2. Append(stdout, Head(toWrite)) \in Seq(Frames)
    BY <2>1, AppendProperties DEF DataType
  <2> QED  BY <1>15, <2>1, <2>2 DEF RunnerWrites, ControlType, DataType, others, parent
<1>16. CASE ChildStops
  BY <1>16 DEF ChildStops, ControlType, DataType, others, parent, Gone
<1>17. CASE RogueMoves
  BY <1>17 DEF RogueMoves, ControlType, DataType, others, parent, runner
<1>18. CASE InputReads
  <2>1. abi \in AbiType /\ abi.responses \in Seq(Messages)  BY DEF DataType, AbiType
  <2>2. Head(stdin) \in Messages /\ Tail(stdin) \in Seq(Messages)
    BY <1>18, HeadTail DEF InputReads, DataType
  <2>3. PICK read \in Seq(Messages) : read = Append(abi.responses, Head(stdin))
    <3>1. Append(abi.responses, Head(stdin)) \in Seq(Messages)
      BY <2>1, <2>2, AppendProperties
    <3> QED  BY <3>1
  <2>4. abi' = [abi EXCEPT !.responses = read]  BY <1>18, <2>3 DEF InputReads
  <2>5. abi' \in AbiType  BY <2>1, <2>3, <2>4 DEF AbiType
  <2>6. ControlType'  BY <1>18 DEF InputReads, ControlType, others, parent, Gone
  <2> QED  BY <1>18, <2>2, <2>5, <2>6 DEF InputReads, DataType, others, parent
<1> QED
  BY <1>1, <1>2, <1>3, <1>4, <1>5, <1>6, <1>7, <1>8, <1>9, <1>10, <1>11, <1>12,
     <1>13, <1>14, <1>15, <1>16, <1>17, <1>18
  DEF Steps

\* Every step is one of Steps or leaves the state alone.
LEMMA StepOrStutter ==
  ASSUME InvocationTypeOK, [Next]_vars
  PROVE  InvocationTypeOK' /\ (Steps \/ UNCHANGED vars)
<1>1. CASE Next
  <2>1. Steps  BY <1>1, NextSteps
  <2>2. ControlType' /\ DataType'  BY <2>1, StepTypes
  <2>3. InvocationTypeOK'
    BY <2>2 DEF InvocationTypeOK, ControlType, DataType, SequenceType, AbiType
  <2> QED  BY <2>1, <2>3
<1>2. CASE UNCHANGED vars
  BY <1>2 DEF InvocationTypeOK, vars, parent, runner
<1> QED  BY <1>1, <1>2

\* ParentSequence never takes more frames or log bytes than its caps, and State
\* never keeps more, whatever the child sends and whatever its guest calls.
THEOREM InvocationTyped == Spec => []InvocationTypeOK
<1>1. InvocationTypeOK /\ [Next]_vars => InvocationTypeOK'  BY StepOrStutter
<1> QED  BY InitTypes, <1>1, PTL DEF Spec

-----------------------------------------------------------------------------
(* One dispatch at a time. *)

LEMMA InitThread == Init => ThreadInv
BY DEF Init, ThreadInv, Ended

LEMMA ThreadSame ==
  ASSUME ThreadInv, UNCHANGED <<pc, sequence, dispatchPending, dispatches>>
  PROVE  ThreadInv'
BY DEF ThreadInv

LEMMA StepThread ==
  ASSUME InvocationTypeOK, ThreadInv, Steps
  PROVE  ThreadInv'
<1>0. ControlType /\ DataType  BY TypeHalves
<1>t. /\ Len(dispatches) \in Nat /\ dispatches \in Seq(DispatchStates)
      /\ dispatchPending \in BOOLEAN /\ sequence \in SequenceType
  BY <1>0 DEF DataType, ControlType
<1>1. CASE ParentMoves
  BY <1>1 DEF ParentMoves, messages, ThreadInv, Ended
<1>2. CASE ParentGivesUp
  <2>1. dispatchPending' = FALSE \/ dispatchPending' = dispatchPending
    BY <1>2 DEF ParentGivesUp
  <2>2. dispatchPending /\ ~dispatchPending' => dispatches[Len(dispatches)] \notin InProgress
    BY <1>2 DEF ParentGivesUp, Answered, Asked
  <2>3. pc' = "done" /\ dispatches' = dispatches  BY <1>2 DEF ParentGivesUp
  <2> QED  BY <1>t, <2>1, <2>2, <2>3 DEF ThreadInv, Ended
<1>3. CASE PollResponds
  <2>1. /\ pc = "poll" /\ dispatchPending /\ ~dispatchPending' /\ dispatches' = dispatches
        /\ dispatches[Len(dispatches)] \notin InProgress
    BY <1>3 DEF PollResponds, Answered, Asked
  <2>2. sequence.pending = Len(dispatches) /\ sequence.next = Len(dispatches) + 1
    BY <2>1 DEF ThreadInv, Ended
  <2>3. sequence' = [sequence EXCEPT !.pending = 0] /\ pc' = "respond"
    BY <1>3, <2>2 DEF PollResponds, Asked, Continue
  <2>4. sequence'.pending = 0 /\ sequence'.next = sequence.next
    BY <1>t, <2>3 DEF SequenceType
  <2> QED  BY <1>t, <2>1, <2>2, <2>3, <2>4 DEF ThreadInv, Ended
<1>4. CASE RecvEffect
  <2>1. pc = "recv" /\ Accepts(Head(stdout)) /\ Head(stdout).kind = "effect"
    BY <1>4 DEF RecvEffect
  <2>2. /\ sequence.pending = 0 /\ Head(stdout).n = sequence.next
        /\ sequence.next = Len(dispatches) + 1 /\ ~dispatchPending
    BY <1>t, <2>1 DEF Accepts, ThreadInv, Ended
  <2>3. /\ sequence' = Observe(Head(stdout)) /\ pc' = "check" /\ dispatchPending' = TRUE
        /\ dispatches' = Append(dispatches, "started")
    BY <1>4, <2>2 DEF RecvEffect, Continue
  <2>4. sequence'.next = Len(dispatches) + 2 /\ sequence'.pending = Len(dispatches) + 1
    BY <1>t, <2>1, <2>2, <2>3 DEF Observe
  <2>5. /\ Len(dispatches') = Len(dispatches) + 1
        /\ \A i \in 1..Len(dispatches) : dispatches'[i] = dispatches[i]
    BY <1>t, <2>3
  <2>6. \A i \in 1..Len(dispatches) : dispatches[i] \notin InProgress
    BY <2>2 DEF ThreadInv
  <2>7. \A i \in 1..Len(dispatches') : dispatches'[i] \in InProgress => i = Len(dispatches')
    BY <1>t, <2>5, <2>6
  <2> QED  BY <1>t, <2>3, <2>4, <2>5, <2>7 DEF ThreadInv, Ended
<1>5. CASE RecvLog
  <2>1. /\ pc = "recv" /\ Accepts(Head(stdout)) /\ Head(stdout).kind = "log"
        /\ sequence' = Observe(Head(stdout)) /\ pc' = "check"
        /\ UNCHANGED <<dispatchPending, dispatches>>
    BY <1>5 DEF RecvLog, Continue
  <2>2. sequence'.next = sequence.next /\ sequence'.pending = 0 /\ sequence.pending = 0
    BY <2>1 DEF Observe, Accepts
  <2> QED  BY <2>1, <2>2 DEF ThreadInv, Ended
<1>6. CASE RecvFinish
  <2>1. /\ pc = "recv" /\ Accepts(Head(stdout)) /\ Head(stdout).kind = "finish"
        /\ sequence' = Observe(Head(stdout))
        /\ UNCHANGED <<dispatchPending, dispatches>>
        /\ pc' = "done" \/ (pc' = "wait" /\ ~dispatchPending)
    BY <1>6 DEF RecvFinish, Continue, Return
  <2>2. sequence'.next = sequence.next /\ sequence'.pending = 0 /\ sequence.pending = 0
    BY <2>1 DEF Observe, Accepts
  <2> QED  BY <2>1, <2>2 DEF ThreadInv, Ended
<1>7. CASE WriterWrites  BY <1>7, ThreadSame DEF WriterWrites
<1>8. CASE BrokerMoves
  <2>1. PICK i \in 1..Len(dispatches), to \in DispatchStates :
          /\ dispatches[i] \in InProgress
          /\ dispatches' = [dispatches EXCEPT ![i] = to]
    BY <1>8 DEF BrokerMoves
  <2>2. /\ Len(dispatches') = Len(dispatches)
        /\ \A j \in 1..Len(dispatches) : j # i => dispatches'[j] = dispatches[j]
    BY <1>t, <2>1, ExceptSeq
  <2>3. i = Len(dispatches) /\ dispatchPending  BY <2>1 DEF ThreadInv
  <2>4. UNCHANGED <<pc, sequence, dispatchPending>>  BY <1>8 DEF BrokerMoves, parent
  <2> QED  BY <1>t, <2>2, <2>3, <2>4 DEF ThreadInv
<1>9. CASE ClockMoves  BY <1>9, ThreadSame DEF ClockMoves, parent
<1>10. CASE Boot  BY <1>10, ThreadSame DEF Boot, others, parent
<1>11. CASE GuestCalls  BY <1>11, ThreadSame DEF GuestCalls, others, parent
<1>12. ASSUME NEW o \in 0..MaxEffects, GuestEffect(o)  PROVE ThreadInv'
  BY <1>12, ThreadSame DEF GuestEffect, others, parent
<1>13. CASE GuestResponse  BY <1>13, ThreadSame DEF GuestResponse, others, parent
<1>14. CASE GuestEnds  BY <1>14, ThreadSame DEF GuestEnds, others, parent
<1>15. CASE RunnerWrites  BY <1>15, ThreadSame DEF RunnerWrites, others, parent
<1>16. CASE ChildStops  BY <1>16, ThreadSame DEF ChildStops, others, parent
<1>17. CASE RogueMoves  BY <1>17, ThreadSame DEF RogueMoves, others, parent
<1>18. CASE InputReads  BY <1>18, ThreadSame DEF InputReads, others, parent
<1> QED
  BY <1>1, <1>2, <1>3, <1>4, <1>5, <1>6, <1>7, <1>8, <1>9, <1>10, <1>11, <1>12,
     <1>13, <1>14, <1>15, <1>16, <1>17, <1>18
  DEF Steps

LEMMA ThreadOneDispatch ==
  ASSUME InvocationTypeOK, ThreadInv
  PROVE  OneDispatch
<1>1. DOMAIN dispatches = 1..Len(dispatches)  BY DEF InvocationTypeOK
<1> QED  BY <1>1 DEF ThreadInv, OneDispatch, Asked

\* Whatever frames the child sends, at most one dispatch thread of a run is at
\* the broker, and ParentSequence agrees with dispatch_pending about it.
THEOREM OneDispatchAtATime == Spec => []OneDispatch
<1>1. Init => InvocationTypeOK /\ ThreadInv  BY InitTypes, InitThread
<1>2. InvocationTypeOK /\ ThreadInv /\ [Next]_vars => (InvocationTypeOK /\ ThreadInv)'
  <2> SUFFICES ASSUME InvocationTypeOK, ThreadInv, [Next]_vars
               PROVE  (InvocationTypeOK /\ ThreadInv)'
    OBVIOUS
  <2>1. InvocationTypeOK' /\ (Steps \/ UNCHANGED vars)  BY StepOrStutter
  <2>2. ThreadInv'
    BY <2>1, StepThread, ThreadSame DEF vars, parent
  <2> QED  BY <2>1, <2>2
<1>3. InvocationTypeOK /\ ThreadInv => OneDispatch  BY ThreadOneDispatch
<1> QED  BY <1>1, <1>2, <1>3, PTL DEF Spec

-----------------------------------------------------------------------------
(* The caps of the ABI. *)

LEMMA SumsExtend ==
  ASSUME NEW logs \in Seq(Nat), NEW f, Sums(f, logs),
         NEW n \in Nat, f[Len(logs)] + n =< LogCap
  PROVE  \E g \in [0..Len(Append(logs, n)) -> 0..LogCap] :
           /\ Sums(g, Append(logs, n))
           /\ g[Len(Append(logs, n))] = f[Len(logs)] + n
<1> DEFINE more == Append(logs, n)
           L == Len(logs)
           g == [i \in 0..(L + 1) |-> IF i =< L THEN f[i] ELSE f[L] + n]
<1>1. /\ L \in Nat /\ Len(more) = L + 1 /\ more \in Seq(Nat)
      /\ \A i \in 1..L : more[i] = logs[i] /\ logs[i] \in Nat
      /\ more[L + 1] = n
  BY AppendProperties
<1>2. /\ \A i \in 0..L : f[i] \in 0..LogCap
      /\ f[0] = 0 /\ \A i \in 1..L : f[i] = f[i - 1] + logs[i]
  BY DEF Sums
<1>3. LogCap \in Nat  BY InvocationAssumption
<1>4. g \in [0..(L + 1) -> 0..LogCap]  BY <1>1, <1>2, <1>3
<1>5. g[0] = 0 /\ g[L + 1] = f[L] + n /\ \A i \in 0..L : g[i] = f[i]
  BY <1>1, <1>2
<1>6. \A i \in 1..(L + 1) : g[i] = g[i - 1] + more[i]
  <2> TAKE i \in 1..(L + 1)
  <2>1. CASE i = L + 1  BY <1>1, <1>5, <2>1
  <2>2. CASE i # L + 1
    <3>1. i \in 1..L /\ i \in 0..L /\ i - 1 \in 0..L  BY <1>1, <2>2
    <3> QED  BY <1>1, <1>2, <1>5, <3>1
  <2> QED  BY <2>1, <2>2
<1> HIDE DEF g
<1>7. Sums(g, more)  BY <1>1, <1>4, <1>5, <1>6 DEF Sums
<1>8. g[Len(more)] = f[L] + n  BY <1>1, <1>5
<1>9. g \in [0..Len(more) -> 0..LogCap]  BY <1>1, <1>4
<1> QED  BY <1>7, <1>8, <1>9

LEMMA InitCalls == Init => CallsInv
<1> SUFFICES ASSUME Init PROVE CallsInv  OBVIOUS
<1>1. abi.sent = 0 /\ abi.calls = 0 /\ abi.logBytes = 0 /\ abi.logs = <<>>
  BY DEF Init
<1>2. Len(abi.logs) = 0 /\ HostCalls \in Nat /\ LogCap \in Nat
  BY <1>1, InvocationAssumption
<1> DEFINE f == [i \in 0..0 |-> 0]
<1>3. f \in [0..Len(abi.logs) -> 0..LogCap] /\ f[0] = 0  BY <1>2
<1> HIDE DEF f
<1>4. Sums(f, abi.logs)  BY <1>2, <1>3 DEF Sums
<1> QED  BY <1>1, <1>2, <1>3, <1>4 DEF CallsInv, Summed

LEMMA CallsSame ==
  ASSUME CallsInv, abi' = abi
  PROVE  CallsInv'
BY DEF CallsInv

\* The types of State's fields.
LEMMA AbiFields ==
  ASSUME abi \in AbiType
  PROVE  /\ abi.sent \in Nat /\ abi.calls \in Nat /\ abi.logs \in Seq(Nat)
         /\ Len(abi.logs) \in Nat /\ abi.logBytes \in 0..LogCap
         /\ abi.sticky \in BOOLEAN /\ abi.responses \in Seq(Messages)
         /\ HostCalls \in Nat /\ LogCap \in Nat /\ MessageCap \in Nat
         /\ HostCalls < MessageCap
<1>1. abi.logs \in Seq(Nat) /\ abi.responses \in Seq(Messages)  BY DEF AbiType
<1>2. abi.calls \in 0..(HostCalls + 1) /\ HostCalls \in Nat
  BY InvocationAssumption DEF AbiType
<1> QED  BY <1>1, <1>2, InvocationAssumption DEF AbiType

\* effect_call: one call, one request.
LEMMA EffectFields ==
  ASSUME DataType, NEW o \in 0..MaxEffects, GuestEffect(o)
  PROVE  /\ abi'.sent = abi.sent + 1 /\ abi'.logs = abi.logs
         /\ abi'.logBytes = abi.logBytes /\ abi'.calls = abi.calls + 1
         /\ abi'.sticky = abi.sticky /\ ~abi.sticky /\ abi.calls < HostCalls
         /\ abi'.responses = abi.responses
<1>1. Counted \in AbiType /\ abi \in AbiType  BY CountedType DEF DataType
<1>2. PICK c \in AbiType : c = Counted  BY <1>1
<1>3. /\ c.sent = abi.sent /\ c.logs = abi.logs /\ c.logBytes = abi.logBytes
      /\ c.sticky = abi.sticky /\ c.calls = abi.calls + 1
      /\ c.responses = abi.responses
      /\ ~abi.sticky /\ abi.calls < HostCalls
  BY <1>1, <1>2, CountedType DEF GuestEffect, BudgetLeft
<1>4. abi' = [c EXCEPT !.asked = o, !.sent = c.sent + 1]
  BY <1>2 DEF GuestEffect
<1>5. /\ abi'.sent = c.sent + 1 /\ abi'.logs = c.logs /\ abi'.logBytes = c.logBytes
      /\ abi'.calls = c.calls /\ abi'.sticky = c.sticky
      /\ abi'.responses = c.responses
  BY <1>2, <1>4 DEF AbiType
<1> QED  BY <1>3, <1>5

LEMMA ResponseFields ==
  ASSUME DataType, GuestResponse
  PROVE  /\ abi'.sent = abi.sent /\ abi'.logs = abi.logs
         /\ abi'.logBytes = abi.logBytes /\ abi'.calls = abi.calls
         /\ abi'.responses = Tail(abi.responses)
         /\ abi'.sticky = TRUE
            \/ /\ Head(abi.responses).id = abi.sent
               /\ Head(abi.responses).status = "committed"
<1>1. abi \in AbiType  BY DEF DataType
<1>2. PICK n : n = IF abi.asked = abi.next THEN abi.next + 1 ELSE abi.next
  OBVIOUS
<1>3. PICK rest : rest = Tail(abi.responses)  OBVIOUS
<1>4. \/ /\ abi' = [abi EXCEPT !.next = n, !.responses = rest]
         /\ Head(abi.responses).id = abi.sent
         /\ Head(abi.responses).status = "committed"
      \/ abi' = [abi EXCEPT !.sticky = TRUE, !.responses = rest]
  BY <1>1, <1>2, <1>3 DEF GuestResponse, Failed, AbiType
<1>5. /\ abi'.sent = abi.sent /\ abi'.logs = abi.logs
      /\ abi'.logBytes = abi.logBytes /\ abi'.calls = abi.calls
      /\ abi'.responses = rest
  BY <1>1, <1>4 DEF AbiType
<1>6. CASE abi' = [abi EXCEPT !.sticky = TRUE, !.responses = rest]
  <2>1. abi'.sticky = TRUE  BY <1>1, <1>6 DEF AbiType
  <2> QED  BY <1>3, <1>5, <2>1
<1> QED  BY <1>3, <1>4, <1>5, <1>6

\* The input thread moves a response to the guest's channel.
LEMMA InputFields ==
  ASSUME DataType, InputReads
  PROVE  /\ abi'.sent = abi.sent /\ abi'.logs = abi.logs
         /\ abi'.logBytes = abi.logBytes /\ abi'.calls = abi.calls
         /\ abi'.sticky = abi.sticky
         /\ abi'.responses = Append(abi.responses, Head(stdin))
<1>1. abi \in AbiType  BY DEF DataType
<1>2. PICK read : read = Append(abi.responses, Head(stdin))  OBVIOUS
<1>3. abi' = [abi EXCEPT !.responses = read]  BY <1>2 DEF InputReads
<1> QED  BY <1>1, <1>2, <1>3 DEF AbiType

LEMMA StepCalls ==
  ASSUME InvocationTypeOK, CallsInv, Steps
  PROVE  CallsInv'
<1>0. DataType /\ abi \in AbiType  BY TypeHalves DEF DataType
<1>t. /\ abi.sent \in Nat /\ abi.calls \in Nat /\ abi.logs \in Seq(Nat)
      /\ Len(abi.logs) \in Nat /\ abi.logBytes \in 0..LogCap
      /\ HostCalls \in Nat /\ LogCap \in Nat
  BY <1>0, AbiFields
<1>1. CASE abi' = abi  BY <1>1, CallsSame
<1>2. CASE GuestCalls
  <2>1. CASE /\ abi'.logs = abi.logs /\ abi'.logBytes = abi.logBytes
             /\ abi.calls =< abi'.calls
    <3>1. abi'.calls \in Nat /\ abi'.sent = abi.sent
      BY <1>2, <1>t DEF GuestCalls, AbiType
    <3> QED  BY <1>t, <2>1, <3>1 DEF CallsInv
  <2>2. ASSUME NEW n \in Nat, n =< LogCap - abi.logBytes,
               abi.calls < HostCalls, abi'.calls = abi.calls + 1,
               abi'.logs = Append(abi.logs, n), abi'.logBytes = abi.logBytes + n
        PROVE  CallsInv'
    <3>1. abi'.sent = abi.sent  BY <1>2 DEF GuestCalls
    <3>2. PICK logs \in Seq(Nat) : logs = abi.logs  BY <1>t
    <3>3. PICK f : Sums(f, logs) /\ f[Len(logs)] = abi.logBytes
      BY <3>2 DEF CallsInv, Summed
    <3>4. f[Len(logs)] + n =< LogCap  BY <1>t, <2>2, <3>3
    <3>5. \E g \in [0..Len(Append(logs, n)) -> 0..LogCap] :
            Sums(g, Append(logs, n)) /\ g[Len(Append(logs, n))] = f[Len(logs)] + n
      BY <3>2, <3>3, <3>4, SumsExtend
    <3>6. Summed(abi'.logs, abi'.logBytes)
      BY <2>2, <3>2, <3>3, <3>5 DEF Summed
    <3>7. Len(abi'.logs) = Len(abi.logs) + 1  BY <1>t, <2>2
    <3> QED  BY <1>t, <2>2, <3>1, <3>6, <3>7 DEF CallsInv
  <2> QED  BY <1>2, <2>1, <2>2 DEF GuestCalls
<1>3. ASSUME NEW o \in 0..MaxEffects, GuestEffect(o)  PROVE CallsInv'
  <2>1. /\ abi'.sent = abi.sent + 1 /\ abi'.logs = abi.logs
        /\ abi'.logBytes = abi.logBytes /\ abi'.calls = abi.calls + 1
        /\ abi.calls < HostCalls
    BY <1>0, <1>3, EffectFields
  <2> QED  BY <1>t, <2>1 DEF CallsInv
<1>4. CASE GuestResponse
  <2>1. /\ abi'.sent = abi.sent /\ abi'.logs = abi.logs
        /\ abi'.logBytes = abi.logBytes /\ abi'.calls = abi.calls
    BY <1>0, <1>4, ResponseFields
  <2> QED  BY <2>1 DEF CallsInv
<1>5. CASE InputReads
  <2>1. /\ abi'.sent = abi.sent /\ abi'.logs = abi.logs
        /\ abi'.logBytes = abi.logBytes /\ abi'.calls = abi.calls
    BY <1>0, <1>5, InputFields
  <2> QED  BY <2>1 DEF CallsInv
<1>6. CASE ~(\/ GuestCalls \/ (\E o \in 0..MaxEffects : GuestEffect(o)) \/ GuestResponse
             \/ InputReads)
  <2>1. CASE \/ ParentMoves \/ ParentGivesUp \/ BrokerMoves \/ ClockMoves \/ GuestEnds
             \/ ChildStops \/ RogueMoves
    BY <1>1, <2>1 DEF ParentMoves, ParentGivesUp, BrokerMoves, ClockMoves, GuestEnds,
         ChildStops, RogueMoves, Outside, runner
  <2>2. CASE PollResponds \/ RecvEffect \/ RecvLog \/ RecvFinish \/ WriterWrites
             \/ Boot \/ RunnerWrites
    BY <1>1, <2>2 DEF PollResponds, RecvEffect, RecvLog, RecvFinish, WriterWrites, Boot,
         RunnerWrites, Continue, Return, runner
  <2> QED  BY <1>6, <2>1, <2>2 DEF Steps
<1> QED  BY <1>2, <1>3, <1>4, <1>5, <1>6

-----------------------------------------------------------------------------
(* The real runner: the frames under way. *)

LEMMA RemainingRead ==
  ASSUME NEW p \in Seq(Frames), NEW k \in Nat, NEW so \in Seq(Frames),
         NEW tw \in Seq(Frames), Remaining(p, k, so, tw), so # <<>>
  PROVE  /\ k + 1 \in 1..Len(p) /\ Head(so) = p[k + 1]
         /\ Remaining(p, k + 1, Tail(so), tw)
<1>1. /\ Len(so) \in Nat \ {0} /\ Len(tw) \in Nat /\ Len(p) \in Nat
      /\ Head(so) = so[1]
  BY EmptySeq
<1>2. /\ k \in 0..Len(p) /\ Len(so) + Len(tw) = Len(p) - k
      /\ \A i \in 1..Len(so) : so[i] = p[k + i]
      /\ \A i \in 1..Len(tw) : tw[i] = p[k + Len(so) + i]
  BY DEF Remaining
<1>3. k + 1 \in 1..Len(p) /\ so[1] = p[k + 1]  BY <1>1, <1>2
<1>4. /\ Len(Tail(so)) = Len(so) - 1
      /\ \A i \in 1..Len(Tail(so)) : Tail(so)[i] = so[i + 1]
  BY HeadTailProperties
<1>5. \A i \in 1..Len(Tail(so)) : Tail(so)[i] = p[(k + 1) + i]
  <2> TAKE i \in 1..Len(Tail(so))
  <2>1. i + 1 \in 1..Len(so) /\ k + (i + 1) = (k + 1) + i  BY <1>1, <1>4
  <2> QED  BY <1>2, <1>4, <2>1
<1>6. \A i \in 1..Len(tw) : tw[i] = p[(k + 1) + Len(Tail(so)) + i]
  <2> TAKE i \in 1..Len(tw)
  <2>1. (k + 1) + Len(Tail(so)) + i = k + Len(so) + i  BY <1>1, <1>4
  <2> QED  BY <1>2, <2>1
<1>7. k + 1 \in 0..Len(p) /\ Len(Tail(so)) + Len(tw) = Len(p) - (k + 1)
  BY <1>1, <1>2, <1>3, <1>4
<1> QED  BY <1>1, <1>3, <1>5, <1>6, <1>7 DEF Remaining

LEMMA RemainingWrite ==
  ASSUME NEW p \in Seq(Frames), NEW k \in Nat, NEW so \in Seq(Frames),
         NEW tw \in Seq(Frames), Remaining(p, k, so, tw), tw # <<>>
  PROVE  Remaining(p, k, Append(so, Head(tw)), Tail(tw))
<1>1. /\ Len(so) \in Nat /\ Len(tw) \in Nat \ {0} /\ Len(p) \in Nat
      /\ Head(tw) = tw[1] /\ Head(tw) \in Frames
  BY EmptySeq, HeadTail
<1>2. /\ k \in 0..Len(p) /\ Len(so) + Len(tw) = Len(p) - k
      /\ \A i \in 1..Len(so) : so[i] = p[k + i]
      /\ \A i \in 1..Len(tw) : tw[i] = p[k + Len(so) + i]
  BY DEF Remaining
<1>3. /\ Len(Append(so, Head(tw))) = Len(so) + 1
      /\ \A i \in 1..Len(so) : Append(so, Head(tw))[i] = so[i]
      /\ Append(so, Head(tw))[Len(so) + 1] = Head(tw)
  BY <1>1, AppendProperties
<1>4. /\ Len(Tail(tw)) = Len(tw) - 1
      /\ \A i \in 1..Len(Tail(tw)) : Tail(tw)[i] = tw[i + 1]
  BY HeadTailProperties
<1>5. \A i \in 1..Len(Append(so, Head(tw))) : Append(so, Head(tw))[i] = p[k + i]
  <2> TAKE i \in 1..Len(Append(so, Head(tw)))
  <2>1. CASE i = Len(so) + 1
    <3>1. 1 \in 1..Len(tw) /\ k + Len(so) + 1 = k + i  BY <1>1, <2>1
    <3> QED  BY <1>1, <1>2, <1>3, <2>1, <3>1
  <2>2. CASE i # Len(so) + 1
    <3>1. i \in 1..Len(so)  BY <1>1, <1>3, <2>2
    <3> QED  BY <1>2, <1>3, <3>1
  <2> QED  BY <2>1, <2>2
<1>6. \A i \in 1..Len(Tail(tw)) : Tail(tw)[i] = p[k + Len(Append(so, Head(tw))) + i]
  <2> TAKE i \in 1..Len(Tail(tw))
  <2>1. i + 1 \in 1..Len(tw)  BY <1>1, <1>4
  <2>2. k + Len(so) + (i + 1) = k + Len(Append(so, Head(tw))) + i  BY <1>1, <1>3
  <2> QED  BY <1>2, <1>4, <2>1, <2>2
<1>7. Len(Append(so, Head(tw))) + Len(Tail(tw)) = Len(p) - k
  BY <1>1, <1>2, <1>3, <1>4
<1> QED  BY <1>2, <1>5, <1>6, <1>7 DEF Remaining

\* A step that leaves the messages alone and does not begin the wait for exit.
LEMMA PhaseSame ==
  ASSUME UNCHANGED <<sequence, errorCode, dispatchPending, outgoing, dispatches,
                     stdin, stdout, abi, toWrite>>,
         pc' = pc \/ pc' # "wait"
  PROVE  /\ Quiet /\ child' \in {child, "exit1"} => Quiet'
         /\ Awaiting => Awaiting'
         /\ Flushing => Flushing'
<1>1. Quiet /\ child' \in {child, "exit1"} => Quiet'
  BY DEF Quiet, AllCommitted
<1>2. Awaiting => Awaiting'
  BY DEF Awaiting, Response, Asked
<1>3. ASSUME NEW p, NEW f, FlushingOf(p, f)  PROVE FlushingOf(p, f)'
  <2>1. Plan(p, f)'  BY <1>3 DEF FlushingOf, Plan, AllCommitted
  <2>2. Remaining(p, sequence.messages - abi.sent, stdout, toWrite)'
    BY <1>3 DEF FlushingOf, Remaining
  <2> QED  BY <1>3, <2>1, <2>2 DEF FlushingOf
<1>4. Flushing => Flushing'
  BY <1>3 DEF Flushing, Clear
<1> QED  BY <1>1, <1>2, <1>4

\* In the wait for an effect or in silence nothing of a plan is in the pipe; in
\* Flushing the head of the pipe is the next frame of the plan.
LEMMA FlushingHead ==
  ASSUME DataType, NEW p \in Seq(Frames), NEW f, FlushingOf(p, f), stdout # <<>>
  PROVE  /\ sequence.messages - abi.sent \in Nat
         /\ sequence.messages - abi.sent + 1 \in 1..Len(p)
         /\ Head(stdout) = p[sequence.messages - abi.sent + 1]
         /\ Remaining(p, sequence.messages - abi.sent + 1, Tail(stdout), toWrite)
         /\ Head(stdout).kind \in {"log", "finish"}
         /\ Head(stdout).kind = "finish" <=> sequence.messages - abi.sent + 1 = Len(p)
         /\ ~sequence.finished
<1>1. Len(p) \in Nat  OBVIOUS
<1>2. PICK k : k = sequence.messages - abi.sent  OBVIOUS
<1>3. Remaining(p, k, stdout, toWrite)  BY <1>2 DEF FlushingOf
<1>4. k \in Nat /\ k \in 0..Len(p)  BY <1>1, <1>3 DEF Remaining
<1>5. /\ k + 1 \in 1..Len(p) /\ Head(stdout) = p[k + 1]
      /\ Remaining(p, k + 1, Tail(stdout), toWrite)
  BY <1>3, <1>4, RemainingRead DEF DataType
<1>6. /\ k + 1 < Len(p) => p[k + 1].kind = "log"
      /\ p[Len(p)].kind = "finish"
  BY <1>5 DEF FlushingOf, Plan
<1>7. ~sequence.finished  BY <1>1, <1>2, <1>4, <1>5 DEF FlushingOf
<1>8. CASE k + 1 = Len(p)  BY <1>2, <1>4, <1>5, <1>6, <1>7, <1>8
<1>9. CASE k + 1 # Len(p)
  <2>1. k + 1 < Len(p)  BY <1>1, <1>4, <1>5, <1>9
  <2>2. Head(stdout).kind = "log"  BY <1>5, <1>6, <2>1
  <2> QED  BY <1>2, <1>4, <1>5, <1>7, <1>9, <2>2
<1> QED  BY <1>8, <1>9

\* The runner turns to its last frames with only an error code to report ...
LEMMA ErrorPlan ==
  ASSUME DataType, abi'.sent \in Nat, abi'.sent < MessageCap,
         stdout' = <<>>, toWrite' = <<Finish(TRUE)>>,
         ~dispatchPending', Len(dispatches') = abi'.sent,
         sequence'.messages = abi'.sent, sequence'.logBytes = 0,
         ~sequence'.finished, pc' # "wait", Clear'
  PROVE  Flushing'
<1>0. LogCap \in Nat /\ MessageCap \in Nat  BY InvocationAssumption
<1>1. PICK e \in BOOLEAN : e = TRUE  OBVIOUS
<1>2. Finish(e) \in Frames /\ Finish(e).kind = "finish" /\ Finish(e).n = 0
      /\ Finish(e).error
  BY <1>1, FinishFields
<1>3. PICK p : p = <<Finish(e)>>  OBVIOUS
<1>4. p \in Seq(Frames) /\ Len(p) = 1 /\ p[1] = Finish(e)
  BY <1>2, <1>3, Singleton
<1>5. PICK f \in [0..1 -> 0..LogCap] : f[0] = 0 /\ f[1] = 0
  <2>1. [i \in 0..1 |-> 0] \in [0..1 -> 0..LogCap]  BY <1>0
  <2>2. [i \in 0..1 |-> 0][0] = 0 /\ [i \in 0..1 |-> 0][1] = 0  OBVIOUS
  <2> QED  BY <2>1, <2>2
<1>6. \A i \in 1..Len(p) : i = 1  BY <1>4
<1>7. \A i \in 1..Len(p) : f[i] = f[i - 1] + p[i].n
  BY <1>2, <1>4, <1>5, <1>6
<1>8. Plan(p, f)'
  BY <1>0, <1>2, <1>4, <1>5, <1>6, <1>7 DEF Plan
<1>9. Remaining(p, 0, <<>>, p)
  <2>1. Len(<<>>) = 0  OBVIOUS
  <2>2. \A i \in 1..Len(p) : p[i] = p[0 + 0 + i]  BY <1>4
  <2> QED  BY <1>4, <2>1, <2>2 DEF Remaining
<1>10. toWrite' = p  BY <1>1, <1>3
<1>11. sequence'.messages - abi'.sent = 0 /\ Len(p) # 0  BY <1>4
<1>12. FlushingOf(p, f)'
  BY <1>5, <1>8, <1>9, <1>10, <1>11 DEF FlushingOf
<1> QED  BY <1>4, <1>5, <1>12 DEF Flushing, Plans

\* ... or with the kept log messages and a success.
LEMMA LogPlan ==
  ASSUME DataType, CallsInv, AllCommitted, UNCHANGED <<abi, dispatches>>,
         stdout' = <<>>, toWrite' = Append(LogFrames, Finish(FALSE)),
         ~dispatchPending', Len(dispatches') = abi'.sent,
         sequence'.messages = abi'.sent, sequence'.logBytes = 0,
         ~sequence'.finished, pc' # "wait", Clear'
  PROVE  Flushing'
<1>0. /\ abi \in AbiType /\ abi.sent \in Nat /\ Len(abi.logs) \in Nat
      /\ HostCalls \in Nat /\ LogCap \in Nat /\ MessageCap \in Nat /\ HostCalls < MessageCap
  BY AbiFields DEF DataType
<1>1. PICK logs \in Seq(Nat) : logs = abi.logs  BY <1>0, AbiFields
<1>2. PICK L \in Nat : L = Len(logs)  BY <1>0, <1>1
<1>3. PICK g \in [0..L -> 0..LogCap] :
        /\ g[0] = 0 /\ g[L] = abi.logBytes
        /\ \A i \in 1..L : g[i] = g[i - 1] + logs[i]
  BY <1>1, <1>2 DEF CallsInv, Summed, Sums
<1>e. PICK e \in BOOLEAN : e = FALSE  OBVIOUS
<1>4. Finish(e) \in Frames /\ Finish(e).kind = "finish" /\ Finish(e).n = 0
  BY FinishFields
<1>5. /\ LogFrames \in Seq(Frames) /\ Len(LogFrames) = L
      /\ \A i \in 1..L : LogFrames[i] = Frame("log", logs[i], FALSE)
  BY <1>0, <1>1, <1>2, LogFramesType
<1>6. PICK p : p = Append(LogFrames, Finish(e))  OBVIOUS
<1>7. /\ p \in Seq(Frames) /\ Len(p) = L + 1 /\ p[L + 1] = Finish(e)
      /\ \A i \in 1..L : p[i].kind = "log" /\ p[i].n = logs[i]
  <2>1. /\ p \in Seq(Frames) /\ Len(p) = Len(LogFrames) + 1
        /\ p[Len(LogFrames) + 1] = Finish(e)
        /\ \A i \in 1..Len(LogFrames) : p[i] = LogFrames[i]
    BY <1>4, <1>5, <1>6, AppendProperties
  <2>2. \A i \in 1..L : p[i] = Frame("log", logs[i], FALSE)  BY <1>5, <2>1
  <2>3. ASSUME NEW i \in 1..L  PROVE p[i].kind = "log" /\ p[i].n = logs[i]
    <3>1. p[i] = Frame("log", logs[i], FALSE)  BY <2>2
    <3> QED  BY <3>1, LogFields
  <2> QED  BY <1>5, <2>1, <2>3
<1> DEFINE f == [i \in 0..(L + 1) |-> IF i =< L THEN g[i] ELSE g[L]]
<1>8. /\ f \in [0..(L + 1) -> 0..LogCap]
      /\ f[0] = 0 /\ f[L + 1] = abi.logBytes
      /\ \A i \in 0..L : f[i] = g[i]
  <2>1. L \in Nat /\ g \in [0..L -> 0..LogCap] /\ g[0] = 0 /\ g[L] = abi.logBytes
    BY <1>2, <1>3
  <2>2. 0 \in 0..L /\ L \in 0..L /\ L + 1 \in 0..(L + 1) /\ ~(L + 1 =< L)
    BY <2>1
  <2>3. \A i \in 0..L : i \in 0..(L + 1) /\ i =< L  BY <2>1
  <2>4. \A i \in 0..L : f[i] = g[i]  BY <2>3
  <2>5. f[L + 1] = g[L]  BY <2>2
  <2>6. ASSUME NEW i \in 0..(L + 1)
        PROVE  (IF i =< L THEN g[i] ELSE g[L]) \in 0..LogCap
    <3>1. i =< L => i \in 0..L  BY <2>1
    <3> QED  BY <2>1, <2>2, <3>1
  <2>7. f \in [0..(L + 1) -> 0..LogCap]  BY <2>6
  <2> QED  BY <2>1, <2>2, <2>4, <2>5, <2>7
<1> HIDE DEF f
<1>9. \A i \in 1..Len(p) : f[i] = f[i - 1] + p[i].n
  <2> TAKE i \in 1..Len(p)
  <2>1. CASE i = L + 1
    <3>1. f[L] = abi.logBytes /\ abi.logBytes \in Nat  BY <1>2, <1>3, <1>8
    <3>2. i - 1 = L /\ p[i].n = 0  BY <1>2, <1>4, <1>7, <2>1
    <3> QED  BY <1>8, <2>1, <3>1, <3>2
  <2>2. CASE i # L + 1
    <3>1. i \in 1..L /\ i \in 0..L /\ i - 1 \in 0..L  BY <1>2, <1>7, <2>2
    <3> QED  BY <1>3, <1>7, <1>8, <3>1
  <2> QED  BY <2>1, <2>2
<1>10. abi.sent + Len(p) =< MessageCap
  BY <1>0, <1>1, <1>2, <1>7 DEF CallsInv
<1>11. \A i \in 1..Len(p) : i < Len(p) => p[i].kind = "log"
  BY <1>2, <1>7
<1>12. p[Len(p)].kind = "finish" /\ Len(p) > 0  BY <1>2, <1>4, <1>7
<1>13. Len(p) = Len(abi.logs) + 1 /\ f[Len(p)] = abi.logBytes
  BY <1>1, <1>2, <1>7, <1>8
<1>14. AllCommitted'  BY DEF AllCommitted
<1>15. Plan(p, f)'
  BY <1>8, <1>9, <1>10, <1>11, <1>12, <1>13, <1>14 DEF Plan
<1>16. Remaining(p, 0, <<>>, p)
  <2>1. Len(<<>>) = 0 /\ Len(p) \in Nat  BY <1>7
  <2>2. \A i \in 1..Len(p) : p[i] = p[0 + 0 + i]  BY <2>1
  <2> QED  BY <2>1, <2>2 DEF Remaining
<1>17. sequence'.messages - abi'.sent = 0 /\ Len(p) # 0
  BY <1>0, <1>2, <1>7
<1>18. FlushingOf(p, f)'
  BY <1>e, <1>6, <1>8, <1>15, <1>16, <1>17 DEF FlushingOf
<1> QED  BY <1>7, <1>8, <1>18 DEF Flushing, Plans

\* A log or the finish frame is read.
LEMMA FlushingRead ==
  ASSUME DataType, Flushing, stdout # <<>>, Accepts(Head(stdout)),
         sequence' = Observe(Head(stdout)), stdout' = Tail(stdout),
         UNCHANGED <<dispatchPending, dispatches, outgoing, stdin, abi, toWrite>>,
         \/ Head(stdout).kind = "log" /\ pc' = "check"
         \/ Head(stdout).kind = "finish" /\ (errorCode' = Head(stdout).error)
  PROVE  Flushing'
<1>1. PICK p, f : p \in Seq(Frames) /\ f \in [0..Len(p) -> 0..LogCap] /\ FlushingOf(p, f)
  BY DEF Flushing, Plans
<1>2. PICK k : k = sequence.messages - abi.sent  OBVIOUS
<1>3. /\ k \in Nat /\ k + 1 \in 1..Len(p) /\ Head(stdout) = p[k + 1]
      /\ Remaining(p, k + 1, Tail(stdout), toWrite)
      /\ Head(stdout).kind = "finish" <=> k + 1 = Len(p)
  BY <1>1, <1>2, FlushingHead
<1>4. /\ abi.sent \in Nat /\ sequence.messages \in Nat /\ sequence.logBytes \in Nat
      /\ Len(p) \in Nat
  BY <1>1, AbiFields, InvocationAssumption DEF DataType, SequenceType
<1>5. sequence'.messages = sequence.messages + 1  BY DEF Observe
<1>6. sequence'.messages - abi'.sent = k + 1  BY <1>2, <1>4, <1>5
<1>7. Plan(p, f)'  BY <1>1 DEF FlushingOf, Plan, AllCommitted
<1>8. sequence'.logBytes = f[k + 1]
  <2>1. f[k + 1] = f[k] + p[k + 1].n /\ sequence.logBytes = f[k]
    <3>1. (k + 1) - 1 = k  BY <1>3
    <3> QED  BY <1>1, <1>2, <1>3, <3>1 DEF FlushingOf, Plan
  <2>2. CASE Head(stdout).kind = "log"
    BY <1>3, <2>1, <2>2 DEF Observe
  <2>3. CASE Head(stdout).kind = "finish"
    <3>1. Head(stdout).n = 0  BY <1>1, <1>3, <2>3, FrameFields
    <3>2. sequence'.logBytes = sequence.logBytes  BY <2>3 DEF Observe
    <3> QED  BY <1>3, <1>4, <2>1, <3>1, <3>2
  <2> QED  BY <2>2, <2>3
<1>9. sequence'.finished <=> k + 1 = Len(p)
  BY <1>3 DEF Observe
<1>10. sequence'.finished => (errorCode' = p[Len(p)].error)
  BY <1>3, <1>9
<1>11. pc' = "wait" => sequence'.finished
  BY <1>3, <1>9
<1>12. FlushingOf(p, f)'
  BY <1>3, <1>6, <1>7, <1>8, <1>9, <1>10, <1>11 DEF FlushingOf
<1> QED  BY <1>1, <1>12 DEF Flushing, Plans, Clear

LEMMA RunnerFlushes ==
  ASSUME DataType, Flushing, RunnerWrites
  PROVE  Flushing'
<1>1. PICK p, f : p \in Seq(Frames) /\ f \in [0..Len(p) -> 0..LogCap] /\ FlushingOf(p, f)
  BY DEF Flushing, Plans
<1>2. PICK k : k = sequence.messages - abi.sent  OBVIOUS
<1>3. Remaining(p, k, stdout, toWrite)  BY <1>1, <1>2 DEF FlushingOf
<1>4. k \in Nat /\ p \in Seq(Frames) /\ Len(p) \in Nat  BY <1>1, <1>3 DEF Remaining
<1>5. Remaining(p, k, stdout', toWrite')
  BY <1>3, <1>4, RemainingWrite DEF RunnerWrites, DataType
<1>6. UNCHANGED <<pc, sequence, errorCode, dispatchPending, dispatches, outgoing, stdin,
                  abi>>
  BY DEF RunnerWrites, others, parent
<1>7. Plan(p, f)'  BY <1>1, <1>6 DEF FlushingOf, Plan, AllCommitted
<1>8. FlushingOf(p, f)'  BY <1>1, <1>2, <1>5, <1>6, <1>7 DEF FlushingOf
<1> QED  BY <1>1, <1>6, <1>8 DEF Flushing, Plans, Clear

-----------------------------------------------------------------------------
(* The real runner: every step. *)

LEMMA InitHonest == Init => HonestInv
<1> SUFFICES ASSUME Init, honest  PROVE child = "boot" /\ Quiet
  BY DEF HonestInv
<1>1. child = "boot" /\ outgoing.status = "start"  BY DEF Init, Message
<1>2. Len(dispatches) = 0 /\ abi.sent = 0 /\ sequence.messages = 0
      /\ sequence.logBytes = 0 /\ sequence.finished = FALSE
  BY DEF Init
<1>3. AllCommitted  BY <1>2 DEF AllCommitted
<1> QED  BY <1>1, <1>2, <1>3 DEF Init, Quiet

\* PollResponds: the answer is on its way to the runner.
LEMMA HonestResponds ==
  ASSUME ControlType, DataType, ThreadInv, PollResponds, honest, HonestInv
  PROVE  HonestInv'
<1>1. /\ pc = "poll" /\ dispatchPending /\ ~dispatchPending'
      /\ UNCHANGED <<dispatches, stdin, stdout>>
  BY DEF PollResponds
<1>2. sequence.pending = Asked  BY <1>1 DEF ThreadInv, Ended, Asked
<1>3. /\ sequence' = [sequence EXCEPT !.pending = 0]
      /\ outgoing' = Message(Asked, Response) /\ pc' = "respond"
      /\ UNCHANGED <<honest, child, abi, toWrite>>
  BY <1>2 DEF PollResponds, Continue, runner
<1>4. /\ sequence'.logBytes = sequence.logBytes /\ sequence'.finished = sequence.finished
      /\ sequence'.messages = sequence.messages
  BY <1>3 DEF DataType, SequenceType
<1>5. child \in {"await", "exit1"} /\ Awaiting
  BY <1>1 DEF HonestInv, Ended, Quiet, Flushing
<1>6. /\ stdout = <<>> /\ Len(dispatches) = abi.sent /\ stdin = <<>>
      /\ abi.responses = <<>> /\ outgoing' = Message(abi.sent, Response)
  BY <1>1, <1>3, <1>5 DEF Awaiting, Asked
<1>7. Response' = Response  BY <1>1 DEF Response, Asked
<1>8. Awaiting'
  BY <1>1, <1>3, <1>4, <1>5, <1>6, <1>7 DEF Awaiting
<1> QED  BY <1>3, <1>5, <1>8 DEF HonestInv

\* RecvEffect: only while the runner waits with its request in the pipe.
LEMMA HonestEffect ==
  ASSUME ControlType, DataType, ThreadInv, RecvEffect, honest, HonestInv
  PROVE  /\ Awaiting /\ Len(dispatches) = abi.sent - 1
         /\ HonestInv'
<1>1. /\ pc = "recv" /\ stdout # <<>> /\ stdout' = Tail(stdout)
      /\ Head(stdout).kind = "effect" /\ Accepts(Head(stdout))
  BY DEF RecvEffect
<1>2. Awaiting /\ child \in {"await", "exit1"}
  <2>1. ~Quiet  BY <1>1 DEF Quiet
  <2>2. ~Flushing
    <3> SUFFICES ASSUME NEW p \in Seq(Frames), NEW f, FlushingOf(p, f)
                 PROVE  FALSE
      BY DEF Flushing, Plans
    <3> QED  BY <1>1, FlushingHead
  <2> QED  BY <1>1, <2>1, <2>2 DEF HonestInv, Ended
<1>3. /\ stdout = <<Frame("effect", abi.sent, FALSE)>>
      /\ ~dispatchPending /\ Len(dispatches) = abi.sent - 1
      /\ outgoing = Nothing /\ stdin = <<>> /\ abi.responses = <<>>
  BY <1>1, <1>2 DEF Awaiting
<1>4. /\ sequence' = Observe(Head(stdout)) /\ dispatchPending'
      /\ dispatches' = Append(dispatches, "started") /\ pc' = "check"
      /\ UNCHANGED <<honest, child, abi, toWrite, outgoing, stdin>>
  BY <1>3 DEF RecvEffect, Continue, runner
<1>5. stdout' = <<>>
  <2>1. stdout \in Seq(Frames) /\ Len(stdout) = 1  BY <1>3 DEF DataType
  <2> QED  BY <1>1, <2>1
<1>6. /\ sequence'.logBytes = sequence.logBytes /\ ~sequence'.finished
      /\ sequence'.messages = sequence.messages + 1
  BY <1>1, <1>4 DEF Observe
<1>7. /\ abi.sent \in Nat /\ Len(dispatches) \in Nat /\ Len(dispatches') = Len(dispatches) + 1
      /\ \A i \in 1..Len(dispatches) : dispatches'[i] = dispatches[i]
  BY <1>4, AbiFields DEF DataType
<1>8. Len(dispatches') = abi.sent  BY <1>3, <1>7
<1>9. \A i \in 1..Len(dispatches') : i < abi.sent => dispatches'[i] = "committed"
  <2>1. \A i \in 1..Len(dispatches) : i < abi.sent => dispatches[i] = "committed"
    BY <1>2 DEF Awaiting
  <2>2. PICK n \in Nat : n = Len(dispatches)  BY <1>7
  <2>3. abi.sent = n + 1 /\ Len(dispatches') = n + 1  BY <1>3, <1>7, <2>2
  <2> QED  BY <1>7, <2>1, <2>2, <2>3
<1>10. Awaiting'
  BY <1>2, <1>3, <1>4, <1>5, <1>6, <1>7, <1>8, <1>9 DEF Awaiting
<1> QED  BY <1>2, <1>3, <1>4, <1>10 DEF HonestInv

\* RecvLog and RecvFinish: only while the runner's last frames arrive.
LEMMA HonestReads ==
  ASSUME ControlType, DataType, ThreadInv, RecvLog \/ RecvFinish, honest, HonestInv
  PROVE  HonestInv'
<1>1. /\ pc = "recv" /\ stdout # <<>> /\ stdout' = Tail(stdout)
      /\ Head(stdout).kind \in {"log", "finish"} /\ Accepts(Head(stdout))
      /\ sequence' = Observe(Head(stdout))
      /\ UNCHANGED <<dispatches, dispatchPending, outgoing, stdin>>
  BY DEF RecvLog, RecvFinish
<1>2. Flushing /\ child \in {"flush", "exit0", "exit1"}
  <2>1. ~Quiet  BY <1>1 DEF Quiet
  <2>2. ~Awaiting
    <3> SUFFICES ASSUME Awaiting  PROVE FALSE  OBVIOUS
    <3>1. stdout = <<Frame("effect", abi.sent, FALSE)>>  BY <1>1 DEF Awaiting
    <3>2. Head(stdout).kind = "effect"  BY <3>1 DEF Frame
    <3> QED  BY <1>1, <3>2
  <2> QED  BY <1>1, <2>1, <2>2 DEF HonestInv, Ended
<1>3. ~dispatchPending  BY <1>2 DEF Flushing
<1>4. /\ UNCHANGED <<honest, child, abi, toWrite>>
      /\ \/ Head(stdout).kind = "log" /\ pc' = "check"
         \/ Head(stdout).kind = "finish" /\ (errorCode' = Head(stdout).error)
  BY <1>3 DEF RecvLog, RecvFinish, Continue, runner
<1>5. Flushing'  BY <1>1, <1>2, <1>4, FlushingRead
<1> QED  BY <1>2, <1>4, <1>5 DEF HonestInv

LEMMA HonestWriter ==
  ASSUME ControlType, DataType, WriterWrites, honest, HonestInv
  PROVE  HonestInv'
<1>1. /\ outgoing # Nothing /\ child \notin Gone /\ stdin' = Append(stdin, outgoing)
      /\ outgoing' = Nothing
      /\ UNCHANGED <<pc, sequence, errorCode, dispatchPending, dispatches, stdout,
                     honest, child, abi, toWrite>>
  BY DEF WriterWrites, runner
<1> SUFFICES ASSUME pc \notin Ended
             PROVE  \/ child \in {"boot", "run", "exit1"} /\ Quiet'
                    \/ child \in {"await", "exit1"} /\ Awaiting'
                    \/ child \in {"flush", "exit0", "exit1"} /\ Flushing'
  BY <1>1 DEF HonestInv
<1>2. CASE child \in {"boot", "run", "exit1"} /\ Quiet
  <2>1. child = "boot" /\ stdin = <<>>  BY <1>1, <1>2 DEF Quiet, Gone
  <2>2. Len(stdin') = 1  BY <1>1, <2>1
  <2>3. Quiet'  BY <1>1, <1>2, <2>1, <2>2 DEF Quiet, AllCommitted
  <2> QED  BY <1>2, <2>3
<1>3. CASE child \in {"await", "exit1"} /\ Awaiting
  <2>1. outgoing = Message(abi.sent, Response) /\ stdin = <<>> /\ stdout = <<>>
        /\ abi.responses = <<>> /\ ~dispatchPending /\ Len(dispatches) = abi.sent
    BY <1>1, <1>3 DEF Awaiting
  <2>2. stdin' = <<Message(abi.sent, Response)>> /\ Response' = Response
    BY <1>1, <2>1 DEF Response, Asked
  <2>3. Awaiting'  BY <1>1, <1>3, <2>1, <2>2 DEF Awaiting
  <2> QED  BY <1>3, <2>3
<1>4. CASE child \in {"flush", "exit0", "exit1"} /\ Flushing
  BY <1>1, <1>4 DEF Flushing, Clear
<1> QED  BY <1>2, <1>3, <1>4 DEF HonestInv

LEMMA HonestBroker ==
  ASSUME ControlType, DataType, ThreadInv, BrokerMoves, honest, HonestInv
  PROVE  HonestInv'
<1>1. PICK i \in 1..Len(dispatches), to \in DispatchStates :
        dispatches[i] \in InProgress /\ dispatches' = [dispatches EXCEPT ![i] = to]
  BY DEF BrokerMoves
<1>2. /\ Len(dispatches') = Len(dispatches) /\ Len(dispatches) \in Nat
      /\ \A j \in 1..Len(dispatches) : j # i => dispatches'[j] = dispatches[j]
  BY <1>1, ExceptSeq DEF DataType
<1>3. i = Len(dispatches) /\ dispatchPending  BY <1>1 DEF ThreadInv
<1>4. UNCHANGED <<pc, sequence, errorCode, dispatchPending, outgoing, stdin, stdout,
                  honest, child, abi, toWrite>>
  BY DEF BrokerMoves, parent, Outside, runner
<1> SUFFICES ASSUME pc \notin Ended
             PROVE  child \in {"await", "exit1"} /\ Awaiting'
  BY <1>4 DEF HonestInv
<1>5. child \in {"await", "exit1"} /\ Awaiting
  BY <1>3 DEF HonestInv, Quiet, Flushing
<1>6. /\ stdout = <<>> /\ Len(dispatches) = abi.sent /\ outgoing = Nothing
      /\ stdin = <<>> /\ abi.responses = <<>>
  BY <1>3, <1>5 DEF Awaiting
<1>7. \A j \in 1..Len(dispatches') : j < abi.sent => dispatches'[j] = "committed"
  BY <1>2, <1>3, <1>5, <1>6 DEF Awaiting
<1> QED  BY <1>2, <1>3, <1>4, <1>5, <1>6, <1>7 DEF Awaiting

\* State's caps leave room for at least one more frame.
LEMMA RoomToFinish ==
  ASSUME DataType, CallsInv
  PROVE  abi.sent \in Nat /\ abi.sent < MessageCap
<1>1. /\ abi.sent \in Nat /\ Len(abi.logs) \in Nat
      /\ HostCalls \in Nat /\ MessageCap \in Nat /\ HostCalls < MessageCap
  BY AbiFields DEF DataType
<1> QED  BY <1>1 DEF CallsInv

LEMMA HonestBoot ==
  ASSUME ControlType, DataType, CallsInv, Boot, honest, HonestInv
  PROVE  HonestInv'
<1>1. /\ child = "boot" /\ stdin # <<>> /\ stdin' = Tail(stdin)
      /\ UNCHANGED <<pc, sequence, errorCode, dispatchPending, outgoing, dispatches,
                     stdout, honest, abi>>
      /\ \/ child' = "run" /\ toWrite' = toWrite
         \/ child' = "flush" /\ toWrite' = <<Finish(TRUE)>>
  BY DEF Boot, others, parent, Finish
<1> SUFFICES ASSUME pc \notin Ended
             PROVE  \/ child' = "run" /\ Quiet'
                    \/ child' = "flush" /\ Flushing'
  BY <1>1 DEF HonestInv
<1>2. Quiet  BY <1>1 DEF HonestInv
<1>3. outgoing = Nothing /\ Len(stdin) = 1  BY <1>1, <1>2 DEF Quiet
<1>4. stdin' = <<>>
  <2>1. stdin \in Seq(Messages)  BY DEF DataType
  <2>2. Tail(stdin) \in Seq(Messages) /\ Len(Tail(stdin)) = 0
    BY <1>1, <1>3, <2>1, HeadTail
  <2> QED  BY <1>1, <2>2, EmptySeq
<1>5. CASE child' = "run"
  BY <1>1, <1>2, <1>3, <1>4, <1>5 DEF Quiet, AllCommitted
<1>6. CASE child' = "flush" /\ toWrite' = <<Finish(TRUE)>>
  <2>1. abi'.sent \in Nat /\ abi'.sent < MessageCap  BY <1>1, RoomToFinish
  <2>2. Flushing'  BY <1>1, <1>2, <1>3, <1>4, <1>6, <2>1, ErrorPlan DEF Quiet, Clear
  <2> QED  BY <1>6, <2>2
<1> QED  BY <1>1, <1>5, <1>6

LEMMA HonestCalls ==
  ASSUME ControlType, DataType, GuestCalls, honest, HonestInv
  PROVE  HonestInv'
<1>1. /\ child = "run" /\ abi'.sent = abi.sent /\ abi'.sticky \in {abi.sticky, TRUE}
      /\ abi'.responses = abi.responses
      /\ UNCHANGED <<pc, sequence, errorCode, dispatchPending, outgoing, dispatches,
                     stdin, stdout, honest, child>>
  BY DEF GuestCalls, others, parent
<1> SUFFICES ASSUME pc \notin Ended  PROVE Quiet'
  BY <1>1 DEF HonestInv
<1>2. Quiet  BY <1>1 DEF HonestInv
<1>3. ~abi'.sticky => ~abi.sticky  BY <1>1
<1> QED  BY <1>1, <1>2, <1>3 DEF Quiet, AllCommitted

LEMMA HonestAsks ==
  ASSUME ControlType, DataType, NEW o \in 0..MaxEffects, GuestEffect(o), honest, HonestInv
  PROVE  HonestInv'
<1>1. /\ child = "run" /\ child' = "await"
      /\ stdout' = Append(stdout, Frame("effect", abi.sent + 1, FALSE))
      /\ UNCHANGED <<pc, sequence, errorCode, dispatchPending, outgoing, dispatches,
                     stdin, honest, toWrite>>
  BY DEF GuestEffect, others, parent
<1>2. abi'.sent = abi.sent + 1 /\ ~abi.sticky /\ abi.sent \in Nat
      /\ abi'.responses = abi.responses
  BY EffectFields, AbiFields DEF DataType
<1> SUFFICES ASSUME pc \notin Ended  PROVE Awaiting'
  BY <1>1 DEF HonestInv
<1>3. Quiet  BY <1>1 DEF HonestInv
<1>4. /\ stdout = <<>> /\ outgoing = Nothing /\ stdin = <<>> /\ abi.responses = <<>>
      /\ AllCommitted /\ ~dispatchPending
      /\ Len(dispatches) = abi.sent /\ sequence.messages = abi.sent
      /\ sequence.logBytes = 0 /\ ~sequence.finished /\ pc # "wait"
  BY <1>1, <1>2, <1>3 DEF Quiet
<1>5. stdout' = <<Frame("effect", abi'.sent, FALSE)>>
  BY <1>1, <1>2, <1>4
<1>6. Len(dispatches') = abi'.sent - 1 /\ abi'.sent > 0
      /\ sequence'.messages = Len(dispatches')
  BY <1>1, <1>2, <1>4
<1>7. \A i \in 1..Len(dispatches') : dispatches'[i] = "committed"
  BY <1>1, <1>4 DEF AllCommitted
<1> QED  BY <1>1, <1>2, <1>4, <1>5, <1>6, <1>7 DEF Awaiting

LEMMA HonestAnswered ==
  ASSUME ControlType, DataType, CallsInv, GuestResponse, honest, HonestInv
  PROVE  HonestInv'
<1>1. /\ child = "await" /\ abi.responses # <<>>
      /\ UNCHANGED <<pc, sequence, errorCode, dispatchPending, outgoing, dispatches,
                     stdin, stdout, honest>>
      /\ \/ child' = "run" /\ toWrite' = toWrite
         \/ child' = "flush" /\ toWrite' = <<Finish(TRUE)>>
  BY DEF GuestResponse, others, parent, Finish
<1> SUFFICES ASSUME pc \notin Ended
             PROVE  \/ child' = "run" /\ Quiet'
                    \/ child' = "flush" /\ Flushing'
  BY <1>1 DEF HonestInv
<1>2. Awaiting  BY <1>1 DEF HonestInv
<1>3. /\ stdout = <<>> /\ ~dispatchPending /\ Len(dispatches) = abi.sent
      /\ outgoing = Nothing /\ stdin = <<>>
      /\ abi.responses = <<Message(abi.sent, Response)>>
  BY <1>1, <1>2 DEF Awaiting
<1>4. Tail(abi.responses) = <<>> /\ Head(abi.responses) = Message(abi.sent, Response)
  BY <1>3
<1>5. /\ abi'.sent = abi.sent /\ abi'.responses = <<>>
      /\ abi'.sticky = TRUE \/ Response = "committed"
  <2>1. Head(abi.responses).status = Response  BY <1>4 DEF Message
  <2> QED  BY <1>4, <2>1, ResponseFields
<1>6. Response = "committed" => AllCommitted
  <2> SUFFICES ASSUME Response = "committed",
                      NEW i \in 1..Len(dispatches)
               PROVE  dispatches[i] = "committed"
    BY DEF AllCommitted
  <2>1. dispatches[Len(dispatches)] = "committed"  BY DEF Response, Asked
  <2>2. abi.sent \in Nat  BY AbiFields DEF DataType
  <2>3. i = Len(dispatches) \/ i < abi.sent  BY <1>3, <2>2
  <2> QED  BY <1>2, <2>1, <2>3 DEF Awaiting
<1>7. /\ sequence.messages = abi.sent /\ sequence.logBytes = 0
      /\ ~sequence.finished /\ pc # "wait"
  BY <1>2, <1>3 DEF Awaiting
<1>8. CASE child' = "run"
  <2>1. ~abi'.sticky => AllCommitted'
    BY <1>1, <1>5, <1>6 DEF AllCommitted
  <2> QED  BY <1>1, <1>3, <1>4, <1>5, <1>7, <1>8, <2>1 DEF Quiet
<1>9. CASE child' = "flush" /\ toWrite' = <<Finish(TRUE)>>
  <2>1. abi'.sent \in Nat /\ abi'.sent < MessageCap  BY <1>5, RoomToFinish
  <2>2. Flushing'  BY <1>1, <1>3, <1>5, <1>7, <1>9, <2>1, ErrorPlan DEF Clear
  <2> QED  BY <1>9, <2>2
<1> QED  BY <1>1, <1>8, <1>9

LEMMA HonestEnds ==
  ASSUME ControlType, DataType, CallsInv, GuestEnds, honest, HonestInv
  PROVE  HonestInv'
<1>1. /\ child = "run" /\ child' = "flush"
      /\ UNCHANGED <<pc, sequence, errorCode, dispatchPending, outgoing, dispatches,
                     stdin, stdout, honest, abi>>
      /\ \/ toWrite' = <<Finish(TRUE)>>
         \/ ~abi.sticky /\ toWrite' = Append(LogFrames, Finish(FALSE))
  BY DEF GuestEnds, others, parent
<1> SUFFICES ASSUME pc \notin Ended  PROVE Flushing'
  BY <1>1 DEF HonestInv
<1>2. Quiet  BY <1>1 DEF HonestInv
<1>3. CASE toWrite' = <<Finish(TRUE)>>
  <2>1. abi'.sent \in Nat /\ abi'.sent < MessageCap  BY <1>1, RoomToFinish
  <2> QED  BY <1>1, <1>2, <1>3, <2>1, ErrorPlan DEF Quiet, Clear
<1>4. CASE ~abi.sticky /\ toWrite' = Append(LogFrames, Finish(FALSE))
  <2>1. AllCommitted  BY <1>2, <1>4 DEF Quiet
  <2> QED  BY <1>1, <1>2, <1>4, <2>1, LogPlan DEF Quiet, Clear
<1> QED  BY <1>1, <1>3, <1>4

\* InputReads: only the awaited response is ever in stdin.
LEMMA HonestInput ==
  ASSUME ControlType, DataType, InputReads, honest, HonestInv
  PROVE  HonestInv'
<1>1. /\ child \in {"run", "await", "flush"} /\ stdin # <<>> /\ stdin' = Tail(stdin)
      /\ child = "await" => child' = "await"
      /\ UNCHANGED <<pc, sequence, errorCode, dispatchPending, outgoing, dispatches,
                     stdout, honest, toWrite>>
  BY DEF InputReads, others, parent
<1>2. abi'.sent = abi.sent /\ abi'.responses = Append(abi.responses, Head(stdin))
  BY InputFields
<1> SUFFICES ASSUME pc \notin Ended  PROVE child' = "await" /\ Awaiting'
  BY <1>1 DEF HonestInv
<1>3. child = "await" /\ Awaiting
  BY <1>1 DEF HonestInv, Quiet, Flushing, Clear
<1>4. /\ stdout = <<>> /\ ~dispatchPending /\ Len(dispatches) = abi.sent
      /\ outgoing = Nothing /\ stdin = <<Message(abi.sent, Response)>>
      /\ abi.responses = <<>>
  BY <1>1, <1>3 DEF Awaiting
<1>5. Response' = Response  BY <1>1 DEF Response, Asked
<1>6. stdin' = <<>> /\ abi'.responses = <<Message(abi.sent, Response)>>
  BY <1>1, <1>2, <1>4
<1> QED  BY <1>1, <1>2, <1>3, <1>4, <1>5, <1>6 DEF Awaiting

LEMMA StepHonest ==
  ASSUME InvocationTypeOK, ThreadInv, CallsInv, HonestInv, Steps
  PROVE  HonestInv' /\ honest' = honest
<1>0. ControlType /\ DataType  BY TypeHalves
<1>h. honest' = honest
  <2>1. CASE \/ ParentMoves \/ ParentGivesUp \/ BrokerMoves \/ ClockMoves \/ GuestEnds
             \/ ChildStops \/ RogueMoves \/ GuestCalls
    BY <2>1 DEF ParentMoves, ParentGivesUp, BrokerMoves, ClockMoves, GuestEnds,
         ChildStops, RogueMoves, GuestCalls, Outside, runner
  <2>2. CASE PollResponds \/ RecvEffect \/ RecvLog \/ RecvFinish \/ WriterWrites
             \/ Boot \/ RunnerWrites \/ GuestResponse \/ InputReads
             \/ (\E o \in 0..MaxEffects : GuestEffect(o))
    BY <2>2 DEF PollResponds, RecvEffect, RecvLog, RecvFinish, WriterWrites, Boot,
         RunnerWrites, GuestResponse, InputReads, GuestEffect, Continue, Return, runner
  <2> QED  BY <2>1, <2>2 DEF Steps
<1> SUFFICES HonestInv'  BY <1>h
<1>a. CASE ~honest  BY <1>h, <1>a DEF HonestInv
<1>b. CASE honest
  <2>1. CASE ParentMoves
    <3>1. CASE pc' \in Ended  BY <3>1 DEF HonestInv
    <3>2. CASE pc' \notin Ended
      <4>1. /\ pc \notin Ended /\ pc' # "wait"
            /\ UNCHANGED <<sequence, errorCode, dispatchPending, outgoing, dispatches,
                           stdin, stdout, abi, toWrite, child>>
        BY <2>1, <3>2 DEF ParentMoves, messages, Ended
      <4> QED  BY <1>b, <1>h, <4>1, PhaseSame DEF HonestInv
    <3> QED  BY <3>1, <3>2
  <2>2. CASE ParentGivesUp  BY <2>2 DEF ParentGivesUp, HonestInv, Ended
  <2>3. CASE PollResponds  BY <1>0, <1>b, <2>3, HonestResponds
  <2>4. CASE RecvEffect  BY <1>0, <1>b, <2>4, HonestEffect
  <2>5. CASE RecvLog \/ RecvFinish  BY <1>0, <1>b, <2>5, HonestReads
  <2>6. CASE WriterWrites  BY <1>0, <1>b, <2>6, HonestWriter
  <2>7. CASE BrokerMoves  BY <1>0, <1>b, <2>7, HonestBroker
  <2>8. CASE ClockMoves
    <3>1. UNCHANGED <<pc, sequence, errorCode, dispatchPending, outgoing, dispatches,
                      stdin, stdout, abi, toWrite, child>>
      BY <2>8 DEF ClockMoves, parent, runner
    <3> QED  BY <1>h, <3>1, PhaseSame DEF HonestInv
  <2>9. CASE Boot  BY <1>0, <1>b, <2>9, HonestBoot
  <2>10. CASE GuestCalls  BY <1>0, <1>b, <2>10, HonestCalls
  <2>11. ASSUME NEW o \in 0..MaxEffects, GuestEffect(o)  PROVE HonestInv'
    BY <1>0, <1>b, <2>11, HonestAsks
  <2>12. CASE GuestResponse  BY <1>0, <1>b, <2>12, HonestAnswered
  <2>13. CASE GuestEnds  BY <1>0, <1>b, <2>13, HonestEnds
  <2>14. CASE RunnerWrites
    <3>1. child = "flush" /\ child' = child /\ pc' = pc
      BY <2>14 DEF RunnerWrites, others, parent
    <3>2. CASE pc \in Ended  BY <3>1, <3>2 DEF HonestInv
    <3>3. CASE pc \notin Ended
      <4>1. Flushing  BY <1>b, <3>1, <3>3 DEF HonestInv
      <4>2. Flushing'  BY <1>0, <2>14, <4>1, RunnerFlushes
      <4> QED  BY <3>1, <4>2 DEF HonestInv
    <3> QED  BY <3>2, <3>3
  <2>15. CASE ChildStops
    <3>1. UNCHANGED <<pc, sequence, errorCode, dispatchPending, outgoing, dispatches,
                      stdin, stdout, abi, toWrite>>
      BY <2>15 DEF ChildStops, others, parent
    <3>2. /\ child \notin Gone /\ child' \in {"exit0", "exit1"}
          /\ child' = "exit0" => child \in {"flush", "rogue"}
      BY <2>15 DEF ChildStops
    <3>3. /\ Quiet /\ child' \in {child, "exit1"} => Quiet'
          /\ Awaiting => Awaiting'
          /\ Flushing => Flushing'
      BY <3>1, PhaseSame
    <3>4. CASE pc \in Ended  BY <3>1, <3>4 DEF HonestInv
    <3>5. CASE pc \notin Ended
      <4>1. CASE child \in {"boot", "run", "exit1"} /\ Quiet
        BY <3>2, <3>3, <4>1 DEF HonestInv
      <4>2. CASE child \in {"await", "exit1"} /\ Awaiting
        BY <3>2, <3>3, <4>2 DEF HonestInv
      <4>3. CASE child \in {"flush", "exit0", "exit1"} /\ Flushing
        BY <3>2, <3>3, <4>3 DEF HonestInv
      <4> QED  BY <1>b, <3>5, <4>1, <4>2, <4>3 DEF HonestInv
    <3> QED  BY <3>4, <3>5
  <2>16. CASE RogueMoves
    <3>1. child = "rogue" /\ pc' = pc  BY <2>16 DEF RogueMoves, others, parent
    <3> QED  BY <1>b, <3>1 DEF HonestInv
  <2>17. CASE InputReads  BY <1>0, <1>b, <2>17, HonestInput
  <2> QED
    BY <2>1, <2>2, <2>3, <2>4, <2>5, <2>6, <2>7, <2>8, <2>9, <2>10, <2>11, <2>12,
       <2>13, <2>14, <2>15, <2>16, <2>17
    DEF Steps
<1> QED  BY <1>h, <1>0, <1>a, <1>b

-----------------------------------------------------------------------------
(* What run returns. *)

\* Whatever the real runner has in the pipe, ParentSequence accepts it.
LEMMA HonestAccepted ==
  ASSUME ControlType, DataType, ThreadInv, CallsInv, HonestInv,
         honest, pc \notin Ended, stdout # <<>>
  PROVE  Accepts(Head(stdout))
<1>1. /\ abi.sent \in Nat /\ MessageCap \in Nat /\ LogCap \in Nat /\ abi.sent < MessageCap
      /\ sequence.messages \in Nat /\ sequence.logBytes \in Nat
  BY RoomToFinish, InvocationAssumption DEF DataType, SequenceType
<1>2. ~Quiet  BY DEF Quiet
<1>3. CASE Awaiting
  <2>1. stdout = <<Frame("effect", abi.sent, FALSE)>> /\ ~dispatchPending
        /\ Len(dispatches) = abi.sent - 1 /\ ~sequence.finished
        /\ sequence.messages = Len(dispatches)
    BY <1>3 DEF Awaiting
  <2>2. Head(stdout).kind = "effect" /\ Head(stdout).n = abi.sent
    BY <2>1 DEF Frame
  <2>3. sequence.pending = 0 /\ sequence.next = Len(dispatches) + 1
    BY <2>1 DEF ThreadInv
  <2>4. sequence.next = abi.sent /\ sequence.messages < MessageCap
    BY <1>1, <2>1, <2>3
  <2> QED  BY <2>1, <2>2, <2>3, <2>4 DEF Accepts
<1>4. CASE Flushing
  <2>1. PICK p, f : p \in Seq(Frames) /\ f \in [0..Len(p) -> 0..LogCap] /\ FlushingOf(p, f)
    BY <1>4 DEF Flushing, Plans
  <2>2. PICK k : k = sequence.messages - abi.sent  OBVIOUS
  <2>3. /\ k \in Nat /\ k + 1 \in 1..Len(p) /\ Head(stdout) = p[k + 1]
        /\ Head(stdout).kind \in {"log", "finish"} /\ ~sequence.finished
    BY <2>1, <2>2, FlushingHead
  <2>4. sequence.pending = 0  BY <1>4 DEF Flushing, ThreadInv
  <2>5. Len(p) \in Nat /\ abi.sent + Len(p) =< MessageCap
    BY <2>1 DEF FlushingOf, Plan
  <2>6. sequence.messages < MessageCap  BY <1>1, <2>2, <2>3, <2>5
  <2>7. Head(stdout).n =< LogCap - sequence.logBytes
    <3>1. (k + 1) - 1 = k  BY <2>3
    <3>2. f[k + 1] = f[k] + p[k + 1].n /\ sequence.logBytes = f[k]
      BY <2>1, <2>2, <2>3, <3>1 DEF FlushingOf, Plan
    <3>3. f[k + 1] \in 0..LogCap  BY <2>1, <2>3, <2>5
    <3>4. p[k + 1].n \in Nat
      <4>1. p[k + 1] \in Frames  BY <2>1, <2>3, ElementOfSeq
      <4> QED  BY <4>1, FrameFields
    <3> QED  BY <1>1, <2>3, <3>2, <3>3, <3>4
  <2> QED  BY <2>3, <2>4, <2>6, <2>7 DEF Accepts
<1> QED  BY <1>2, <1>3, <1>4 DEF HonestInv

\* run is about to return Ok for the real runner.
LEMMA HonestSuccess ==
  ASSUME ControlType, DataType, HonestInv, honest, pc = "wait", ~errorCode
  PROVE  /\ AllCommitted /\ Len(dispatches) = abi.sent
         /\ sequence.logBytes = abi.logBytes
         /\ sequence.messages = Len(abi.logs) + abi.sent + 1
<1>1. Flushing  BY DEF HonestInv, Ended, Quiet, Awaiting
<1>2. PICK p, f : p \in Seq(Frames) /\ f \in [0..Len(p) -> 0..LogCap] /\ FlushingOf(p, f)
  BY <1>1 DEF Flushing, Plans
<1>3. sequence.messages - abi.sent = Len(p) /\ ~p[Len(p)].error
  BY <1>2 DEF FlushingOf
<1>4. AllCommitted /\ Len(p) = Len(abi.logs) + 1 /\ sequence.logBytes = abi.logBytes
  BY <1>2, <1>3 DEF FlushingOf, Plan
<1>5. abi.sent \in Nat /\ Len(abi.logs) \in Nat /\ sequence.messages \in Nat
  BY AbiFields, InvocationAssumption DEF DataType, SequenceType
<1>6. sequence.messages = Len(abi.logs) + abi.sent + 1  BY <1>3, <1>4, <1>5
<1> QED  BY <1>1, <1>4, <1>6 DEF Flushing

LEMMA InitResult == Init => ResultInv
BY DEF Init, ResultInv, HonestNeverRejected

\* The steps that do not return and cannot happen after an Ok result.
LEMMA ResultSame ==
  ASSUME ResultInv, result' = result, pc' = pc, honest' = honest,
         \/ UNCHANGED <<child, dispatchPending, dispatches, abi, sequence>>
         \/ child # "exit0" \/ dispatchPending
  PROVE  ResultInv'
BY DEF ResultInv, HonestNeverRejected, AllCommitted

LEMMA StepResult ==
  ASSUME InvocationTypeOK, ThreadInv, CallsInv, HonestInv, ResultInv, Steps
  PROVE  ResultInv'
<1>0. ControlType /\ DataType  BY TypeHalves
<1>h. honest' = honest  BY StepHonest
<1>1. CASE ParentMoves
  <2>1. result = "none"  BY <1>1 DEF ParentMoves, ResultInv, Ended
  <2>2. CASE result' \notin {"ok", "Sequence"}
    BY <1>1, <2>1, <2>2 DEF ParentMoves, ResultInv, HonestNeverRejected
  <2>3. CASE result' \in {"ok", "Sequence"}
    <3>1. /\ pc = "wait" /\ ~errorCode /\ child = "exit0" /\ pc' = "done"
          /\ result' = "ok" /\ child' = child
          /\ UNCHANGED <<sequence, dispatchPending, dispatches, abi>>
      BY <1>1, <2>1, <2>3 DEF ParentMoves, messages
    <3>2. ~dispatchPending  BY <3>1 DEF ThreadInv
    <3>3. honest => /\ AllCommitted /\ Len(dispatches) = abi.sent
                    /\ sequence.logBytes = abi.logBytes
                    /\ sequence.messages = Len(abi.logs) + abi.sent + 1
      BY <1>0, <3>1, HonestSuccess
    <3> QED  BY <1>h, <3>1, <3>2, <3>3 DEF ResultInv, HonestNeverRejected, AllCommitted
  <2> QED  BY <2>2, <2>3
<1>2. CASE ParentGivesUp
  <2>1. pc \notin Ended /\ pc' = "done" /\ result' # "ok"
    BY <1>2 DEF ParentGivesUp
  <2>2. honest /\ result' = "Sequence" => FALSE
    BY <1>0, <1>2, HonestAccepted DEF ParentGivesUp
  <2> QED  BY <1>h, <2>1, <2>2 DEF ResultInv, HonestNeverRejected
<1>3. CASE PollResponds
  <2>1. pc = "poll" /\ dispatchPending  BY <1>3 DEF PollResponds
  <2>2. sequence.pending = Asked  BY <2>1 DEF ThreadInv, Ended, Asked
  <2>3. result' = result  BY <1>3, <2>2 DEF PollResponds, Continue
  <2>4. result = "none"  BY <2>1 DEF ResultInv
  <2> QED  BY <2>3, <2>4 DEF ResultInv, HonestNeverRejected
<1>4. CASE RecvEffect \/ RecvLog \/ RecvFinish
  <2>1. pc = "recv" /\ Accepts(Head(stdout))  BY <1>4 DEF RecvEffect, RecvLog, RecvFinish
  <2>2. ~dispatchPending
    <3>1. sequence.pending = 0 /\ Len(dispatches) \in Nat
      BY <1>0, <2>1 DEF Accepts, DataType
    <3> QED  BY <2>1, <3>1 DEF ThreadInv, Ended
  <2>3. result' = result
    BY <1>4, <2>2 DEF RecvEffect, RecvLog, RecvFinish, Continue
  <2>4. result = "none"  BY <2>1 DEF ResultInv
  <2> QED  BY <2>3, <2>4 DEF ResultInv, HonestNeverRejected
<1>5. CASE WriterWrites  BY <1>5, <1>h, ResultSame DEF WriterWrites, runner
<1>6. CASE BrokerMoves
  <2>1. dispatchPending  BY <1>6 DEF BrokerMoves, ThreadInv
  <2> QED  BY <1>6, <1>h, <2>1, ResultSame DEF BrokerMoves, parent
<1>7. CASE ClockMoves  BY <1>7, <1>h, ResultSame DEF ClockMoves, parent, runner
<1>8. CASE \/ Boot \/ GuestCalls \/ GuestResponse \/ GuestEnds \/ RunnerWrites
           \/ InputReads \/ RogueMoves
  BY <1>8, <1>h, ResultSame DEF Boot, GuestCalls, GuestResponse, GuestEnds,
     RunnerWrites, InputReads, RogueMoves, others, parent
<1>9. ASSUME NEW o \in 0..MaxEffects, GuestEffect(o)  PROVE ResultInv'
  BY <1>9, <1>h, ResultSame DEF GuestEffect, others, parent
<1>10. CASE ChildStops
  BY <1>10, <1>h, ResultSame DEF ChildStops, others, parent, Gone
<1> QED
  BY <1>1, <1>2, <1>3, <1>4, <1>5, <1>6, <1>7, <1>8, <1>9, <1>10 DEF Steps

\* StopsAtFailure over the indices of dispatches.
LEMMA StopsForm ==
  ASSUME DataType
  PROVE  StopsAtFailure <=>
           (honest => \A i \in 1..Len(dispatches) :
                        i < Len(dispatches) => dispatches[i] = "committed")
BY DEF DataType, StopsAtFailure, Asked

LEMMA StepStops ==
  ASSUME InvocationTypeOK, ThreadInv, CallsInv, HonestInv, StopsAtFailure, Steps
  PROVE  StopsAtFailure'
<1>0. ControlType /\ DataType  BY TypeHalves
<1>h. honest' = honest  BY StepHonest
<1>t. dispatches \in Seq(DispatchStates) /\ Len(dispatches) \in Nat
      /\ dispatches' \in Seq(DispatchStates)
  BY <1>0, StepTypes DEF DataType
<1> SUFFICES ASSUME honest, NEW i \in 1..Len(dispatches'), i < Len(dispatches')
             PROVE  dispatches'[i] = "committed"
  BY <1>h, <1>t DEF StopsAtFailure, Asked
<1>s. \A j \in 1..Len(dispatches) : j < Len(dispatches) => dispatches[j] = "committed"
  BY <1>0, StopsForm
<1>1. CASE dispatches' = dispatches  BY <1>1, <1>s
<1>2. CASE RecvEffect
  <2>1. Awaiting /\ Len(dispatches) = abi.sent - 1  BY <1>0, <1>2, HonestEffect
  <2>2. abi.sent \in Nat  BY <1>0, AbiFields DEF DataType
  <2>3. \A j \in 1..Len(dispatches) : dispatches[j] = "committed"
    BY <1>t, <2>1, <2>2 DEF Awaiting
  <2>4. dispatches' = dispatches \/ dispatches' = Append(dispatches, "started")
    BY <1>2 DEF RecvEffect
  <2>5. CASE dispatches' = Append(dispatches, "started")
    <3>1. i \in 1..Len(dispatches) /\ dispatches'[i] = dispatches[i]
      BY <1>t, <2>5
    <3> QED  BY <2>3, <3>1
  <2> QED  BY <1>1, <2>4, <2>5
<1>3. CASE BrokerMoves
  <2>1. PICK b \in 1..Len(dispatches), to \in DispatchStates :
          dispatches[b] \in InProgress /\ dispatches' = [dispatches EXCEPT ![b] = to]
    BY <1>3 DEF BrokerMoves
  <2>2. b = Len(dispatches)  BY <2>1 DEF ThreadInv
  <2>3. Len(dispatches') = Len(dispatches) /\ (i # b => dispatches'[i] = dispatches[i])
    BY <1>t, <2>1, ExceptSeq
  <2> QED  BY <1>s, <1>t, <2>2, <2>3
<1>4. CASE \/ ParentMoves \/ ParentGivesUp \/ ClockMoves \/ GuestEnds
           \/ ChildStops \/ RogueMoves \/ GuestCalls
  BY <1>1, <1>4 DEF ParentMoves, ParentGivesUp, ClockMoves, GuestEnds,
       ChildStops, RogueMoves, GuestCalls, messages, others
<1>5. CASE PollResponds \/ RecvLog \/ RecvFinish \/ WriterWrites
           \/ Boot \/ RunnerWrites \/ GuestResponse \/ InputReads
           \/ (\E o \in 0..MaxEffects : GuestEffect(o))
  BY <1>1, <1>5 DEF PollResponds, RecvLog, RecvFinish, WriterWrites, Boot,
       RunnerWrites, GuestResponse, InputReads, GuestEffect, others
<1> QED  BY <1>2, <1>3, <1>4, <1>5 DEF Steps

-----------------------------------------------------------------------------
(* What is on its way to the runner. *)

LEMMA InitMail == Init => MailInv
BY DEF Init, MailInv

LEMMA MailSame ==
  ASSUME MailInv, pc' = pc \/ pc' # "done", child' \in {child} \cup Gone,
         UNCHANGED <<outgoing, stdin, honest>>,
         abi'.sent = abi.sent, abi'.responses = abi.responses
  PROVE  MailInv'
BY DEF MailInv, Clear, Carried, Gone

\* While run has not returned, HonestInv says where a response can be.
LEMMA HonestMail ==
  ASSUME HonestInv', (pc \notin Ended)'
  PROVE  MailInv'
<1>1. (pc # "done")'  BY DEF Ended
<1>2. CASE (~honest)'  BY <1>1, <1>2 DEF MailInv
<1>3. CASE (child \in {"boot", "run", "exit1"} /\ Quiet)'
  BY <1>1, <1>3 DEF MailInv, Quiet, Clear
<1>4. CASE (child \in {"await", "exit1"} /\ Awaiting)'
  <2>1. (Message(abi.sent, Response).id = abi.sent)'  BY DEF Message
  <2>2. (Clear \/ Carried(Message(abi.sent, Response)))'
    BY <1>4 DEF Awaiting, Clear, Carried
  <2> QED  BY <1>1, <1>4, <2>1, <2>2 DEF MailInv
<1>5. CASE (child \in {"flush", "exit0", "exit1"} /\ Flushing)'
  BY <1>1, <1>5 DEF MailInv, Flushing
<1> QED  BY <1>2, <1>3, <1>4, <1>5 DEF HonestInv

\* The supervisor is dead: nothing is written, and the runner reads what is there.
LEMMA DeadMail ==
  ASSUME ControlType, DataType, MailInv, pc = "dead", pc' = "dead", Steps
  PROVE  MailInv'
<1>1. CASE ParentMoves \/ ParentGivesUp \/ PollResponds \/ RecvEffect \/ RecvLog
           \/ RecvFinish \/ WriterWrites \/ RunnerWrites
           \/ (\E o \in 0..MaxEffects : GuestEffect(o))
  BY <1>1 DEF ParentMoves, ParentGivesUp, PollResponds, RecvEffect, RecvLog, RecvFinish,
     WriterWrites, RunnerWrites, GuestEffect, CanWrite, Ended
<1>2. CASE BrokerMoves \/ ClockMoves \/ GuestCalls
  BY <1>2, MailSame DEF BrokerMoves, ClockMoves, GuestCalls, Outside, others, parent, runner
<1>3. CASE ChildStops
  BY <1>3, MailSame DEF ChildStops, others, parent, Gone
<1>4. CASE GuestEnds  BY <1>4 DEF GuestEnds, MailInv, Clear, others, parent
<1>5. CASE RogueMoves  BY <1>5 DEF RogueMoves, MailInv, others, parent, runner
<1>6. CASE Boot
  <2>1. /\ child = "boot" /\ stdin # <<>> /\ stdin' = Tail(stdin)
        /\ UNCHANGED <<outgoing, honest, abi>> /\ child' \in {"run", "flush"}
    BY <1>6 DEF Boot, others, parent
  <2>2. CASE ~honest  BY <2>1, <2>2 DEF MailInv
  <2>3. CASE honest
    <3>1. abi.responses = <<>> /\ outgoing = Nothing /\ Len(stdin) = 1
      BY <2>1, <2>3 DEF MailInv
    <3>2. stdin' = <<>>
      <4>1. stdin \in Seq(Messages)  BY DEF DataType
      <4>2. Tail(stdin) \in Seq(Messages) /\ Len(Tail(stdin)) = 0
        BY <2>1, <3>1, <4>1, HeadTail
      <4> QED  BY <2>1, <4>2, EmptySeq
    <3> QED  BY <2>1, <3>1, <3>2 DEF MailInv, Clear
  <2> QED  BY <2>2, <2>3
<1>7. CASE GuestResponse
  <2>1. /\ child = "await" /\ abi.responses # <<>> /\ child' \in {"run", "flush"}
        /\ UNCHANGED <<outgoing, stdin, honest>>
    BY <1>7 DEF GuestResponse, others, parent
  <2>2. abi'.responses = Tail(abi.responses)  BY <1>7, ResponseFields
  <2>3. CASE ~honest  BY <2>1, <2>3 DEF MailInv
  <2>4. CASE honest
    <3>1. PICK m : outgoing = Nothing /\ stdin = <<>> /\ abi.responses = <<m>>
      BY <2>1, <2>4 DEF MailInv, Clear, Carried
    <3>2. abi'.responses = <<>>  BY <2>2, <3>1
    <3> QED  BY <2>1, <3>1, <3>2 DEF MailInv, Clear
  <2> QED  BY <2>3, <2>4
<1>8. CASE InputReads
  <2>1. /\ child \in {"run", "await", "flush"} /\ stdin # <<>> /\ stdin' = Tail(stdin)
        /\ child = "await" => child' = "await"
        /\ UNCHANGED <<outgoing, honest>>
        /\ child = "run" => child' = "run"
        /\ child = "flush" => child' = "exit1"
    BY <1>8 DEF InputReads, others, parent
  <2>2. abi'.sent = abi.sent /\ abi'.responses = Append(abi.responses, Head(stdin))
    BY <1>8, InputFields
  <2>3. CASE ~honest  BY <2>1, <2>3 DEF MailInv
  <2>4. CASE honest
    <3>1. child = "await"  BY <2>1, <2>4 DEF MailInv, Clear
    <3>2. PICK m : /\ m.id = abi.sent /\ outgoing = Nothing /\ stdin = <<m>>
                   /\ abi.responses = <<>>
      BY <2>1, <2>4, <3>1 DEF MailInv, Clear, Carried
    <3>3. stdin' = <<>> /\ abi'.responses = <<m>>  BY <2>1, <2>2, <3>2
    <3>4. Carried(m)'  BY <2>1, <3>2, <3>3 DEF Carried
    <3> QED  BY <2>1, <2>2, <3>1, <3>2, <3>4 DEF MailInv
  <2> QED  BY <2>3, <2>4
<1> QED  BY <1>1, <1>2, <1>3, <1>4, <1>5, <1>6, <1>7, <1>8 DEF Steps

\* run has returned: its child is gone.
LEMMA DoneMail ==
  ASSUME ControlType, MailInv, pc' = "done", Steps
  PROVE  MailInv'
<1> SUFFICES child' \in Gone  BY DEF MailInv, Gone
<1>1. CASE ParentMoves \/ ParentGivesUp
  BY <1>1 DEF ParentMoves, ParentGivesUp, Gone
<1>2. CASE PollResponds \/ RecvEffect \/ RecvLog \/ RecvFinish
  <2>1. \E r : Return(r)
    BY <1>2 DEF PollResponds, RecvEffect, RecvLog, RecvFinish, Continue
  <2> QED  BY <2>1, ReturnTypes
<1>3. CASE ~(ParentMoves \/ ParentGivesUp \/ PollResponds \/ RecvEffect \/ RecvLog
             \/ RecvFinish)
  <2>1. pc' = pc
    BY <1>3 DEF Steps, WriterWrites, BrokerMoves, ClockMoves, Boot, GuestCalls, GuestEffect,
       GuestResponse, GuestEnds, RunnerWrites, ChildStops, RogueMoves, InputReads,
       others, parent
  <2>2. child \in Gone  BY <2>1 DEF MailInv
  <2> QED
    BY <1>3, <2>2 DEF Steps, WriterWrites, BrokerMoves, ClockMoves, Boot, GuestCalls,
       GuestEffect, GuestResponse, GuestEnds, RunnerWrites, ChildStops, RogueMoves,
       InputReads, Outside, runner, Gone
<1> QED  BY <1>1, <1>2, <1>3

LEMMA StepMail ==
  ASSUME InvocationTypeOK, MailInv, Steps, HonestInv'
  PROVE  MailInv'
<1>0. ControlType /\ DataType  BY TypeHalves
<1>1. CASE pc' \notin Ended  BY <1>1, HonestMail
<1>2. CASE pc' = "done"  BY <1>0, <1>2, DoneMail
<1>3. CASE pc' = "dead" /\ pc = "dead"  BY <1>0, <1>3, DeadMail
<1>4. CASE pc' = "dead" /\ pc # "dead"
  <2>1. ParentMoves
    BY <1>4 DEF Steps, ParentGivesUp, PollResponds, RecvEffect, RecvLog, RecvFinish,
       WriterWrites, BrokerMoves, ClockMoves, Boot, GuestCalls, GuestEffect,
       GuestResponse, GuestEnds, RunnerWrites, ChildStops, RogueMoves, InputReads,
       others, parent, Continue, Return
  <2> QED  BY <1>4, <2>1, MailSame DEF ParentMoves, messages
<1> QED  BY <1>1, <1>2, <1>3, <1>4 DEF Ended

-----------------------------------------------------------------------------
(* The theorems. *)

LEMMA InitInv == Init => InvocationInv
<1>1. Init => StopsAtFailure  BY DEF Init, StopsAtFailure
<1> QED
  BY InitTypes, InitThread, InitCalls, InitHonest, InitResult, InitMail, <1>1
  DEF InvocationInv

LEMMA NextInv == InvocationInv /\ [Next]_vars => InvocationInv'
<1> SUFFICES ASSUME InvocationInv, [Next]_vars  PROVE InvocationInv'
  OBVIOUS
<1>0. /\ InvocationTypeOK /\ ThreadInv /\ CallsInv
      /\ HonestInv /\ ResultInv /\ StopsAtFailure /\ MailInv
  BY DEF InvocationInv
<1>1. InvocationTypeOK' /\ (Steps \/ UNCHANGED vars)  BY <1>0, StepOrStutter
<1>2. CASE Steps
  <2>1. ThreadInv'  BY <1>0, <1>2, StepThread
  <2>2. CallsInv'  BY <1>0, <1>2, StepCalls
  <2>3. HonestInv'  BY <1>0, <1>2, StepHonest
  <2>4. ResultInv'  BY <1>0, <1>2, StepResult
  <2>5. StopsAtFailure'  BY <1>0, <1>2, StepStops
  <2>6. MailInv'  BY <1>0, <1>2, <2>3, StepMail
  <2> QED  BY <1>1, <2>1, <2>2, <2>3, <2>4, <2>5, <2>6 DEF InvocationInv
<1>3. CASE UNCHANGED vars
  <2>0. UNCHANGED <<pc, result, sequence, errorCode, dispatchPending, outgoing,
                    dispatches, stdin, stdout, honest, child, abi, toWrite>>
    BY <1>3 DEF vars, parent, runner
  <2>1. ThreadInv'  BY <1>0, <2>0, ThreadSame
  <2>2. CallsInv'  BY <1>0, <2>0, CallsSame
  <2>3. HonestInv'  BY <1>0, <2>0, PhaseSame DEF HonestInv
  <2>4. ResultInv'  BY <1>0, <2>0, ResultSame
  <2>5. StopsAtFailure'  BY <1>0, <2>0 DEF StopsAtFailure, Asked
  <2>6. MailInv'  BY <1>0, <2>0, MailSame
  <2> QED  BY <1>1, <2>1, <2>2, <2>3, <2>4, <2>5, <2>6 DEF InvocationInv
<1> QED  BY <1>1, <1>2, <1>3

LEMMA InvImpliesSuccess == InvocationInv => SuccessIsCommitted
<1> SUFFICES ASSUME InvocationInv, result = "ok"
             PROVE  /\ child = "exit0"
                    /\ \A i \in DOMAIN dispatches : dispatches[i] \notin InProgress
                    /\ honest =>
                         /\ \A i \in DOMAIN dispatches : dispatches[i] = "committed"
                         /\ Len(dispatches) = abi.sent
                         /\ sequence.logBytes = abi.logBytes
                         /\ sequence.messages = Len(abi.logs) + abi.sent + 1
  BY DEF SuccessIsCommitted
<1>1. DOMAIN dispatches = 1..Len(dispatches)
  BY DEF InvocationInv, InvocationTypeOK
<1>2. ResultInv /\ ThreadInv  BY DEF InvocationInv
<1> QED  BY <1>1, <1>2 DEF ResultInv, ThreadInv, AllCommitted

\* Supervisor::run returns Ok only after the child exited with status 0 and no
\* dispatch thread is at the broker; of the real runner, every effect it asked
\* for was committed and every log message it kept was counted by the supervisor.
THEOREM OkMeansCommitted == Spec => []SuccessIsCommitted
BY InitInv, NextInv, InvImpliesSuccess, PTL DEF Spec

\* For every budget of host calls below ParentSequence's message cap and every
\* cap on log bytes, no frame of the real runner is out of sequence.
THEOREM RunnerNeverRejected == Spec => []HonestNeverRejected
<1>1. InvocationInv => HonestNeverRejected  BY DEF InvocationInv, ResultInv
<1> QED  BY InitInv, NextInv, <1>1, PTL DEF Spec

\* Once an effect of the real runner is not committed, no further effect of its
\* run reaches the broker (State::sticky).
THEOREM FailureStopsEffects == Spec => []StopsAtFailure
<1>1. InvocationInv => StopsAtFailure  BY DEF InvocationInv
<1> QED  BY InitInv, NextInv, <1>1, PTL DEF Spec

LEMMA MailAwaited == InvocationInv => ResponsesAwaited
<1> SUFFICES ASSUME InvocationInv, honest, child \in {"run", "await", "flush"}
             PROVE  /\ Len(OnItsWay) =< IF child = "await" THEN 1 ELSE 0
                    /\ \A i \in DOMAIN OnItsWay : OnItsWay[i].id = abi.sent
  BY DEF ResponsesAwaited
<1>1. MailInv /\ stdin \in Seq(Messages) /\ abi.responses \in Seq(Messages)
      /\ outgoing \in Messages
  BY DEF InvocationInv, InvocationTypeOK
<1> DEFINE first == IF outgoing = Nothing THEN <<>> ELSE <<outgoing>>
<1>2. first \in Seq(Messages)  BY <1>1, Singleton, EmptySeq
<1>3. /\ stdin = <<>> /\ abi.responses = <<>> => OnItsWay = first
      /\ outgoing = Nothing /\ abi.responses = <<>> => OnItsWay = stdin
      /\ outgoing = Nothing /\ stdin = <<>> => OnItsWay = abi.responses
  BY <1>1, <1>2, ConcatEmptySeq, EmptySeq DEF OnItsWay
<1>4. CASE Clear
  <2>1. OnItsWay = <<>>  BY <1>3, <1>4 DEF Clear
  <2>2. Len(OnItsWay) = 0 /\ DOMAIN OnItsWay = {}  BY <2>1
  <2> QED  BY <2>2
<1>5. ASSUME NEW m, m.id = abi.sent, Carried(m), child = "await"
      PROVE  Len(OnItsWay) =< 1 /\ \A i \in DOMAIN OnItsWay : OnItsWay[i].id = abi.sent
  <2>1. OnItsWay = <<>> \/ OnItsWay = <<m>>  BY <1>3, <1>5 DEF Carried
  <2>2. CASE OnItsWay = <<>>
    <3>1. Len(OnItsWay) = 0 /\ DOMAIN OnItsWay = {}  BY <2>2
    <3> QED  BY <3>1
  <2>3. CASE OnItsWay = <<m>>
    <3>1. Len(OnItsWay) = 1 /\ DOMAIN OnItsWay = {1} /\ OnItsWay[1] = m  BY <2>3
    <3> QED  BY <1>5, <3>1
  <2> QED  BY <2>1, <2>2, <2>3
<1> QED  BY <1>1, <1>4, <1>5 DEF MailInv

\* A response on its way to the real runner is the only one and answers the request
\* the guest waits in, for every cap, also after the supervisor's process died: the
\* runner's input thread never has to wait for the guest.
THEOREM ResponsesMatch == Spec => []ResponsesAwaited
BY InitInv, NextInv, MailAwaited, PTL DEF Spec

=============================================================================
