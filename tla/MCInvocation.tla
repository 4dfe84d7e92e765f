---------------------------- MODULE MCInvocation ----------------------------
(***************************************************************************)
(* Small instance of Invocation for TLC.                                   *)
(***************************************************************************)
EXTENDS Invocation

\* An empty log message, and one that uses up the cap.
Sizes == {0, 2}

\* The ids of the first three effects that a parent may expect.
Ids == 1..3

\* States with a child without protocol are told apart up to what lies in its
\* stdin and how dispatches ended whose answer was taken: no other step reads
\* that, and the properties that do are about the real runner.
Unread(i) ==
  /\ ~honest /\ dispatches[i] \notin InProgress
  /\ ~(dispatchPending /\ i = Asked)

InvocationView ==
  <<parent, lease, late,
    [i \in DOMAIN dispatches |-> IF Unread(i) THEN "past" ELSE dispatches[i]],
    IF honest THEN stdin ELSE <<>>, stdout, runner>>
=============================================================================
