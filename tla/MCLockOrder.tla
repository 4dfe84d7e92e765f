---------------------------- MODULE MCLockOrder ----------------------------
(***************************************************************************)
(* A small instance of LockOrder for TLC: one tenant, a root grant with a  *)
(* child, and a run under the child.                                       *)
(***************************************************************************)
EXTENDS LockOrder, TLC

CONSTANTS c1, c2, c3, t1, g1, g2, r1

Chains == g1 :> <<g1>> @@ g2 :> <<g1, g2>>
Owner == g1 :> t1 @@ g2 :> t1
UnderChild == r1 :> g2
=============================================================================
