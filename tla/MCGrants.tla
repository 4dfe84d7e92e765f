------------------------------ MODULE MCGrants ------------------------------
(***************************************************************************)
(* Small instances of Grants for TLC.                                      *)
(***************************************************************************)
EXTENDS Grants, TLC

CONSTANTS t1, c1, c2, r1, r2, d1, d2, p1, p2

ConnectionSymmetry == Permutations({c1, c2})
BudgetSymmetry == Permutations({c1, c2}) \cup Permutations({r1, r2})

OneAdapter == d1 :> {p1}

\* Project p2 is configured for destination d1 only.
TwoAdapters == d1 :> {p1, p2} @@ d2 :> {p1}

Asks(ds, ps, until, n) ==
  [destinations |-> ds, projects |-> ps, expires |-> until, max |-> n]

\* locks: two times of expiry.
LocksAuthorities == {Asks({d1}, {p1}, until, 1) : until \in {1, 2}}

\* budget: one or two effects, with as much time; a scope that the operator
\* did not configure, since d2 has no p2.
BudgetAuthorities ==
  {Asks({d1}, {p1}, n, n) : n \in {1, 2}} \cup {Asks({d1, d2}, {p1, p2}, 2, 2)}
=============================================================================
