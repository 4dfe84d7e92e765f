---------------------------- MODULE GrantsProofs ----------------------------
(***************************************************************************)
(* Grants, proved for any number of tenants, grants, runs, effects and     *)
(* connections and any limit on the length of a chain.                     *)
(*                                                                         *)
(* The argument.  A chain never changes once its grant exists, because a   *)
(* grant names its parent for ever and a new grant is nobody's ancestor.   *)
(* A transaction that has locked a row holds a true copy of it, because    *)
(* whoever changes a row has locked it.  So what create_grant and          *)
(* reserve_grant_chain decide on their copies is true of the table when    *)
(* they commit.                                                            *)
(***************************************************************************)
EXTENDS Grants, FiniteSetTheorems, SequenceTheorems, TLAPS

(***************************************************************************)
(* Chains, of any function from grants to their parents.                   *)
(***************************************************************************)

ClosedIn(P, S) == \A b \in S : P[b] # 0 => P[b] \in S

ChainIn(P, g) ==
  {a \in DOMAIN P : \A S \in SUBSET DOMAIN P : g \in S /\ ClosedIn(P, S) => a \in S}

\* Parents are grants.
Forest(P) == \A b \in DOMAIN P : P[b] \in DOMAIN P \cup {0}

LEMMA ChainLeast ==
  ASSUME NEW P, NEW g, NEW S \in SUBSET DOMAIN P, g \in S, ClosedIn(P, S)
  PROVE  ChainIn(P, g) \subseteq S
BY DEF ChainIn

LEMMA ChainClosed ==
  ASSUME NEW P, Forest(P), NEW g \in DOMAIN P
  PROVE  /\ g \in ChainIn(P, g) /\ ChainIn(P, g) \subseteq DOMAIN P
         /\ ClosedIn(P, ChainIn(P, g))
BY DEF ChainIn, ClosedIn, Forest

\* The chain of an ancestor is part of the chain.
LEMMA ChainOfAncestor ==
  ASSUME NEW P, Forest(P), NEW g \in DOMAIN P, NEW a \in ChainIn(P, g)
  PROVE  ChainIn(P, a) \subseteq ChainIn(P, g)
BY ChainClosed, ChainLeast

\* Q is P with one more grant.
Extends(Q, P, n) ==
  /\ n \notin DOMAIN P /\ DOMAIN Q = DOMAIN P \cup {n}
  /\ \A b \in DOMAIN P : Q[b] = P[b]

LEMMA OldChain ==
  ASSUME NEW P, NEW Q, NEW n, Forest(P), Extends(Q, P, n), NEW g \in DOMAIN P
  PROVE  ChainIn(Q, g) = ChainIn(P, g)
<1>1. ChainIn(Q, g) \subseteq ChainIn(P, g)
  <2>1. ChainIn(P, g) \in SUBSET DOMAIN Q /\ g \in ChainIn(P, g)
    BY ChainClosed DEF Extends
  <2>2. ClosedIn(Q, ChainIn(P, g))
    BY ChainClosed DEF ClosedIn, Extends
  <2> QED
    BY <2>1, <2>2, ChainLeast
<1>2. ASSUME NEW a \in ChainIn(P, g), NEW S \in SUBSET DOMAIN Q, g \in S, ClosedIn(Q, S)
      PROVE  a \in S
  <2>1. S \cap DOMAIN P \in SUBSET DOMAIN P /\ g \in S \cap DOMAIN P
    BY <1>2
  <2>2. ClosedIn(P, S \cap DOMAIN P)
    BY <1>2 DEF ClosedIn, Extends, Forest
  <2> QED
    BY <2>1, <2>2, ChainLeast
<1>3. ChainIn(P, g) \subseteq DOMAIN Q
  BY ChainClosed DEF Extends
<1> QED
  BY <1>1, <1>2, <1>3 DEF ChainIn

LEMMA NewChain ==
  ASSUME NEW P, NEW Q, NEW n, Forest(P), Extends(Q, P, n), Q[n] \in DOMAIN P \cup {0},
         0 \notin DOMAIN P
  PROVE  /\ Q[n] = 0 => ChainIn(Q, n) = {n}
         /\ Q[n] # 0 => ChainIn(Q, n) = {n} \cup ChainIn(P, Q[n])
<1> DEFINE C == IF Q[n] = 0 THEN {n} ELSE {n} \cup ChainIn(P, Q[n])
<1>1. Forest(Q) /\ n \in DOMAIN Q
  BY DEF Forest, Extends
<1>2. n \in ChainIn(Q, n) /\ ClosedIn(Q, ChainIn(Q, n))
  BY <1>1, ChainClosed
<1>3. C \subseteq ChainIn(Q, n)
  <2>1. CASE Q[n] = 0
    BY <1>2, <2>1
  <2>2. CASE Q[n] # 0
    <3>1. Q[n] \in ChainIn(Q, n) /\ Q[n] \in DOMAIN P
      BY <1>2, <2>2 DEF ClosedIn
    <3>2. ChainIn(Q, Q[n]) \subseteq ChainIn(Q, n)
      BY <1>1, <3>1, ChainOfAncestor
    <3> QED
      BY <1>2, <2>2, <3>1, <3>2, OldChain
  <2> QED
    BY <2>1, <2>2
<1>4. C \in SUBSET DOMAIN Q /\ n \in C
  BY ChainClosed DEF Extends
<1>5. ClosedIn(Q, C)
  <2>1. CASE Q[n] = 0
    BY <2>1 DEF ClosedIn
  <2>2. CASE Q[n] # 0
    <3>1. /\ Q[n] \in ChainIn(P, Q[n]) /\ ChainIn(P, Q[n]) \subseteq DOMAIN P
          /\ ClosedIn(P, ChainIn(P, Q[n]))
      BY <2>2, ChainClosed
    <3> QED
      BY <2>2, <3>1 DEF ClosedIn, Extends
  <2> QED
    BY <2>1, <2>2
<1> HIDE DEF C
<1>6. ChainIn(Q, n) \subseteq C
  BY <1>4, <1>5, ChainLeast
<1> QED
  BY <1>3, <1>6 DEF C

(***************************************************************************)
(* The table.                                                              *)
(***************************************************************************)

Parents == [g \in GrantIds |-> grants[g].parent]

LEMMA ChainOfTable ==
  /\ \A g : Chain(g) = ChainIn(Parents, g)
  /\ \A g : Chain(g)' = ChainIn(Parents', g)
BY DEF Chain, ChainIn, Parents, Closed, ClosedIn, GrantIds

\* What a transaction's record is, by its operation, and what a row of effects
\* is, when the grants are ids.
TxIn(t, ids) ==
  /\ DOMAIN t.seen \subseteq ids
  /\ t \in [op : {"idle", "create", "revoke", "reserve"}, leaf : ids \cup {0},
            todo : SUBSET ids, seen : [DOMAIN t.seen -> Copies],
            authority : Authorities \cup {None}, effect : (Runs \X Ordinals) \cup {None},
            asof : Nat \cup {Unread}]
  /\ t.op = "idle" => t = Idle
  /\ t.op # "idle" => t.leaf \in ids
  /\ t.op = "create" => t.authority \in Authorities
  /\ t.op = "reserve" => t.effect \in Runs \X Ordinals

EffectsIn(ids) ==
  [state : EffectStates \cup {"NONE"}, destination : Destinations \cup {None},
   project : Projects \cup {None}, charged : BOOLEAN, reserved : SUBSET ids]

TableOK ==
  /\ grants \in Seq(GrantRows) /\ Len(grants) =< MaxGrants
  /\ \A g \in GrantIds : grants[g].used =< grants[g].authority.max

TypeInv ==
  /\ TableOK
  /\ runGrant \in [Runs -> GrantIds \cup {0}]
  /\ effects \in [Runs -> [Ordinals -> EffectsIn(GrantIds)]]
  /\ tx = [c \in Connections |-> tx[c]] /\ \A c \in Connections : TxIn(tx[c], GrantIds)
  /\ now \in 0..MaxTime

\* A row's terms never change.
SameTerms(x, y) ==
  /\ y.tenant = x.tenant /\ y.parent = x.parent /\ y.depth = x.depth
  /\ y.authority = x.authority

LEMMA TypeInvImpliesTypeOK == TypeInv => GrantTypeOK
<1>1. EffectRows = EffectsIn(GrantIds)
  BY DEF EffectRows, EffectsIn
<1>2. ASSUME NEW t, TxIn(t, GrantIds)
      PROVE  DOMAIN t.seen \subseteq GrantIds /\ t \in Transactions(DOMAIN t.seen)
  BY <1>2 DEF TxIn, Transactions
<1> QED
  BY <1>1, <1>2 DEF TypeInv, TableOK, GrantTypeOK

LEMMA TableFacts ==
  ASSUME TableOK
  PROVE  /\ Len(grants) \in Nat /\ GrantIds = 1..Len(grants) /\ 0 \notin GrantIds
         /\ \A g \in GrantIds :
              /\ grants[g] \in GrantRows /\ grants[g].parent \in Nat /\ grants[g].depth \in Nat
              /\ grants[g].used \in Nat /\ grants[g].authority \in AuthorityType
              /\ grants[g].authority.max \in Nat
<1>1. /\ Len(grants) \in Nat /\ GrantIds = 1..Len(grants)
      /\ \A g \in GrantIds : grants[g] \in GrantRows
  BY LenProperties, ElementOfSeq DEF TableOK, GrantIds
<1> QED
  BY <1>1 DEF GrantRows, AuthorityType

(***************************************************************************)
(* What a step does to the table.                                          *)
(***************************************************************************)

Kept ==
  /\ TableOK' /\ GrantIds' = GrantIds
  /\ \A g \in GrantIds : SameTerms(grants[g], grants'[g])

Grown(row) ==
  /\ TableOK' /\ Len(grants) + 1 \notin GrantIds
  /\ GrantIds' = GrantIds \cup {Len(grants) + 1} /\ Len(grants') = Len(grants) + 1
  /\ \A g \in GrantIds : grants'[g] = grants[g]
  /\ grants'[Len(grants) + 1] = row

NewRow(t, parent, depth, a) ==
  [tenant |-> t, parent |-> parent, depth |-> depth, authority |-> a,
   used |-> 0, revoked |-> FALSE]

LEMMA TableUnchanged ==
  ASSUME TableOK, UNCHANGED grants
  PROVE  Kept
BY DEF TableOK, Kept, SameTerms, GrantIds

LEMMA TableGrows ==
  ASSUME TableOK, NEW t \in Tenants, NEW parent \in Nat, NEW depth \in Nat,
         NEW a \in AuthorityType, Insert(t, parent, depth, a), Len(grants) < MaxGrants
  PROVE  Grown(NewRow(t, parent, depth, a))
<1> DEFINE row == NewRow(t, parent, depth, a)
<1>1. row \in GrantRows /\ row.used =< row.authority.max
  BY DEF NewRow, GrantRows, AuthorityType
<1>2. grants' = Append(grants, row) /\ grants \in Seq(GrantRows)
  BY DEF Insert, NewRow, TableOK
<1>3. Len(grants) \in Nat /\ GrantIds = 1..Len(grants)
  BY TableFacts
<1> HIDE DEF row
<1>4. /\ grants' \in Seq(GrantRows) /\ Len(grants') = Len(grants) + 1
      /\ \A g \in 1..Len(grants) : grants'[g] = grants[g]
      /\ grants'[Len(grants) + 1] = row
  BY <1>1, <1>2, AppendProperties
<1>5. GrantIds' = 1..Len(grants')
  BY <1>4, LenProperties DEF GrantIds
<1>6. GrantIds' = GrantIds \cup {Len(grants) + 1} /\ Len(grants) + 1 \notin GrantIds
  BY <1>3, <1>4, <1>5
<1>7. Len(grants') =< MaxGrants
  BY <1>3, <1>4, ConstantAssumption DEF ConstantAssumption
<1>8. \A g \in GrantIds' : grants'[g].used =< grants'[g].authority.max
  BY <1>1, <1>3, <1>4, <1>6 DEF TableOK
<1> QED
  BY <1>3, <1>4, <1>6, <1>7, <1>8 DEF Grown, TableOK, row

LEMMA TableRevokes ==
  ASSUME TableOK, NEW g \in GrantIds, grants' = [grants EXCEPT ![g].revoked = TRUE]
  PROVE  /\ Kept /\ grants'[g] = [grants[g] EXCEPT !.revoked = TRUE]
         /\ \A a \in GrantIds \ {g} : grants'[a] = grants[a]
<1>1. /\ grants[g] \in GrantRows /\ GrantIds = 1..Len(grants) /\ DOMAIN grants = GrantIds
      /\ \A a \in GrantIds : grants[a] \in GrantRows
  BY TableFacts DEF GrantIds
<1>2. [grants[g] EXCEPT !.revoked = TRUE] \in GrantRows
  BY <1>1 DEF GrantRows
<1>3. grants' = [grants EXCEPT ![g] = [grants[g] EXCEPT !.revoked = TRUE]]
  OBVIOUS
<1>4. /\ grants' \in Seq(GrantRows) /\ Len(grants') = Len(grants)
      /\ \A a \in 1..Len(grants) :
           grants'[a] = IF a = g THEN [grants[g] EXCEPT !.revoked = TRUE] ELSE grants[a]
  BY <1>1, <1>2, <1>3, ExceptSeq DEF TableOK
<1>5. GrantIds' = GrantIds
  BY <1>1, <1>4, LenProperties DEF GrantIds
<1>6. \A a \in GrantIds : SameTerms(grants[a], grants'[a]) /\ grants'[a].used = grants[a].used
  BY <1>1, <1>4 DEF SameTerms, GrantRows
<1>7. TableOK'
  BY <1>4, <1>5, <1>6 DEF TableOK, SameTerms
<1> QED
  BY <1>1, <1>4, <1>5, <1>6, <1>7 DEF Kept

LEMMA TableCharges ==
  ASSUME TableOK, NEW C \in SUBSET GrantIds,
         \A g \in C : grants[g].used < grants[g].authority.max,
         grants' = [g \in GrantIds |->
                      IF g \in C THEN [grants[g] EXCEPT !.used = @ + 1] ELSE grants[g]]
  PROVE  /\ Kept
         /\ \A g \in GrantIds :
              /\ grants'[g].used = IF g \in C THEN grants[g].used + 1 ELSE grants[g].used
              /\ grants'[g].revoked = grants[g].revoked
<1>1. /\ Len(grants) \in Nat /\ GrantIds = 1..Len(grants)
      /\ \A a \in GrantIds : grants[a] \in GrantRows
  BY TableFacts
<1>2. \A g \in GrantIds :
        /\ grants'[g] \in GrantRows /\ SameTerms(grants[g], grants'[g])
        /\ grants'[g].used = IF g \in C THEN grants[g].used + 1 ELSE grants[g].used
        /\ grants'[g].revoked = grants[g].revoked
  BY <1>1 DEF GrantRows, SameTerms
<1>3. grants' \in [1..Len(grants) -> GrantRows]
  BY <1>1, <1>2
<1>4. grants' \in Seq(GrantRows)
  BY <1>1, <1>3, SeqDef
<1>5. Len(grants') = Len(grants) /\ GrantIds' = GrantIds
  BY <1>1, <1>3, <1>4, LenProperties DEF GrantIds
<1>6. \A g \in GrantIds : grants'[g].used =< grants'[g].authority.max
  BY <1>1, <1>2, TableFacts DEF TableOK, SameTerms
<1>7. TableOK'
  BY <1>4, <1>5, <1>6 DEF TableOK
<1> QED
  BY <1>2, <1>5, <1>7 DEF Kept

(***************************************************************************)
(* What a step does to the transactions.                                   *)
(***************************************************************************)

LEMMA TypesGrow ==
  ASSUME NEW ids, NEW more, ids \subseteq more
  PROVE  /\ \A t : TxIn(t, ids) => TxIn(t, more)
         /\ \A f : f \in [Runs -> [Ordinals -> EffectsIn(ids)]]
                     => f \in [Runs -> [Ordinals -> EffectsIn(more)]]
<1>1. EffectsIn(ids) \subseteq EffectsIn(more)
  BY DEF EffectsIn
<1>2. ASSUME NEW t, TxIn(t, ids) PROVE TxIn(t, more)
  BY <1>2 DEF TxIn
<1> QED
  BY <1>1, <1>2

LEMMA IdleIn ==
  \A ids : /\ TxIn(Idle, ids) /\ Idle.op = "idle" /\ DOMAIN Idle.seen = {}
           /\ Idle.asof = Unread
BY DEF TxIn, Idle, Copies

\* A transaction that has just begun.
Begun(op, g, C, authority, effect) ==
  [Idle EXCEPT !.op = op, !.leaf = g, !.todo = C, !.authority = authority,
               !.effect = effect]

LEMMA BegunFields ==
  ASSUME NEW op, NEW g, NEW C, NEW authority, NEW effect
  PROVE  /\ Begun(op, g, C, authority, effect).op = op
         /\ Begun(op, g, C, authority, effect).leaf = g
         /\ Begun(op, g, C, authority, effect).todo = C
         /\ Begun(op, g, C, authority, effect).seen = Idle.seen
         /\ Begun(op, g, C, authority, effect).authority = authority
         /\ Begun(op, g, C, authority, effect).effect = effect
         /\ Begun(op, g, C, authority, effect).asof = Unread
BY DEF Begun, Idle

LEMMA BegunIn ==
  ASSUME NEW ids, NEW C \in SUBSET ids, NEW g \in ids,
         NEW op \in {"create", "revoke", "reserve"},
         NEW authority \in Authorities \cup {None},
         NEW effect \in (Runs \X Ordinals) \cup {None},
         op = "create" => authority \in Authorities,
         op = "reserve" => effect \in Runs \X Ordinals
  PROVE  TxIn(Begun(op, g, C, authority, effect), ids)
<1> DEFINE t == Begun(op, g, C, authority, effect)
<1>1. /\ t.op = op /\ t.leaf = g /\ t.todo = C /\ t.seen = Idle.seen
      /\ t.authority = authority /\ t.effect = effect
  BY BegunFields
<1>2. DOMAIN Idle.seen = {} /\ Idle.seen \in [{} -> Copies]
  BY DEF Idle
<1>3. t \in [op : {"idle", "create", "revoke", "reserve"}, leaf : ids \cup {0},
             todo : SUBSET ids, seen : [{} -> Copies],
             authority : Authorities \cup {None}, effect : (Runs \X Ordinals) \cup {None},
             asof : Nat \cup {Unread}]
  BY DEF Idle, Begun
<1> HIDE DEF t
<1>4. TxIn(t, ids)
  BY <1>1, <1>2, <1>3 DEF TxIn
<1> QED
  BY <1>4 DEF t

LEMMA BeginShape ==
  ASSUME TypeInv, NEW c \in Connections, NEW op \in {"create", "revoke", "reserve"},
         NEW g \in GrantIds,
         NEW authority \in Authorities \cup {None},
         NEW effect \in (Runs \X Ordinals) \cup {None},
         op = "create" => authority \in Authorities,
         op = "reserve" => effect \in Runs \X Ordinals,
         BeginTx(c, op, g, authority, effect)
  PROVE  /\ tx[c] = Idle
         /\ tx' = [d \in Connections |-> tx'[d]]
         /\ tx'[c].op = op /\ tx'[c].leaf = g /\ tx'[c].todo = Chain(g)
         /\ DOMAIN tx'[c].seen = {}
         /\ tx'[c].authority = authority /\ tx'[c].effect = effect /\ tx'[c].asof = Unread
         /\ TxIn(tx'[c], GrantIds)
         /\ \A d \in Connections \ {c} : tx'[d] = tx[d]
         /\ UNCHANGED <<grants, runGrant, effects, now>>
<1>1. tx = [d \in Connections |-> tx[d]]
  BY DEF TypeInv
<1>2. Chain(g) \in SUBSET GrantIds
  BY DEF Chain
<1> DEFINE t == Begun(op, g, Chain(g), authority, effect)
<1>3. /\ t.op = op /\ t.leaf = g /\ t.todo = Chain(g) /\ DOMAIN t.seen = {}
      /\ t.authority = authority /\ t.effect = effect /\ t.asof = Unread
  BY BegunFields, IdleIn
<1>5. TxIn(t, GrantIds)
  BY <1>2, BegunIn
<1>4. tx[c] = Idle /\ tx' = [tx EXCEPT ![c] = t] /\ UNCHANGED <<grants, runGrant, effects, now>>
  BY DEF BeginTx, Begun
<1> HIDE DEF t
<1> QED
  BY <1>1, <1>3, <1>4, <1>5

LEMMA EndShape ==
  ASSUME TypeInv, NEW c \in Connections, tx' = [tx EXCEPT ![c] = Idle]
  PROVE  /\ tx' = [d \in Connections |-> tx'[d]] /\ tx'[c] = Idle
         /\ \A d \in Connections \ {c} : tx'[d] = tx[d]
BY DEF TypeInv

LEMMA LockShape ==
  ASSUME TypeInv, NEW c \in Connections, LockRow(c)
  PROVE  \E g \in tx[c].todo :
           /\ g \in GrantIds /\ RowFree(g) /\ tx[c].op # "idle"
           /\ tx' = [d \in Connections |-> tx'[d]]
           /\ \A d \in Connections \ {c} : tx'[d] = tx[d]
           /\ tx'[c].op = tx[c].op /\ tx'[c].leaf = tx[c].leaf
           /\ tx'[c].authority = tx[c].authority /\ tx'[c].effect = tx[c].effect
           /\ tx'[c].asof = tx[c].asof
           /\ tx'[c].todo = tx[c].todo \ {g}
           /\ DOMAIN tx'[c].seen = DOMAIN tx[c].seen \cup {g}
           /\ tx'[c].seen[g] = [used |-> grants[g].used, revoked |-> grants[g].revoked]
           /\ \A a \in DOMAIN tx[c].seen \ {g} : tx'[c].seen[a] = tx[c].seen[a]
           /\ TxIn(tx'[c], GrantIds)
<1>1. PICK g \in tx[c].todo :
        /\ RowFree(g)
        /\ tx' = [tx EXCEPT
             ![c].todo = @ \ {g},
             ![c].seen = [a \in DOMAIN @ \cup {g} |->
                            IF a = g THEN [used |-> grants[g].used,
                                           revoked |-> grants[g].revoked]
                            ELSE @[a]]]
  BY DEF LockRow
<1>2. tx = [d \in Connections |-> tx[d]] /\ TxIn(tx[c], GrantIds)
  BY DEF TypeInv
<1>3. g \in GrantIds /\ tx[c].op # "idle"
  BY <1>2 DEF TxIn, Idle
<1> DEFINE copy == [used |-> grants[g].used, revoked |-> grants[g].revoked]
           seen == [a \in DOMAIN tx[c].seen \cup {g} |->
                      IF a = g THEN copy ELSE tx[c].seen[a]]
           u == [tx[c] EXCEPT !.todo = tx[c].todo \ {g}, !.seen = seen]
<1>4. tx' = [tx EXCEPT ![c] = u]
  BY <1>1, <1>2
<1>5. copy \in Copies
  BY <1>3, TableFacts DEF TypeInv, GrantRows, Copies
<1>6. seen \in [DOMAIN seen -> Copies] /\ DOMAIN seen \subseteq GrantIds
  BY <1>2, <1>3, <1>5 DEF TxIn
<1>7. /\ TxIn(u, GrantIds)
      /\ u.op = tx[c].op /\ u.leaf = tx[c].leaf /\ u.todo = tx[c].todo \ {g}
      /\ u.seen = seen /\ u.authority = tx[c].authority /\ u.effect = tx[c].effect
      /\ u.asof = tx[c].asof
  <2> HIDE DEF seen
  <2> QED
    BY <1>2, <1>3, <1>6 DEF TxIn
<1>8. tx'[c] = u /\ tx' = [d \in Connections |-> tx'[d]]
      /\ \A d \in Connections \ {c} : tx'[d] = tx[d]
  <2> HIDE DEF u
  <2> QED
    BY <1>2, <1>4
<1>9. /\ DOMAIN seen = DOMAIN tx[c].seen \cup {g} /\ seen[g] = copy
      /\ \A a \in DOMAIN tx[c].seen \ {g} : seen[a] = tx[c].seen[a]
  OBVIOUS
<1> HIDE DEF u, seen
<1> WITNESS g \in tx[c].todo
<1> QED
  BY <1>1, <1>3, <1>7, <1>8, <1>9

\* Two records of a transaction that differ at most in the time it has read.
Alike(t, u) ==
  /\ u.op = t.op /\ u.leaf = t.leaf /\ u.todo = t.todo /\ u.seen = t.seen
  /\ u.authority = t.authority /\ u.effect = t.effect

LEMMA ClockShape ==
  ASSUME TypeInv, NEW c \in Connections, ReadClock(c)
  PROVE  /\ tx' = [d \in Connections |-> tx'[d]]
         /\ \A d \in Connections \ {c} : tx'[d] = tx[d]
         /\ Alike(tx[c], tx'[c]) /\ tx'[c].asof = now
         /\ TxIn(tx'[c], GrantIds)
<1> DEFINE u == [tx[c] EXCEPT !.asof = now]
<1>1. tx = [d \in Connections |-> tx[d]] /\ TxIn(tx[c], GrantIds) /\ now \in Nat
  BY ConstantAssumption DEF TypeInv, ConstantAssumption
<1>2. tx' = [tx EXCEPT ![c] = u] /\ tx[c].op # "idle"
  BY <1>1 DEF ReadClock
<1>3. Alike(tx[c], u) /\ u.asof = now /\ TxIn(u, GrantIds)
  BY <1>1, <1>2 DEF Alike, TxIn
<1> HIDE DEF u
<1> QED
  BY <1>1, <1>2, <1>3

(***************************************************************************)
(* The commits.                                                            *)
(***************************************************************************)

LEMMA FiniteIds ==
  ASSUME TableOK, NEW C \in SUBSET GrantIds
  PROVE  IsFiniteSet(C) /\ Cardinality(C) \in Nat
<1>1. IsFiniteSet(GrantIds)
  BY TableFacts, FS_Interval
<1> QED
  BY <1>1, FS_Subset, FS_CardinalityType

LEMMA CreateShape ==
  ASSUME TypeInv, NEW c \in Connections, CommitCreate(c)
  PROVE  /\ tx[c].leaf \in GrantIds /\ tx[c].authority \in Authorities
         /\ Cardinality(DOMAIN tx[c].seen) \in Nat
         /\ Grown(NewRow(grants[tx[c].leaf].tenant, tx[c].leaf,
                         Cardinality(DOMAIN tx[c].seen), tx[c].authority))
         /\ tx' = [d \in Connections |-> tx'[d]] /\ tx'[c] = Idle
         /\ \A d \in Connections \ {c} : tx'[d] = tx[d]
         /\ UNCHANGED <<runGrant, effects, now>>
<1>1. TxIn(tx[c], GrantIds) /\ TableOK
  BY DEF TypeInv
<1>2. /\ tx[c].leaf \in GrantIds /\ tx[c].authority \in Authorities
      /\ DOMAIN tx[c].seen \subseteq GrantIds
  BY <1>1 DEF CommitCreate, TxIn
<1>3. /\ grants[tx[c].leaf].tenant \in Tenants /\ tx[c].leaf \in Nat
      /\ tx[c].authority \in AuthorityType
  BY <1>1, <1>2, TableFacts, ConstantAssumption DEF GrantRows, ConstantAssumption
<1>4. Cardinality(DOMAIN tx[c].seen) \in Nat
  BY <1>1, <1>2, FiniteIds
<1>5. Grown(NewRow(grants[tx[c].leaf].tenant, tx[c].leaf,
                   Cardinality(DOMAIN tx[c].seen), tx[c].authority))
  BY <1>1, <1>3, <1>4, TableGrows DEF CommitCreate
<1> QED
  BY <1>2, <1>4, <1>5, EndShape DEF CommitCreate

LEMMA RootShape ==
  ASSUME TypeInv, NEW t \in Tenants, NEW a \in Authorities, CreateRoot(t, a)
  PROVE  Grown(NewRow(t, 0, 0, a)) /\ UNCHANGED <<runGrant, effects, tx, now>>
<1>1. a \in AuthorityType
  BY ConstantAssumption DEF ConstantAssumption
<1> QED
  BY <1>1, TableGrows DEF CreateRoot, TypeInv

LEMMA RevokeShape ==
  ASSUME TypeInv, NEW c \in Connections, CommitRevoke(c)
  PROVE  /\ tx[c].leaf \in GrantIds
         /\ Kept /\ grants'[tx[c].leaf] = [grants[tx[c].leaf] EXCEPT !.revoked = TRUE]
         /\ \A a \in GrantIds \ {tx[c].leaf} : grants'[a] = grants[a]
         /\ tx' = [d \in Connections |-> tx'[d]] /\ tx'[c] = Idle
         /\ \A d \in Connections \ {c} : tx'[d] = tx[d]
         /\ UNCHANGED <<runGrant, effects, now>>
<1>1. TxIn(tx[c], GrantIds) /\ TableOK
  BY DEF TypeInv
<1>2. tx[c].leaf \in GrantIds
  BY <1>1 DEF CommitRevoke, TxIn
<1> QED
  BY <1>1, <1>2, TableRevokes, EndShape DEF CommitRevoke

\* What a reservation does, for effect o of run r and the chain C.
Reserved(r, o, C) ==
  /\ r \in Runs /\ o \in Ordinals /\ C \subseteq GrantIds
  /\ effects[r][o].reserved = {} /\ ~effects[r][o].charged
  /\ effects[r][o].state = "PREPARED"
  /\ effects' = [effects EXCEPT ![r][o] =
                   [effects[r][o] EXCEPT !.charged = TRUE, !.reserved = C]]
  /\ Kept
  /\ \A g \in GrantIds :
       /\ grants'[g].used = IF g \in C THEN grants[g].used + 1 ELSE grants[g].used
       /\ grants'[g].revoked = grants[g].revoked

LEMMA ReserveShape ==
  ASSUME TypeInv, NEW c \in Connections, CommitReserve(c)
  PROVE  /\ tx[c].effect \in Runs \X Ordinals
         /\ Reserved(tx[c].effect[1], tx[c].effect[2], DOMAIN tx[c].seen)
         /\ tx' = [d \in Connections |-> tx'[d]] /\ tx'[c] = Idle
         /\ \A d \in Connections \ {c} : tx'[d] = tx[d]
         /\ UNCHANGED <<runGrant, now>>
<1>1. TxIn(tx[c], GrantIds) /\ TableOK
  BY DEF TypeInv
<1>2. /\ tx[c].effect \in Runs \X Ordinals
      /\ tx[c].effect[1] \in Runs /\ tx[c].effect[2] \in Ordinals
      /\ DOMAIN tx[c].seen \in SUBSET GrantIds
  BY <1>1 DEF CommitReserve, TxIn
<1>3. \A g \in DOMAIN tx[c].seen : grants[g].used < grants[g].authority.max
  BY DEF CommitReserve, Plan
<1>4. grants' = [g \in GrantIds |->
                   IF g \in DOMAIN tx[c].seen THEN [grants[g] EXCEPT !.used = @ + 1]
                   ELSE grants[g]]
  BY DEF CommitReserve, Charged
<1>5. /\ Kept
      /\ \A g \in GrantIds :
           /\ grants'[g].used = IF g \in DOMAIN tx[c].seen THEN grants[g].used + 1
                                ELSE grants[g].used
           /\ grants'[g].revoked = grants[g].revoked
  BY <1>1, <1>2, <1>3, <1>4, TableCharges
<1>6. /\ EffectOf(c).reserved = {} /\ ~EffectOf(c).charged /\ EffectOf(c).state = "PREPARED"
      /\ effects' = [effects EXCEPT ![tx[c].effect[1]][tx[c].effect[2]] =
                       [EffectOf(c) EXCEPT !.charged = TRUE, !.reserved = DOMAIN tx[c].seen]]
      /\ UNCHANGED <<runGrant, now>> /\ tx' = [tx EXCEPT ![c] = Idle]
  BY DEF CommitReserve
<1>7. Reserved(tx[c].effect[1], tx[c].effect[2], DOMAIN tx[c].seen)
  BY <1>2, <1>5, <1>6 DEF Reserved, EffectOf
<1> QED
  BY <1>2, <1>6, <1>7, EndShape

\* A row of effects is written.
LEMMA EffectWritten ==
  ASSUME NEW ids, NEW f \in [Runs -> [Ordinals -> EffectsIn(ids)]], NEW r \in Runs,
         NEW o \in Ordinals, NEW e \in EffectsIn(ids)
  PROVE  /\ [f EXCEPT ![r][o] = e] \in [Runs -> [Ordinals -> EffectsIn(ids)]]
         /\ [f EXCEPT ![r][o] = e][r][o] = e
         /\ \A q \in Runs, p \in Ordinals :
              <<q, p>> # <<r, o>> => [f EXCEPT ![r][o] = e][q][p] = f[q][p]
OBVIOUS

(***************************************************************************)
(* Types.                                                                  *)
(***************************************************************************)

\* A step that keeps the transactions and the effects, in a table that may grow.
LEMMA TypeKept ==
  ASSUME TypeInv, TableOK', GrantIds \subseteq GrantIds', UNCHANGED <<runGrant, effects, now>>,
         tx' = [c \in Connections |-> tx'[c]],
         \A c \in Connections : tx'[c] = tx[c] \/ TxIn(tx'[c], GrantIds')
  PROVE  TypeInv'
<1>1. \A c \in Connections : TxIn(tx'[c], GrantIds')
  BY TypesGrow DEF TypeInv
<1>2. effects' \in [Runs -> [Ordinals -> EffectsIn(GrantIds')]]
  BY TypesGrow DEF TypeInv
<1>3. runGrant' \in [Runs -> GrantIds' \cup {0}]
  BY DEF TypeInv
<1> QED
  BY <1>1, <1>2, <1>3 DEF TypeInv

\* A step that writes one row of effects.
LEMMA TypeWritten ==
  ASSUME TypeInv, TableOK', GrantIds' = GrantIds, UNCHANGED <<runGrant, now>>,
         NEW r \in Runs, NEW o \in Ordinals, NEW e \in EffectsIn(GrantIds),
         effects' = [effects EXCEPT ![r][o] = e],
         tx' = [c \in Connections |-> tx'[c]],
         \A c \in Connections : tx'[c] = tx[c] \/ tx'[c] = Idle
  PROVE  TypeInv'
<1>1. \A c \in Connections : TxIn(tx'[c], GrantIds)
  BY IdleIn DEF TypeInv
<1>2. effects' \in [Runs -> [Ordinals -> EffectsIn(GrantIds)]]
  BY EffectWritten DEF TypeInv
<1> QED
  BY <1>1, <1>2 DEF TypeInv

LEMMA TypeStep ==
  ASSUME TypeInv, [Next]_vars
  PROVE  TypeInv'
<1>1. TableOK /\ tx = [c \in Connections |-> tx[c]]
  BY DEF TypeInv
<1>2. UNCHANGED grants => TableOK' /\ GrantIds' = GrantIds
  BY <1>1, TableUnchanged DEF Kept
<1>3. ASSUME NEW row, Grown(row) PROVE TableOK' /\ GrantIds \subseteq GrantIds'
  BY <1>3 DEF Grown
<1>4. ASSUME NEW t \in Tenants, NEW a \in Authorities, CreateRoot(t, a) PROVE TypeInv'
  BY <1>1, <1>3, <1>4, RootShape, TypeKept
<1>5. ASSUME NEW c \in Connections, NEW op \in {"create", "revoke", "reserve"},
             NEW g \in GrantIds, NEW authority \in Authorities \cup {None},
             NEW effect \in (Runs \X Ordinals) \cup {None},
             op = "create" => authority \in Authorities,
             op = "reserve" => effect \in Runs \X Ordinals,
             BeginTx(c, op, g, authority, effect)
      PROVE  TypeInv'
  <2>1. /\ tx' = [d \in Connections |-> tx'[d]] /\ TxIn(tx'[c], GrantIds)
        /\ \A d \in Connections \ {c} : tx'[d] = tx[d]
        /\ UNCHANGED <<grants, runGrant, effects, now>>
    BY <1>5, BeginShape
  <2> QED
    BY <1>2, <2>1, TypeKept
<1>6. ASSUME NEW c \in Connections, NEW g \in GrantIds, BeginRevoke(c, g) PROVE TypeInv'
  BY <1>5, <1>6 DEF BeginRevoke
<1>7. ASSUME NEW c \in Connections, NEW g \in GrantIds, NEW a \in Authorities,
             BeginCreateChild(c, g, a)
      PROVE  TypeInv'
  BY <1>5, <1>7 DEF BeginCreateChild
<1>8. ASSUME NEW c \in Connections, NEW r \in Runs, NEW o \in Ordinals, BeginReserve(c, r, o)
      PROVE  TypeInv'
  <2>1. runGrant[r] \in GrantIds /\ <<r, o>> \in Runs \X Ordinals
    BY <1>8 DEF TypeInv, BeginReserve
  <2> QED
    BY <1>5, <1>8, <2>1 DEF BeginReserve
<1>9. ASSUME NEW c \in Connections, LockRow(c) PROVE TypeInv'
  <2>1. UNCHANGED <<grants, runGrant, effects, now>>
    BY <1>9 DEF LockRow
  <2>2. /\ tx' = [d \in Connections |-> tx'[d]] /\ TxIn(tx'[c], GrantIds)
        /\ \A d \in Connections \ {c} : tx'[d] = tx[d]
    BY <1>9, LockShape
  <2> QED
    BY <1>2, <2>1, <2>2, TypeKept
<1>19. ASSUME NEW c \in Connections, ReadClock(c) PROVE TypeInv'
  <2>1. UNCHANGED <<grants, runGrant, effects, now>>
    BY <1>19 DEF ReadClock
  <2>2. /\ tx' = [d \in Connections |-> tx'[d]] /\ TxIn(tx'[c], GrantIds)
        /\ \A d \in Connections \ {c} : tx'[d] = tx[d]
    BY <1>19, ClockShape
  <2> QED
    BY <1>2, <2>1, <2>2, TypeKept
<1>10. ASSUME NEW c \in Connections, CommitCreate(c) PROVE TypeInv'
  <2>1. /\ tx' = [d \in Connections |-> tx'[d]] /\ tx'[c] = Idle
        /\ \A d \in Connections \ {c} : tx'[d] = tx[d]
        /\ UNCHANGED <<runGrant, effects, now>>
        /\ TableOK' /\ GrantIds \subseteq GrantIds'
    BY <1>3, <1>10, CreateShape
  <2> QED
    BY <2>1, IdleIn, TypeKept
<1>11. ASSUME NEW c \in Connections, CommitRevoke(c) PROVE TypeInv'
  <2>1. /\ tx' = [d \in Connections |-> tx'[d]] /\ tx'[c] = Idle
        /\ \A d \in Connections \ {c} : tx'[d] = tx[d]
        /\ UNCHANGED <<runGrant, effects, now>> /\ Kept
    BY <1>11, RevokeShape
  <2> QED
    BY <2>1, IdleIn, TypeKept DEF Kept
<1>12. ASSUME NEW c \in Connections, CommitReserve(c) PROVE TypeInv'
  <2> DEFINE r == tx[c].effect[1]
             o == tx[c].effect[2]
  <2>1. /\ tx' = [d \in Connections |-> tx'[d]] /\ tx'[c] = Idle
        /\ \A d \in Connections \ {c} : tx'[d] = tx[d]
        /\ UNCHANGED <<runGrant, now>> /\ Reserved(r, o, DOMAIN tx[c].seen)
    BY <1>12, ReserveShape
  <2> HIDE DEF r, o
  <2>2. [effects[r][o] EXCEPT !.charged = TRUE, !.reserved = DOMAIN tx[c].seen]
          \in EffectsIn(GrantIds)
    <3>1. effects[r][o] \in EffectsIn(GrantIds) /\ DOMAIN tx[c].seen \subseteq GrantIds
      BY <2>1 DEF Reserved, TypeInv
    <3> QED
      BY <3>1 DEF EffectsIn
  <2> QED
    BY <2>1, <2>2, TypeWritten DEF Reserved, Kept
<1>13. ASSUME NEW c \in Connections, Rollback(c) PROVE TypeInv'
  <2>1. /\ tx' = [d \in Connections |-> tx'[d]] /\ tx'[c] = Idle
        /\ \A d \in Connections \ {c} : tx'[d] = tx[d]
        /\ UNCHANGED <<grants, runGrant, effects, now>>
    BY <1>13, EndShape DEF Rollback
  <2> QED
    BY <1>2, <2>1, IdleIn, TypeKept
<1>14. ASSUME NEW r \in Runs, NEW g \in GrantIds, AdmitRun(r, g) PROVE TypeInv'
  BY <1>2, <1>14 DEF AdmitRun, TypeInv
<1>15. ASSUME NEW r \in Runs, NEW o \in Ordinals, NEW d \in Destinations, NEW p \in Projects,
              BrokerPrepare(r, o, d, p)
       PROVE  TypeInv'
  <2>1. [NoEffect EXCEPT !.state = "PREPARED", !.destination = d, !.project = p]
          \in EffectsIn(GrantIds)
    BY DEF NoEffect, EffectsIn, EffectStates
  <2> QED
    BY <1>1, <1>2, <1>15, <2>1, TypeWritten DEF BrokerPrepare
<1>16. ASSUME NEW r \in Runs, NEW o \in Ordinals, BrokerDispatch(r, o) PROVE TypeInv'
  <2>1. [effects[r][o] EXCEPT !.state = "DISPATCHING"] \in EffectsIn(GrantIds)
    <3>1. effects[r][o] \in EffectsIn(GrantIds)
      BY DEF TypeInv
    <3> QED
      BY <3>1 DEF EffectsIn, EffectStates
  <2>2. effects' = [effects EXCEPT ![r][o] = [effects[r][o] EXCEPT !.state = "DISPATCHING"]]
    BY <1>16 DEF BrokerDispatch, TypeInv
  <2> QED
    BY <1>1, <1>2, <1>16, <2>1, <2>2, TypeWritten DEF BrokerDispatch
<1>17. CASE Tick
  BY <1>2, <1>17, ConstantAssumption DEF Tick, TypeInv, ConstantAssumption
<1>18. CASE UNCHANGED vars
  BY <1>1, <1>2, <1>18, TypeKept DEF vars
<1> QED
  BY <1>4, <1>6, <1>7, <1>8, <1>9, <1>10, <1>11, <1>12, <1>13, <1>14, <1>15, <1>16, <1>17,
     <1>18, <1>19 DEF Next, Owner, Transaction, Broker

LEMMA TypeInit == Init => TypeInv
<1> SUFFICES ASSUME Init PROVE TypeInv
  OBVIOUS
<1>1. TableOK /\ GrantIds = {}
  BY ConstantAssumption DEF Init, TableOK, GrantIds, ConstantAssumption
<1>2. NoEffect \in EffectsIn({})
  BY DEF NoEffect, EffectsIn
<1>3. \A c \in Connections : TxIn(tx[c], {})
  BY IdleIn DEF Init
<1> QED
  BY <1>1, <1>2, <1>3, ConstantAssumption DEF Init, TypeInv, ConstantAssumption

\* Every column keeps its type and the schema's CHECK on used and max_effects
\* never fails, however create_grant, revoke_grant and reserve_grant_chain
\* interleave.
THEOREM GrantsTyped == Spec => []GrantTypeOK
<1>1. TypeInv /\ [Next]_vars => TypeInv'
  BY TypeStep
<1>2. Spec => []TypeInv
  BY <1>1, TypeInit, PTL DEF Spec
<1> QED
  BY <1>2, TypeInvImpliesTypeOK, PTL

(***************************************************************************)
(* Chains of the table.                                                    *)
(***************************************************************************)

\* The chain C of grant g, in the table G: it goes up to depth 0 without a gap,
\* within one tenant and within the limit, and g has no more authority than any
\* other of it.
RowChain(G, C, g) ==
  /\ Cardinality(C) = G[g].depth + 1 /\ Cardinality(C) =< ChainLimit
  /\ \A a, b \in C : G[a].depth = G[b].depth => a = b
  /\ \A a \in C :
       /\ G[a].depth =< G[g].depth /\ G[a].tenant = G[g].tenant
       /\ G[a].used =< G[a].authority.max
       /\ IF G[a].parent = 0 THEN G[a].depth = 0
          ELSE /\ G[a].parent \in C /\ G[a].depth = G[G[a].parent].depth + 1
               /\ Attenuates(G[a].authority, G[G[a].parent].authority)
       /\ Attenuates(G[g].authority, G[a].authority)
  /\ Permits(G[g].authority)

ForestInv == \A g \in GrantIds : grants[g].parent \in GrantIds \cup {0}

ChainInv == ForestInv /\ \A g \in GrantIds : RowChain(grants, Chain(g), g)

LEMMA ChainInvImplies ==
  ASSUME TypeInv, ChainInv
  PROVE  ChainsLoad /\ NoEscalation
<1>1. ASSUME NEW g \in GrantIds PROVE StructureOK(Chain(g))
  <2>1. RowChain(grants, Chain(g), g) /\ grants[g].depth \in Nat
    BY TableFacts DEF ChainInv, TypeInv
  <2>2. Cardinality(Chain(g)) \in 1..ChainLimit
    BY <2>1, ConstantAssumption DEF RowChain, ConstantAssumption
  <2> QED
    BY <2>1, <2>2 DEF RowChain, StructureOK
<1>2. NoEscalation
  BY DEF ChainInv, RowChain, NoEscalation, Attenuates
<1> QED
  BY <1>1, <1>2 DEF ChainsLoad

LEMMA ChainFacts ==
  ASSUME ForestInv, NEW g \in GrantIds
  PROVE  /\ g \in Chain(g) /\ Chain(g) \subseteq GrantIds
         /\ \A a \in Chain(g) : Chain(a) \subseteq Chain(g)
<1>1. Forest(Parents) /\ DOMAIN Parents = GrantIds
  BY DEF ForestInv, Forest, Parents
<1> QED
  BY <1>1, ChainClosed, ChainOfAncestor, ChainOfTable

\* Charging and revoking change no chain.
LEMMA ChainsKept ==
  ASSUME Kept
  PROVE  \A g : Chain(g)' = Chain(g)
<1>1. Parents' = Parents
  BY DEF Parents, Kept, SameTerms
<1> QED
  BY <1>1, ChainOfTable

\* A new grant is nobody's ancestor.
LEMMA ChainsGrow ==
  ASSUME TableOK, ForestInv, NEW row, Grown(row), row.parent \in GrantIds \cup {0},
         NEW n, n = Len(grants) + 1
  PROVE  /\ \A g \in GrantIds : Chain(g)' = Chain(g)
         /\ Chain(n)' = IF row.parent = 0 THEN {n} ELSE {n} \cup Chain(row.parent)
<1>1. Forest(Parents) /\ DOMAIN Parents = GrantIds /\ 0 \notin GrantIds
  BY TableFacts DEF ForestInv, Forest, Parents
<1>2. Extends(Parents', Parents, n) /\ Parents'[n] = row.parent
  BY DEF Extends, Parents, Grown
<1>3. \A g \in GrantIds : ChainIn(Parents', g) = ChainIn(Parents, g)
  BY <1>1, <1>2, OldChain
<1>4. /\ row.parent = 0 => ChainIn(Parents', n) = {n}
      /\ row.parent # 0 => ChainIn(Parents', n) = {n} \cup ChainIn(Parents, row.parent)
  <2>1. Parents'[n] \in DOMAIN Parents \cup {0} /\ 0 \notin DOMAIN Parents
    BY <1>1, <1>2
  <2>2. /\ Parents'[n] = 0 => ChainIn(Parents', n) = {n}
        /\ Parents'[n] # 0 => ChainIn(Parents', n) = {n} \cup ChainIn(Parents, Parents'[n])
    BY <1>1, <1>2, <2>1, NewChain
  <2> QED
    BY <1>2, <2>2
<1> QED
  BY <1>3, <1>4, ChainOfTable

LEMMA RowChainKept ==
  ASSUME NEW G, NEW H, NEW C, NEW g \in C, RowChain(G, C, g),
         \A a \in C : SameTerms(G[a], H[a]) /\ H[a].used =< H[a].authority.max
  PROVE  RowChain(H, C, g)
BY DEF RowChain, SameTerms

LEMMA ChainInvKept ==
  ASSUME TypeInv, ChainInv, Kept
  PROVE  ChainInv'
<1>1. ForestInv'
  BY DEF ChainInv, ForestInv, Kept, SameTerms
<1>2. ASSUME NEW g \in GrantIds' PROVE RowChain(grants', Chain(g)', g)
  <2>1. g \in GrantIds /\ Chain(g)' = Chain(g)
    BY ChainsKept DEF Kept
  <2>2. g \in Chain(g) /\ Chain(g) \subseteq GrantIds
    BY <2>1, ChainFacts DEF ChainInv
  <2>3. \A a \in Chain(g) :
          SameTerms(grants[a], grants'[a]) /\ grants'[a].used =< grants'[a].authority.max
    BY <2>2 DEF Kept, TableOK
  <2>4. RowChain(grants, Chain(g), g)
    BY <2>1 DEF ChainInv
  <2>5. RowChain(grants', Chain(g), g)
    BY <2>2, <2>3, <2>4, RowChainKept
  <2> QED
    BY <2>1, <2>5
<1> QED
  BY <1>1, <1>2 DEF ChainInv

\* What the new row must be for the chain it closes.
LEMMA ChainInvGrown ==
  ASSUME TypeInv, ChainInv, NEW row, Grown(row), row.parent \in GrantIds \cup {0},
         row \in GrantRows, row.used = 0, Permits(row.authority),
         row.parent = 0 => row.depth = 0,
         row.parent # 0 =>
           /\ row.depth = Cardinality(Chain(row.parent)) /\ row.depth < ChainLimit
           /\ row.tenant = grants[row.parent].tenant
           /\ \A a \in Chain(row.parent) : Attenuates(row.authority, grants[a].authority)
  PROVE  ChainInv'
<1>0. PICK n : n = Len(grants) + 1
  OBVIOUS
<1>1. /\ TableOK' /\ n \notin GrantIds /\ GrantIds' = GrantIds \cup {n}
      /\ \A g \in GrantIds : grants'[g] = grants[g]
      /\ grants'[n] = row
  BY <1>0 DEF Grown
<1>2. ForestInv'
  BY <1>1 DEF ChainInv, ForestInv
<1>3. TableOK /\ ForestInv
  BY DEF TypeInv, ChainInv
<1>4. /\ \A g \in GrantIds : Chain(g)' = Chain(g)
      /\ Chain(n)' = IF row.parent = 0 THEN {n} ELSE {n} \cup Chain(row.parent)
  BY <1>0, <1>3, ChainsGrow
<1>5. ASSUME NEW g \in GrantIds PROVE RowChain(grants', Chain(g)', g)
  <2>1. g \in Chain(g) /\ Chain(g) \subseteq GrantIds
    BY <1>3, ChainFacts
  <2>2. RowChain(grants, Chain(g), g)
    BY DEF ChainInv
  <2>3. \A a \in Chain(g) :
          SameTerms(grants[a], grants'[a]) /\ grants'[a].used =< grants'[a].authority.max
    BY <1>1, <2>1 DEF SameTerms, TableOK
  <2>4. RowChain(grants', Chain(g), g)
    BY <2>1, <2>2, <2>3, RowChainKept
  <2> QED
    BY <1>4, <2>4
<1>6. /\ row.depth \in Nat /\ row.authority \in AuthorityType
      /\ row.authority.max \in Nat /\ row.authority.expires \in Int
      /\ Attenuates(row.authority, row.authority)
  BY DEF GrantRows, AuthorityType, Attenuates
<1>7. RowChain(grants', Chain(n)', n)
  <2>1. CASE row.parent = 0
    <3>1. Cardinality({n}) = 1
      BY FS_Singleton
    <3>2. ChainLimit \in Nat /\ 1 =< ChainLimit
      BY ConstantAssumption DEF ConstantAssumption
    <3>3. RowChain(grants', {n}, n)
      BY <1>1, <1>6, <2>1, <3>1, <3>2 DEF RowChain
    <3> QED
      BY <1>4, <2>1, <3>3
  <2>2. CASE row.parent # 0
    <3> DEFINE p == row.parent
               C == Chain(p)
    <3>1. p \in GrantIds /\ p \in C /\ C \subseteq GrantIds /\ n \notin C
      BY <1>1, <1>3, <2>2, ChainFacts
    <3>2. RowChain(grants, C, p)
      BY <3>1 DEF ChainInv
    <3>3. IsFiniteSet(C)
      BY <1>3, <3>1, FiniteIds
    <3>4. Cardinality(C \cup {n}) = Cardinality(C) + 1
      BY <3>1, <3>3, FS_AddElement
    <3>5. \A a \in C : grants'[a] = grants[a] /\ grants[a].depth \in Nat
      BY <1>1, <1>3, <3>1, TableFacts
    <3>6. row.depth = Cardinality(C) /\ row.depth < ChainLimit /\ row.tenant = grants[p].tenant
          /\ \A a \in C : Attenuates(row.authority, grants[a].authority)
      BY <2>2
    <3>7. row.depth = grants[p].depth + 1 /\ \A a \in C : grants[a].depth < row.depth
      BY <3>1, <3>2, <3>5, <3>6 DEF RowChain
    <3>8. ChainLimit \in Nat /\ row.used =< row.authority.max /\ p # 0 /\ row.parent = p
      BY <1>6, <2>2, ConstantAssumption DEF ConstantAssumption
    <3> HIDE DEF p, C
    <3>9. RowChain(grants', C \cup {n}, n)
      <4>1. /\ Cardinality(C \cup {n}) = grants'[n].depth + 1
            /\ Cardinality(C \cup {n}) =< ChainLimit
        BY <1>1, <1>6, <3>4, <3>6, <3>8
      <4>2. \A a, b \in C \cup {n} : grants'[a].depth = grants'[b].depth => a = b
        BY <1>1, <1>6, <3>2, <3>5, <3>7 DEF RowChain
      <4>3. ASSUME NEW a \in C
            PROVE  /\ grants'[a].depth =< grants'[n].depth
                   /\ grants'[a].tenant = grants'[n].tenant
                   /\ grants'[a].used =< grants'[a].authority.max
                   /\ IF grants'[a].parent = 0 THEN grants'[a].depth = 0
                      ELSE /\ grants'[a].parent \in C \cup {n}
                           /\ grants'[a].depth = grants'[grants'[a].parent].depth + 1
                           /\ Attenuates(grants'[a].authority,
                                         grants'[grants'[a].parent].authority)
                   /\ Attenuates(grants'[n].authority, grants'[a].authority)
        BY <1>1, <1>6, <3>2, <3>5, <3>6, <3>7 DEF RowChain
      <4>4. /\ grants'[n].depth =< grants'[n].depth
            /\ grants'[n].used =< grants'[n].authority.max
            /\ grants'[n].parent = p /\ p # 0 /\ p \in C \cup {n}
            /\ grants'[n].depth = grants'[p].depth + 1
            /\ Attenuates(grants'[n].authority, grants'[p].authority)
            /\ Attenuates(grants'[n].authority, grants'[n].authority)
        BY <1>1, <1>6, <3>1, <3>5, <3>6, <3>7, <3>8
      <4>5. Permits(grants'[n].authority)
        BY <1>1
      <4> QED
        BY <4>1, <4>2, <4>3, <4>4, <4>5 DEF RowChain
    <3> QED
      BY <1>4, <2>2, <3>9 DEF p, C
  <2> QED
    BY <2>1, <2>2
<1> QED
  BY <1>1, <1>2, <1>5, <1>7 DEF ChainInv

(***************************************************************************)
(* Transactions and what they have locked.                                 *)
(***************************************************************************)

\* What a transaction has locked and has still to lock is its grant's chain;
\* its request is one that may be stored.
TxChains ==
  \A c \in Connections :
    /\ tx[c].op # "idle" => tx[c].todo \cup DOMAIN tx[c].seen = Chain(tx[c].leaf)
    /\ tx[c].op = "create" => Permits(tx[c].authority)
    /\ tx[c].op = "reserve" => tx[c].leaf = runGrant[tx[c].effect[1]]

\* A row is locked by one transaction, whose copy of it is true.
LocksInv ==
  /\ \A c, d \in Connections : c # d => DOMAIN tx[c].seen \cap DOMAIN tx[d].seen = {}
  /\ \A c \in Connections : \A a \in DOMAIN tx[c].seen :
       tx[c].seen[a].used = grants[a].used /\ tx[c].seen[a].revoked = grants[a].revoked

\* The chain that was locked is the whole chain.
LEMMA LoadedChain ==
  ASSUME TypeInv, TxChains, NEW c \in Connections, Loaded(c)
  PROVE  tx[c].leaf \in GrantIds /\ DOMAIN tx[c].seen = Chain(tx[c].leaf)
BY DEF TypeInv, TxIn, TxChains, Loaded

\* Only create_grant adds a row; nothing else changes a row's terms.
LEMMA TableStep ==
  ASSUME TypeInv, [Next]_vars
  PROVE  \/ Kept
         \/ \E t \in Tenants, a \in Authorities : CreateRoot(t, a)
         \/ \E c \in Connections : CommitCreate(c)
<1>1. UNCHANGED grants => Kept
  BY TableUnchanged DEF TypeInv
<1>2. ASSUME NEW c \in Connections, CommitRevoke(c) \/ CommitReserve(c) PROVE Kept
  BY <1>2, RevokeShape, ReserveShape DEF Reserved
<1>3. ASSUME NEW c \in Connections, LockRow(c) \/ ReadClock(c) \/ Rollback(c)
      PROVE  Kept
  BY <1>1, <1>3 DEF LockRow, ReadClock, Rollback
<1>4. ASSUME NEW c \in Connections, NEW g, NEW a, BeginRevoke(c, g) \/ BeginCreateChild(c, g, a)
      PROVE  Kept
  BY <1>1, <1>4 DEF BeginRevoke, BeginCreateChild, BeginTx
<1>5. CASE Broker
  BY <1>1, <1>5 DEF Broker, AdmitRun, BrokerDispatch, BeginReserve, BeginTx, BrokerPrepare
<1>6. CASE Tick \/ UNCHANGED vars
  BY <1>1, <1>6 DEF Tick, vars
<1> QED
  BY <1>2, <1>3, <1>4, <1>5, <1>6 DEF Next, Owner, Transaction

LEMMA ChainStep ==
  ASSUME TypeInv, ChainInv, TxChains, [Next]_vars
  PROVE  /\ ChainInv'
         /\ GrantIds \subseteq GrantIds' /\ \A g \in GrantIds : Chain(g)' = Chain(g)
<1>1. CASE Kept
  BY <1>1, ChainInvKept, ChainsKept DEF Kept
<1>2. TableOK /\ ForestInv
  BY DEF TypeInv, ChainInv
<1>3. ASSUME NEW t \in Tenants, NEW a \in Authorities, CreateRoot(t, a)
      PROVE  /\ ChainInv'
             /\ GrantIds \subseteq GrantIds' /\ \A g \in GrantIds : Chain(g)' = Chain(g)
  <2>1. PICK row : row = NewRow(t, 0, 0, a)
    OBVIOUS
  <2>2. Grown(row) /\ Permits(a)
    BY <1>3, <2>1, RootShape DEF CreateRoot
  <2>3. a \in AuthorityType
    BY ConstantAssumption DEF ConstantAssumption
  <2>4. /\ row \in GrantRows /\ row.used = 0 /\ row.parent = 0 /\ row.depth = 0
        /\ row.authority = a
    BY <2>1, <2>3 DEF NewRow, GrantRows
  <2>5. ChainInv'
    BY <2>2, <2>4, ChainInvGrown
  <2>6. \A g \in GrantIds : Chain(g)' = Chain(g)
    BY <1>2, <2>2, <2>4, ChainsGrow
  <2> QED
    BY <2>2, <2>5, <2>6 DEF Grown
<1>4. ASSUME NEW c \in Connections, CommitCreate(c)
      PROVE  /\ ChainInv'
             /\ GrantIds \subseteq GrantIds' /\ \A g \in GrantIds : Chain(g)' = Chain(g)
  <2> DEFINE p == tx[c].leaf
             a == tx[c].authority
  <2>1. /\ p \in GrantIds /\ a \in Authorities
        /\ Cardinality(DOMAIN tx[c].seen) \in Nat
        /\ Grown(NewRow(grants[p].tenant, p, Cardinality(DOMAIN tx[c].seen), a))
    BY <1>4, CreateShape
  <2>2. DOMAIN tx[c].seen = Chain(p)
    BY <1>4, LoadedChain DEF CommitCreate
  <2>3. Permits(a)
    BY <1>4 DEF CommitCreate, TxChains
  <2>4. /\ Cardinality(Chain(p)) < ChainLimit
        /\ \A g \in Chain(p) : Attenuates(a, grants[g].authority)
    BY <1>4, <2>2 DEF CommitCreate, ChildAccepted
  <2>5. PICK row : row = NewRow(grants[p].tenant, p, Cardinality(Chain(p)), a)
    OBVIOUS
  <2>6. a \in AuthorityType /\ grants[p].tenant \in Tenants /\ p \in Nat /\ p # 0
    BY <1>2, <2>1, TableFacts, ConstantAssumption DEF GrantRows, ConstantAssumption
  <2> HIDE DEF p, a
  <2>7. /\ row \in GrantRows /\ row.used = 0 /\ row.parent = p
        /\ row.depth = Cardinality(Chain(p)) /\ row.authority = a
        /\ row.tenant = grants[p].tenant
    BY <2>1, <2>2, <2>5, <2>6 DEF NewRow, GrantRows
  <2>8. Grown(row)
    BY <2>1, <2>2, <2>5
  <2>9. ChainInv'
    BY <2>1, <2>3, <2>4, <2>6, <2>7, <2>8, ChainInvGrown
  <2>10. \A g \in GrantIds : Chain(g)' = Chain(g)
    BY <1>2, <2>1, <2>7, <2>8, ChainsGrow
  <2> QED
    BY <2>8, <2>9, <2>10 DEF Grown
<1> QED
  BY <1>1, <1>3, <1>4, TableStep

\* What a step makes of a transaction.
Same(c) == Alike(tx[c], tx'[c])
Over(c) == tx'[c] = Idle
Began(c) ==
  \E op \in {"create", "revoke", "reserve"}, g \in GrantIds :
    /\ tx[c] = Idle
    /\ tx'[c].op = op /\ tx'[c].leaf = g /\ tx'[c].todo = Chain(g) /\ DOMAIN tx'[c].seen = {}
    /\ op = "create" => Permits(tx'[c].authority)
    /\ op = "reserve" => /\ tx'[c].effect \in Runs \X Ordinals
                         /\ runGrant[tx'[c].effect[1]] = g /\ UNCHANGED runGrant
Advanced(c) ==
  \E g \in tx[c].todo :
    /\ RowFree(g) /\ UNCHANGED <<grants, runGrant>> /\ tx[c].op # "idle"
    /\ tx'[c].op = tx[c].op /\ tx'[c].leaf = tx[c].leaf
    /\ tx'[c].authority = tx[c].authority /\ tx'[c].effect = tx[c].effect
    /\ tx'[c].todo = tx[c].todo \ {g} /\ DOMAIN tx'[c].seen = DOMAIN tx[c].seen \cup {g}
    /\ tx'[c].seen[g] = [used |-> grants[g].used, revoked |-> grants[g].revoked]
    /\ \A a \in DOMAIN tx[c].seen \ {g} : tx'[c].seen[a] = tx[c].seen[a]

LEMMA TxStep ==
  ASSUME TypeInv, [Next]_vars
  PROVE  \/ \A c \in Connections : Same(c) \/ Over(c) \/ Began(c)
         \/ \E c \in Connections :
              Advanced(c) /\ \A d \in Connections \ {c} : Same(d)
<1>1. ASSUME UNCHANGED tx PROVE \A c \in Connections : Same(c)
  BY <1>1 DEF Same, Alike
<1>10. \A c \in Connections : tx'[c] = tx[c] => Same(c)
  BY DEF Same, Alike
<1>11. ASSUME NEW c \in Connections, ReadClock(c) PROVE \A d \in Connections : Same(d)
  BY <1>10, <1>11, ClockShape DEF Same
<1>2. ASSUME NEW c \in Connections, NEW g \in GrantIds, BeginRevoke(c, g)
      PROVE  \A d \in Connections : Same(d) \/ Began(d)
  <2>1. BeginTx(c, "revoke", g, None, None)
    BY <1>2 DEF BeginRevoke
  <2>2. /\ tx[c] = Idle /\ tx'[c].op = "revoke" /\ tx'[c].leaf = g
        /\ tx'[c].todo = Chain(g) /\ DOMAIN tx'[c].seen = {}
        /\ \A d \in Connections \ {c} : tx'[d] = tx[d]
    BY <2>1, BeginShape
  <2> QED
    BY <1>10, <2>2 DEF Began
<1>3. ASSUME NEW c \in Connections, NEW g \in GrantIds, NEW a \in Authorities,
             BeginCreateChild(c, g, a)
      PROVE  \A d \in Connections : Same(d) \/ Began(d)
  <2>1. BeginTx(c, "create", g, a, None) /\ Permits(a)
    BY <1>3 DEF BeginCreateChild
  <2>2. /\ tx[c] = Idle /\ tx'[c].op = "create" /\ tx'[c].leaf = g
        /\ tx'[c].todo = Chain(g) /\ DOMAIN tx'[c].seen = {} /\ tx'[c].authority = a
        /\ \A d \in Connections \ {c} : tx'[d] = tx[d]
    BY <2>1, BeginShape
  <2> QED
    BY <1>10, <2>1, <2>2 DEF Began
<1>4. ASSUME NEW c \in Connections, NEW r \in Runs, NEW o \in Ordinals, BeginReserve(c, r, o)
      PROVE  \A d \in Connections : Same(d) \/ Began(d)
  <2>1. PICK g : g = runGrant[r]
    OBVIOUS
  <2>2. /\ g \in GrantIds /\ <<r, o>> \in Runs \X Ordinals
        /\ BeginTx(c, "reserve", g, None, <<r, o>>)
    BY <1>4, <2>1 DEF TypeInv, BeginReserve
  <2>3. /\ tx[c] = Idle /\ tx'[c].op = "reserve" /\ tx'[c].leaf = g
        /\ tx'[c].todo = Chain(g) /\ DOMAIN tx'[c].seen = {} /\ tx'[c].effect = <<r, o>>
        /\ \A d \in Connections \ {c} : tx'[d] = tx[d]
        /\ UNCHANGED runGrant
    BY <2>2, BeginShape
  <2> QED
    BY <1>10, <2>1, <2>2, <2>3 DEF Began
<1>5. ASSUME NEW c \in Connections, LockRow(c)
      PROVE  Advanced(c) /\ \A d \in Connections \ {c} : Same(d)
  <2>1. UNCHANGED <<grants, runGrant>>
    BY <1>5 DEF LockRow
  <2> QED
    BY <1>5, <1>10, <2>1, LockShape DEF Advanced
<1>6. ASSUME NEW c \in Connections,
             CommitCreate(c) \/ CommitRevoke(c) \/ CommitReserve(c) \/ Rollback(c)
      PROVE  \A d \in Connections : Same(d) \/ Over(d)
  <2>1. tx' = [tx EXCEPT ![c] = Idle]
    BY <1>6 DEF CommitCreate, CommitRevoke, CommitReserve, Rollback
  <2> QED
    BY <1>10, <2>1, EndShape DEF Over
<1>7. CASE \E t \in Tenants, a \in Authorities : CreateRoot(t, a)
  BY <1>1, <1>7 DEF CreateRoot
<1>8. CASE Broker
  BY <1>1, <1>4, <1>8 DEF Broker, AdmitRun, BrokerDispatch, BrokerPrepare
<1>9. CASE Tick \/ UNCHANGED vars
  BY <1>1, <1>9 DEF Tick, vars
<1> QED
  BY <1>2, <1>3, <1>5, <1>6, <1>7, <1>8, <1>9, <1>11 DEF Next, Owner, Transaction

\* A run keeps the grant it was admitted with.
LEMMA RunGrantKept ==
  ASSUME TypeInv, [Next]_vars
  PROVE  \A r \in Runs : runGrant[r] # 0 => runGrant'[r] = runGrant[r]
<1>1. ASSUME NEW r \in Runs, NEW g \in GrantIds, AdmitRun(r, g)
      PROVE  \A q \in Runs : runGrant[q] # 0 => runGrant'[q] = runGrant[q]
  BY <1>1 DEF AdmitRun, TypeInv
<1> QED
  BY <1>1 DEF Next, Owner, Transaction, Broker, vars, CreateRoot, BeginRevoke, BeginCreateChild,
              BeginTx, LockRow, ReadClock, CommitCreate, CommitRevoke, CommitReserve, Rollback,
              BrokerDispatch, BeginReserve, BrokerPrepare, Tick

LEMMA TxChainsStep ==
  ASSUME TypeInv, ChainInv, TxChains, [Next]_vars
  PROVE  TxChains'
<1> DEFINE OK(c) ==
      /\ tx[c].op # "idle" => tx[c].todo \cup DOMAIN tx[c].seen = Chain(tx[c].leaf)
      /\ tx[c].op = "create" => Permits(tx[c].authority)
      /\ tx[c].op = "reserve" => tx[c].leaf = runGrant[tx[c].effect[1]]
<1>1. \A g \in GrantIds : Chain(g)' = Chain(g)
  BY ChainStep
<1>2. ASSUME NEW c \in Connections, Same(c) PROVE OK(c)'
  <2>1. TxIn(tx[c], GrantIds) /\ 0 \notin GrantIds
    BY TableFacts DEF TypeInv
  <2>2. tx[c].op # "idle" => tx[c].leaf \in GrantIds
    BY <2>1 DEF TxIn
  <2>3. tx[c].op = "reserve" =>
          tx[c].effect[1] \in Runs /\ runGrant[tx[c].effect[1]] # 0
    BY <2>1, <2>2 DEF TxIn, TxChains
  <2>4. PICK g : g = tx[c].leaf
    OBVIOUS
  <2>5. tx[c].op # "idle" => tx[c].todo \cup DOMAIN tx[c].seen = Chain(g)'
    BY <1>1, <2>2, <2>4 DEF TxChains
  <2> QED
    BY <1>2, <2>2, <2>3, <2>4, <2>5, RunGrantKept DEF Same, Alike, TxChains
<1>3. ASSUME NEW c \in Connections, Over(c) PROVE OK(c)'
  BY <1>3, IdleIn DEF Over
<1>4. ASSUME NEW c \in Connections, Began(c) PROVE OK(c)'
  <2>1. PICK op \in {"create", "revoke", "reserve"}, g \in GrantIds :
          /\ tx'[c].op = op /\ tx'[c].leaf = g /\ tx'[c].todo = Chain(g)
          /\ DOMAIN tx'[c].seen = {}
          /\ op = "create" => Permits(tx'[c].authority)
          /\ op = "reserve" => runGrant[tx'[c].effect[1]] = g /\ UNCHANGED runGrant
    BY <1>4 DEF Began
  <2> QED
    BY <1>1, <2>1
<1>5. ASSUME NEW c \in Connections, Advanced(c) PROVE OK(c)'
  <2>1. PICK g \in tx[c].todo :
          /\ UNCHANGED <<grants, runGrant>> /\ tx[c].op # "idle"
          /\ tx'[c].op = tx[c].op /\ tx'[c].leaf = tx[c].leaf
          /\ tx'[c].authority = tx[c].authority /\ tx'[c].effect = tx[c].effect
          /\ tx'[c].todo = tx[c].todo \ {g}
          /\ DOMAIN tx'[c].seen = DOMAIN tx[c].seen \cup {g}
    BY <1>5 DEF Advanced
  <2>2. PICK l : l = tx[c].leaf
    OBVIOUS
  <2>3. l \in GrantIds /\ tx[c].todo \cup DOMAIN tx[c].seen = Chain(l)
    BY <2>1, <2>2 DEF TypeInv, TxIn, TxChains
  <2>4. tx'[c].todo \cup DOMAIN tx'[c].seen = Chain(l)'
    BY <1>1, <2>1, <2>3
  <2> QED
    BY <2>1, <2>2, <2>4 DEF TxChains
<1> HIDE DEF OK
<1>6. \A c \in Connections : OK(c)'
  BY <1>2, <1>3, <1>4, <1>5, TxStep
<1> QED
  BY <1>6 DEF TxChains, OK

\* Every row that a step changes has been locked by a transaction that ends.
LEMMA ChangesAreLocked ==
  ASSUME TypeInv, ChainInv, TxChains, LocksInv, [Next]_vars
  PROVE  \A c \in Connections : \A a \in DOMAIN tx[c].seen :
           Over(c) \/ (grants'[a].used = grants[a].used /\ grants'[a].revoked = grants[a].revoked)
<1> SUFFICES ASSUME NEW c \in Connections, NEW a \in DOMAIN tx[c].seen, ~Over(c)
             PROVE  grants'[a].used = grants[a].used /\ grants'[a].revoked = grants[a].revoked
  OBVIOUS
<1>1. a \in GrantIds
  BY DEF TypeInv, TxIn
<1>2. ASSUME NEW row, Grown(row) PROVE grants'[a] = grants[a]
  BY <1>1, <1>2 DEF Grown
<1>3. ASSUME NEW t \in Tenants, NEW b \in Authorities, CreateRoot(t, b)
      PROVE  grants'[a] = grants[a]
  BY <1>2, <1>3, RootShape
<1>4. ASSUME NEW d \in Connections, CommitCreate(d) PROVE grants'[a] = grants[a]
  BY <1>2, <1>4, CreateShape
<1>5. ASSUME NEW d \in Connections, CommitRevoke(d) PROVE grants'[a] = grants[a]
  <2>1. /\ tx'[d] = Idle /\ tx[d].leaf \in GrantIds
        /\ \A b \in GrantIds \ {tx[d].leaf} : grants'[b] = grants[b]
    BY <1>5, RevokeShape
  <2>2. DOMAIN tx[d].seen = Chain(tx[d].leaf)
    BY <1>5, LoadedChain DEF CommitRevoke
  <2>3. tx[d].leaf \in DOMAIN tx[d].seen
    BY <2>1, <2>2, ChainFacts DEF ChainInv
  <2>4. a # tx[d].leaf
    BY <2>1, <2>3 DEF LocksInv, Over
  <2> QED
    BY <1>1, <2>1, <2>4
<1>6. ASSUME NEW d \in Connections, CommitReserve(d)
      PROVE  grants'[a].used = grants[a].used /\ grants'[a].revoked = grants[a].revoked
  <2>1. /\ tx'[d] = Idle
        /\ \A g \in GrantIds :
             /\ grants'[g].used = IF g \in DOMAIN tx[d].seen THEN grants[g].used + 1
                                  ELSE grants[g].used
             /\ grants'[g].revoked = grants[g].revoked
    BY <1>6, ReserveShape DEF Reserved
  <2>2. a \notin DOMAIN tx[d].seen
    BY <2>1 DEF LocksInv, Over
  <2> QED
    BY <1>1, <2>1, <2>2
<1>7. CASE UNCHANGED grants
  BY <1>7
<1> QED
  BY <1>3, <1>4, <1>5, <1>6, <1>7
  DEF Next, Owner, Transaction, Broker, vars, BeginRevoke, BeginCreateChild, BeginTx, LockRow,
      ReadClock, Rollback, AdmitRun, BrokerDispatch, BeginReserve, BrokerPrepare, Tick

LEMMA LocksStep ==
  ASSUME TypeInv, ChainInv, TxChains, LocksInv, [Next]_vars
  PROVE  LocksInv'
<1>1. CASE \A c \in Connections : Same(c) \/ Over(c) \/ Began(c)
  <2>1. \A c \in Connections : Same(c) \/ DOMAIN tx'[c].seen = {}
    BY <1>1, IdleIn DEF Over, Began
  <2>2. ASSUME NEW c \in Connections, NEW a \in DOMAIN tx'[c].seen
        PROVE  /\ tx'[c].seen[a].used = grants'[a].used
               /\ tx'[c].seen[a].revoked = grants'[a].revoked
    <3>1. Same(c) /\ a \in DOMAIN tx[c].seen /\ ~Over(c)
      BY <2>1, IdleIn DEF Same, Alike, Over
    <3> QED
      BY <3>1, ChangesAreLocked DEF LocksInv, Same, Alike
  <2>3. \A c, d \in Connections : c # d => DOMAIN tx'[c].seen \cap DOMAIN tx'[d].seen = {}
    BY <2>1 DEF LocksInv, Same, Alike
  <2> QED
    BY <2>2, <2>3 DEF LocksInv
<1>2. ASSUME NEW c \in Connections, Advanced(c), \A d \in Connections \ {c} : Same(d)
      PROVE  LocksInv'
  <2>1. PICK g \in tx[c].todo :
          /\ RowFree(g) /\ UNCHANGED grants
          /\ DOMAIN tx'[c].seen = DOMAIN tx[c].seen \cup {g}
          /\ tx'[c].seen[g] = [used |-> grants[g].used, revoked |-> grants[g].revoked]
          /\ \A a \in DOMAIN tx[c].seen \ {g} : tx'[c].seen[a] = tx[c].seen[a]
    BY <1>2 DEF Advanced
  <2>2. \A d \in Connections : g \notin DOMAIN tx[d].seen
    BY <2>1 DEF RowFree
  <2>3. \A d \in Connections \ {c} : tx'[d].seen = tx[d].seen
    BY <1>2 DEF Same, Alike
  <2>4. \A b, d \in Connections : b # d => DOMAIN tx'[b].seen \cap DOMAIN tx'[d].seen = {}
    BY <2>1, <2>2, <2>3 DEF LocksInv
  <2>5. \A d \in Connections : \A a \in DOMAIN tx'[d].seen :
          /\ tx'[d].seen[a].used = grants'[a].used
          /\ tx'[d].seen[a].revoked = grants'[a].revoked
    BY <2>1, <2>2, <2>3 DEF LocksInv
  <2> QED
    BY <2>4, <2>5 DEF LocksInv
<1> QED
  BY <1>1, <1>2, TxStep

(***************************************************************************)
(* Budgets.                                                                *)
(***************************************************************************)

\* The effects that have reserved grant g, in the table E.
Holders(E, g) == {p \in Runs \X Ordinals : g \in E[p[1]][p[2]].reserved}

\* A charged effect belongs to an admitted run and has been prepared.
EffectInv ==
  \A r \in Runs, o \in Ordinals :
    effects[r][o].charged => runGrant[r] \in GrantIds /\ effects[r][o].state # "NONE"

\* Reservations are whole chains.
WholeChains ==
  \A r \in Runs, o \in Ordinals :
    /\ effects[r][o].charged <=> effects[r][o].reserved # {}
    /\ effects[r][o].charged => effects[r][o].reserved = Chain(runGrant[r])

Counted == \A g \in GrantIds : grants[g].used = Cardinality(Holders(effects, g))

BudgetInv == EffectInv /\ WholeChains /\ Counted /\ WithinConfiguration

LEMMA BudgetInvImplies == BudgetInv => BudgetExact
BY DEF BudgetInv, BudgetExact, WholeChains, Counted, Holders

LEMMA HoldersFinite ==
  ASSUME NEW E, NEW g
  PROVE  IsFiniteSet(Holders(E, g)) /\ Cardinality(Holders(E, g)) \in Nat
<1>1. IsFiniteSet(Runs \X Ordinals)
  BY ConstantAssumption, FS_Product DEF ConstantAssumption
<1> QED
  BY <1>1, FS_Subset, FS_CardinalityType DEF Holders

\* Chains of admitted runs stay what they are.
LEMMA RunChainKept ==
  ASSUME TypeInv, ChainInv, TxChains, [Next]_vars,
         NEW r \in Runs, runGrant[r] \in GrantIds
  PROVE  /\ runGrant'[r] = runGrant[r] /\ runGrant'[r] \in GrantIds'
         /\ Chain(runGrant[r])' = Chain(runGrant[r])
<1>1. runGrant[r] # 0
  BY TableFacts DEF TypeInv
<1>2. runGrant'[r] = runGrant[r]
  BY <1>1, RunGrantKept
<1>3. PICK g \in GrantIds : g = runGrant[r]
  OBVIOUS
<1>4. Chain(g)' = Chain(g) /\ GrantIds \subseteq GrantIds'
  BY ChainStep
<1> QED
  BY <1>2, <1>3, <1>4

\* A step that changes no effect's reservation.
LEMMA BudgetKept ==
  ASSUME TypeInv, ChainInv, TxChains, BudgetInv, [Next]_vars,
         \A r \in Runs, o \in Ordinals :
           /\ effects'[r][o].charged = effects[r][o].charged
           /\ effects'[r][o].reserved = effects[r][o].reserved
           /\ effects[r][o].charged =>
                /\ effects'[r][o].destination = effects[r][o].destination
                /\ effects'[r][o].project = effects[r][o].project
                /\ effects'[r][o].state # "NONE",
         \A g \in GrantIds : grants'[g].used = grants[g].used,
         \A g \in GrantIds' \ GrantIds : grants'[g].used = 0
  PROVE  BudgetInv'
<1>1. EffectInv'
  BY RunChainKept DEF BudgetInv, EffectInv
<1>2. WholeChains'
  <2> SUFFICES ASSUME NEW r \in Runs, NEW o \in Ordinals
               PROVE  /\ effects'[r][o].charged <=> effects'[r][o].reserved # {}
                      /\ effects'[r][o].charged => effects'[r][o].reserved = Chain(runGrant[r])'
    BY DEF WholeChains
  <2>1. effects[r][o].charged => runGrant[r] \in GrantIds
    BY DEF BudgetInv, EffectInv
  <2> QED
    BY <2>1, RunChainKept DEF BudgetInv, WholeChains
<1>3. \A g : Holders(effects', g) = Holders(effects, g)
  BY DEF Holders
<1>4. Counted'
  <2> SUFFICES ASSUME NEW g \in GrantIds'
               PROVE  grants'[g].used = Cardinality(Holders(effects', g))
    BY DEF Counted
  <2>1. CASE g \in GrantIds
    BY <1>3, <2>1 DEF BudgetInv, Counted
  <2>2. CASE g \notin GrantIds
    <3>1. ASSUME NEW p \in Holders(effects, g) PROVE FALSE
      <4>1. /\ p[1] \in Runs /\ p[2] \in Ordinals
            /\ g \in effects[p[1]][p[2]].reserved
        BY <3>1 DEF Holders
      <4>2. effects[p[1]][p[2]] \in EffectsIn(GrantIds)
        BY <4>1 DEF TypeInv
      <4> QED
        BY <2>2, <4>1, <4>2 DEF EffectsIn
    <3>2. Holders(effects, g) = {}
      BY <3>1
    <3> QED
      BY <1>3, <2>2, <3>2, FS_EmptySet
  <2> QED
    BY <2>1, <2>2
<1>5. WithinConfiguration'
  BY DEF BudgetInv, WithinConfiguration
<1> QED
  BY <1>1, <1>2, <1>4, <1>5 DEF BudgetInv

LEMMA BudgetReserved ==
  ASSUME TypeInv, ChainInv, TxChains, BudgetInv, NEW c \in Connections, CommitReserve(c)
  PROVE  BudgetInv'
<1>0. [Next]_vars
  BY DEF Next, Transaction
<1>1. PICK r \in Runs, o \in Ordinals : tx[c].effect = <<r, o>>
  BY ReserveShape
<1>2. PICK C : C = DOMAIN tx[c].seen
  OBVIOUS
<1>3. PICK l : l = tx[c].leaf
  OBVIOUS
<1>4. l \in GrantIds /\ C = Chain(l) /\ l = runGrant[r] /\ l \in C
  <2>1. l \in GrantIds /\ C = Chain(l)
    BY <1>2, <1>3, LoadedChain DEF CommitReserve
  <2> QED
    BY <1>1, <1>3, <2>1, ChainFacts DEF CommitReserve, TxChains, ChainInv
<1>5. Reserved(r, o, C) /\ UNCHANGED runGrant
  BY <1>1, <1>2, ReserveShape
<1> DEFINE e == [effects[r][o] EXCEPT !.charged = TRUE, !.reserved = C]
<1>6. effects[r][o] \in EffectsIn(GrantIds) /\ C \subseteq GrantIds
  BY <1>5 DEF TypeInv, Reserved
<1>7. /\ e \in EffectsIn(GrantIds) /\ e.charged /\ e.reserved = C /\ e.state = "PREPARED"
      /\ e.destination = effects[r][o].destination /\ e.project = effects[r][o].project
  BY <1>5, <1>6 DEF EffectsIn, Reserved
<1>8. /\ effects'[r][o] = e
      /\ \A q \in Runs, p \in Ordinals : <<q, p>> # <<r, o>> => effects'[q][p] = effects[q][p]
  <2>1. effects' = [effects EXCEPT ![r][o] = e]
    BY <1>5 DEF Reserved
  <2> HIDE DEF e
  <2> QED
    BY <1>7, <2>1, EffectWritten DEF TypeInv
<1> HIDE DEF e
<1>9. GrantIds' = GrantIds /\ \A g : Chain(g)' = Chain(g)
  BY <1>5, ChainsKept DEF Reserved, Kept
<1>10. \A q \in Runs : Chain(runGrant[q])' = Chain(runGrant[q])
  BY <1>5, <1>9
<1>11. EffectInv'
  BY <1>4, <1>5, <1>7, <1>8, <1>9 DEF EffectInv, BudgetInv
<1>12. WholeChains'
  <2> SUFFICES ASSUME NEW q \in Runs, NEW p \in Ordinals
               PROVE  /\ effects'[q][p].charged <=> effects'[q][p].reserved # {}
                      /\ effects'[q][p].charged => effects'[q][p].reserved = Chain(runGrant[q])'
    BY DEF WholeChains
  <2>1. CASE <<q, p>> = <<r, o>>
    <3>1. q = r /\ p = o
      BY <2>1
    <3>2. effects'[q][p].charged /\ effects'[q][p].reserved = C
      BY <1>7, <1>8, <3>1
    <3>3. C # {} /\ C = Chain(runGrant[q])
      BY <1>4, <3>1
    <3> QED
      BY <1>10, <3>2, <3>3
  <2>2. CASE <<q, p>> # <<r, o>>
    BY <1>8, <1>10, <2>2 DEF WholeChains, BudgetInv
  <2> QED
    BY <2>1, <2>2
<1>13. Counted'
  <2> SUFFICES ASSUME NEW g \in GrantIds
               PROVE  grants'[g].used = Cardinality(Holders(effects', g))
    BY <1>9 DEF Counted
  <2>1. grants[g].used = Cardinality(Holders(effects, g))
    BY DEF BudgetInv, Counted
  <2>2. grants'[g].used = IF g \in C THEN grants[g].used + 1 ELSE grants[g].used
    BY <1>5 DEF Reserved
  <2>3. <<r, o>> \notin Holders(effects, g)
    BY <1>5 DEF Holders, Reserved
  <2>4. CASE g \in C
    <3>1. ASSUME NEW p \in Runs \X Ordinals
          PROVE  p \in Holders(effects', g) <=> p \in Holders(effects, g) \cup {<<r, o>>}
      <4>1. PICK q \in Runs, k \in Ordinals : p = <<q, k>>
        OBVIOUS
      <4>2. CASE p = <<r, o>>
        BY <1>7, <1>8, <2>4, <4>2 DEF Holders
      <4>3. CASE p # <<r, o>>
        BY <1>8, <4>1, <4>3 DEF Holders
      <4> QED
        BY <4>2, <4>3
    <3>2. Holders(effects', g) = Holders(effects, g) \cup {<<r, o>>}
      BY <3>1 DEF Holders
    <3> QED
      BY <2>1, <2>2, <2>3, <2>4, <3>2, HoldersFinite, FS_AddElement
  <2>5. CASE g \notin C
    <3>1. ASSUME NEW p \in Runs \X Ordinals
          PROVE  p \in Holders(effects', g) <=> p \in Holders(effects, g)
      <4>1. PICK q \in Runs, k \in Ordinals : p = <<q, k>>
        OBVIOUS
      <4>2. CASE p = <<r, o>>
        BY <1>7, <1>8, <2>3, <2>5, <4>2 DEF Holders
      <4>3. CASE p # <<r, o>>
        BY <1>8, <4>1, <4>3 DEF Holders
      <4> QED
        BY <4>2, <4>3
    <3>2. Holders(effects', g) = Holders(effects, g)
      BY <3>1 DEF Holders
    <3> QED
      BY <2>1, <2>2, <2>5, <3>2
  <2> QED
    BY <2>4, <2>5
<1>14. WithinConfiguration'
  <2> SUFFICES ASSUME NEW q \in Runs, NEW p \in Ordinals, effects'[q][p].charged
               PROVE  effects'[q][p].project \in Adapters[effects'[q][p].destination]
    BY DEF WithinConfiguration
  <2>1. CASE <<q, p>> = <<r, o>>
    <3>1. EffectOf(c) = effects[r][o]
      BY <1>1 DEF EffectOf
    <3>2. /\ effects[r][o].destination \in grants[l].authority.destinations
          /\ effects[r][o].project \in grants[l].authority.projects
      BY <1>2, <1>4, <3>1 DEF CommitReserve, Plan
    <3>3. Permits(grants[l].authority)
      BY <1>4 DEF ChainInv, RowChain
    <3> QED
      BY <1>7, <1>8, <2>1, <3>2, <3>3 DEF Permits
  <2>2. CASE <<q, p>> # <<r, o>>
    BY <1>8, <2>2 DEF BudgetInv, WithinConfiguration
  <2> QED
    BY <2>1, <2>2
<1> QED
  BY <1>11, <1>12, <1>13, <1>14 DEF BudgetInv

LEMMA BudgetStep ==
  ASSUME TypeInv, ChainInv, TxChains, BudgetInv, [Next]_vars
  PROVE  BudgetInv'
<1>1. ASSUME UNCHANGED effects, \A g \in GrantIds : grants'[g].used = grants[g].used,
             \A g \in GrantIds' \ GrantIds : grants'[g].used = 0
      PROVE  BudgetInv'
  BY <1>1, BudgetKept DEF BudgetInv, EffectInv
<1>2. ASSUME UNCHANGED <<grants, effects>> PROVE BudgetInv'
  <2>1. GrantIds' = GrantIds
    BY <1>2 DEF GrantIds
  <2> QED
    BY <1>1, <1>2, <2>1
<1>3. ASSUME NEW row, Grown(row), row.used = 0, UNCHANGED effects PROVE BudgetInv'
  BY <1>1, <1>3 DEF Grown
<1>4. ASSUME NEW t \in Tenants, NEW a \in Authorities, CreateRoot(t, a) PROVE BudgetInv'
  BY <1>3, <1>4, RootShape DEF NewRow
<1>5. ASSUME NEW c \in Connections, CommitCreate(c) PROVE BudgetInv'
  <2>1. PICK row : row = NewRow(grants[tx[c].leaf].tenant, tx[c].leaf,
                                Cardinality(DOMAIN tx[c].seen), tx[c].authority)
    OBVIOUS
  <2>2. Grown(row) /\ UNCHANGED effects /\ row.used = 0
    BY <1>5, <2>1, CreateShape DEF NewRow
  <2> QED
    BY <1>3, <2>2
<1>6. ASSUME NEW c \in Connections, CommitRevoke(c) PROVE BudgetInv'
  <2>1. /\ tx[c].leaf \in GrantIds /\ GrantIds' = GrantIds /\ UNCHANGED effects
        /\ grants'[tx[c].leaf] = [grants[tx[c].leaf] EXCEPT !.revoked = TRUE]
        /\ \A a \in GrantIds \ {tx[c].leaf} : grants'[a] = grants[a]
    BY <1>6, RevokeShape DEF Kept
  <2>2. grants[tx[c].leaf] \in GrantRows
    BY <2>1, TableFacts DEF TypeInv
  <2>3. grants'[tx[c].leaf].used = grants[tx[c].leaf].used
    BY <2>1, <2>2 DEF GrantRows
  <2> QED
    BY <1>1, <2>1, <2>3
<1>7. ASSUME NEW r \in Runs, NEW o \in Ordinals, NEW d \in Destinations, NEW p \in Projects,
             BrokerPrepare(r, o, d, p)
      PROVE  BudgetInv'
  <2> DEFINE e == [NoEffect EXCEPT !.state = "PREPARED", !.destination = d, !.project = p]
  <2>1. e \in EffectsIn(GrantIds) /\ e.charged = FALSE /\ e.reserved = {}
    BY DEF NoEffect, EffectsIn, EffectStates
  <2>2. effects' = [effects EXCEPT ![r][o] = e] /\ effects[r][o].state = "NONE"
    BY <1>7 DEF BrokerPrepare
  <2> HIDE DEF e
  <2>3. /\ effects'[r][o] = e
        /\ \A q \in Runs, k \in Ordinals : <<q, k>> # <<r, o>> => effects'[q][k] = effects[q][k]
    BY <2>1, <2>2, EffectWritten DEF TypeInv
  <2>4. effects[r][o] \in EffectsIn(GrantIds)
    BY DEF TypeInv
  <2>5. effects[r][o].charged = FALSE /\ effects[r][o].reserved = {}
    BY <2>2, <2>4 DEF BudgetInv, EffectInv, WholeChains, EffectsIn
  <2>6. UNCHANGED grants /\ GrantIds' = GrantIds
    BY <1>7 DEF BrokerPrepare, GrantIds
  <2>7. ASSUME NEW q \in Runs, NEW k \in Ordinals
        PROVE  /\ effects'[q][k].charged = effects[q][k].charged
               /\ effects'[q][k].reserved = effects[q][k].reserved
               /\ effects[q][k].charged =>
                    /\ effects'[q][k].destination = effects[q][k].destination
                    /\ effects'[q][k].project = effects[q][k].project
                    /\ effects'[q][k].state # "NONE"
    <3>1. CASE q = r /\ k = o
      BY <2>1, <2>3, <2>5, <3>1
    <3>2. CASE ~(q = r /\ k = o)
      BY <2>3, <3>2 DEF BudgetInv, EffectInv
    <3> QED
      BY <3>1, <3>2
  <2> QED
    BY <2>6, <2>7, BudgetKept
<1>8. ASSUME NEW r \in Runs, NEW o \in Ordinals, BrokerDispatch(r, o) PROVE BudgetInv'
  <2> DEFINE e == [effects[r][o] EXCEPT !.state = "DISPATCHING"]
  <2>1. effects[r][o] \in EffectsIn(GrantIds)
    BY DEF TypeInv
  <2>2. /\ e \in EffectsIn(GrantIds) /\ e.charged = effects[r][o].charged
        /\ e.reserved = effects[r][o].reserved /\ e.destination = effects[r][o].destination
        /\ e.project = effects[r][o].project /\ e.state # "NONE"
    BY <2>1 DEF EffectsIn, EffectStates
  <2>3. effects' = [effects EXCEPT ![r][o] = e]
    BY <1>8 DEF BrokerDispatch, TypeInv
  <2> HIDE DEF e
  <2>4. /\ effects'[r][o] = e
        /\ \A q \in Runs, k \in Ordinals : <<q, k>> # <<r, o>> => effects'[q][k] = effects[q][k]
    BY <2>2, <2>3, EffectWritten DEF TypeInv
  <2>5. UNCHANGED grants /\ GrantIds' = GrantIds
    BY <1>8 DEF BrokerDispatch, GrantIds
  <2>6. ASSUME NEW q \in Runs, NEW k \in Ordinals
        PROVE  /\ effects'[q][k].charged = effects[q][k].charged
               /\ effects'[q][k].reserved = effects[q][k].reserved
               /\ effects[q][k].charged =>
                    /\ effects'[q][k].destination = effects[q][k].destination
                    /\ effects'[q][k].project = effects[q][k].project
                    /\ effects'[q][k].state # "NONE"
    <3>1. CASE q = r /\ k = o
      BY <2>2, <2>4, <3>1
    <3>2. CASE ~(q = r /\ k = o)
      BY <2>4, <3>2 DEF BudgetInv, EffectInv
    <3> QED
      BY <3>1, <3>2
  <2> QED
    BY <2>5, <2>6, BudgetKept
<1> QED
  BY <1>2, <1>4, <1>5, <1>6, <1>7, <1>8, BudgetReserved
  DEF Next, Owner, Transaction, Broker, vars, BeginRevoke, BeginCreateChild, BeginTx, LockRow,
      ReadClock, Rollback, AdmitRun, BeginReserve, Tick

(***************************************************************************)
(* The theorems.                                                           *)
(***************************************************************************)

\* The inductive invariant.
GrantInv == TypeInv /\ ChainInv /\ TxChains /\ LocksInv /\ BudgetInv

LEMMA GrantInvHolds == Spec => []GrantInv
<1>1. Init => GrantInv
  <2> SUFFICES ASSUME Init PROVE GrantInv
    OBVIOUS
  <2>1. GrantIds = {} /\ TypeInv
    BY TypeInit DEF Init, GrantIds
  <2>2. ChainInv
    BY <2>1 DEF ChainInv, ForestInv
  <2>3. \A c \in Connections : tx[c].op = "idle" /\ DOMAIN tx[c].seen = {}
    BY IdleIn DEF Init
  <2>4. TxChains /\ LocksInv
    BY <2>3 DEF TxChains, LocksInv
  <2>5. \A r \in Runs, o \in Ordinals :
          effects[r][o].charged = FALSE /\ effects[r][o].reserved = {}
    BY DEF Init, NoEffect
  <2>6. BudgetInv
    BY <2>1, <2>5 DEF BudgetInv, EffectInv, WholeChains, Counted, WithinConfiguration
  <2> QED
    BY <2>1, <2>2, <2>4, <2>6 DEF GrantInv
<1>2. GrantInv /\ [Next]_vars => GrantInv'
  <2> SUFFICES ASSUME GrantInv, [Next]_vars PROVE GrantInv'
    OBVIOUS
  <2>1. TypeInv'
    BY TypeStep DEF GrantInv
  <2>2. ChainInv'
    BY ChainStep DEF GrantInv
  <2>3. TxChains'
    BY TxChainsStep DEF GrantInv
  <2>4. LocksInv'
    BY LocksStep DEF GrantInv
  <2>5. BudgetInv'
    BY BudgetStep DEF GrantInv
  <2> QED
    BY <2>1, <2>2, <2>3, <2>4, <2>5 DEF GrantInv
<1> QED
  BY <1>1, <1>2, PTL DEF Spec

\* load_grant_chain_locked never refuses the chain of a grant that create_grant
\* stored, at any limit on its length.
THEOREM GrantsLoad == Spec => []ChainsLoad
<1>1. GrantInv => ChainsLoad
  BY ChainInvImplies DEF GrantInv
<1> QED
  BY <1>1, GrantInvHolds, PTL

\* create_grant never hands out more than any ancestor has: neither a
\* destination, nor a project, nor effects, nor time.
THEOREM GrantsAttenuate == Spec => []NoEscalation
<1>1. GrantInv => NoEscalation
  BY ChainInvImplies DEF GrantInv
<1> QED
  BY <1>1, GrantInvHolds, PTL

\* reserve_grant_chain charges a whole chain once per effect or nothing at all,
\* and the counts are the reservations.
THEOREM GrantsBudget == Spec => []BudgetExact
<1>1. GrantInv => BudgetExact
  BY BudgetInvImplies DEF GrantInv
<1> QED
  BY <1>1, GrantInvHolds, PTL

\* No effect is charged that the operator's adapters do not allow.
THEOREM GrantsConfigured == Spec => []WithinConfiguration
<1>1. GrantInv => WithinConfiguration
  BY DEF GrantInv, BudgetInv
<1> QED
  BY <1>1, GrantInvHolds, PTL

\* A transaction that has locked a chain, and read the clock, and found its
\* copies live may use every grant of the chain.
LEMMA SeenMayUse ==
  ASSUME LocksInv, NEW c \in Connections, tx[c].asof # Unread,
         SeenLive(tx[c].seen, tx[c].asof), NEW g, Chain(g) \subseteq DOMAIN tx[c].seen
  PROVE  MayUse(c, g)
BY DEF LocksInv, SeenLive, MayUse

\* The clock is read once, under the locks of the whole chain.
LEMMA ClockUnderLocks ==
  ASSUME TypeInv, TxChains, [Next]_vars
  PROVE  \A c \in Connections :
           tx'[c].asof \notin {tx[c].asof, Unread} =>
             /\ tx'[c].asof = now
             /\ Chain(tx[c].leaf) \subseteq DOMAIN tx[c].seen
<1> DEFINE Honest(c) == tx'[c].asof \notin {tx[c].asof, Unread} =>
                          /\ tx'[c].asof = now
                          /\ Chain(tx[c].leaf) \subseteq DOMAIN tx[c].seen
<1>1. ASSUME UNCHANGED tx PROVE \A c \in Connections : Honest(c)
  BY <1>1
<1>2. ASSUME NEW c \in Connections, NEW op \in {"create", "revoke", "reserve"},
             NEW g \in GrantIds, NEW authority \in Authorities \cup {None},
             NEW effect \in (Runs \X Ordinals) \cup {None},
             op = "create" => authority \in Authorities,
             op = "reserve" => effect \in Runs \X Ordinals,
             BeginTx(c, op, g, authority, effect)
      PROVE  \A d \in Connections : Honest(d)
  <2>1. tx'[c].asof = Unread /\ \A d \in Connections \ {c} : tx'[d] = tx[d]
    BY <1>2, BeginShape
  <2> QED
    BY <2>1
<1>3. ASSUME NEW c \in Connections, NEW g \in GrantIds, NEW a \in Authorities,
             BeginRevoke(c, g) \/ BeginCreateChild(c, g, a)
      PROVE  \A d \in Connections : Honest(d)
  BY <1>2, <1>3 DEF BeginRevoke, BeginCreateChild
<1>4. ASSUME NEW c \in Connections, NEW g \in GrantIds, BeginRevoke(c, g)
      PROVE  \A d \in Connections : Honest(d)
  BY <1>2, <1>4 DEF BeginRevoke
<1>5. ASSUME NEW c \in Connections, NEW r \in Runs, NEW o \in Ordinals, BeginReserve(c, r, o)
      PROVE  \A d \in Connections : Honest(d)
  <2>1. runGrant[r] \in GrantIds /\ <<r, o>> \in Runs \X Ordinals
    BY <1>5 DEF TypeInv, BeginReserve
  <2> QED
    BY <1>2, <1>5, <2>1 DEF BeginReserve
<1>6. ASSUME NEW c \in Connections, LockRow(c) PROVE \A d \in Connections : Honest(d)
  <2>1. tx'[c].asof = tx[c].asof /\ \A d \in Connections \ {c} : tx'[d] = tx[d]
    BY <1>6, LockShape
  <2> QED
    BY <2>1
<1>7. ASSUME NEW c \in Connections, ReadClock(c) PROVE \A d \in Connections : Honest(d)
  <2>1. DOMAIN tx[c].seen = Chain(tx[c].leaf)
    BY <1>7, LoadedChain DEF ReadClock
  <2>2. tx'[c].asof = now /\ \A d \in Connections \ {c} : tx'[d] = tx[d]
    BY <1>7, ClockShape
  <2> QED
    BY <2>1, <2>2
<1>8. ASSUME NEW c \in Connections,
             CommitCreate(c) \/ CommitRevoke(c) \/ CommitReserve(c) \/ Rollback(c)
      PROVE  \A d \in Connections : Honest(d)
  <2>1. tx' = [tx EXCEPT ![c] = Idle]
    BY <1>8 DEF CommitCreate, CommitRevoke, CommitReserve, Rollback
  <2>2. tx'[c].asof = Unread /\ \A d \in Connections \ {c} : tx'[d] = tx[d]
    BY <2>1, EndShape, IdleIn
  <2> QED
    BY <2>2
<1> HIDE DEF Honest
<1>9. ASSUME NEW t \in Tenants, NEW a \in Authorities, CreateRoot(t, a)
      PROVE  \A d \in Connections : Honest(d)
  BY <1>1, <1>9 DEF CreateRoot
<1>10. ASSUME Broker PROVE \A d \in Connections : Honest(d)
  BY <1>1, <1>5, <1>10 DEF Broker, AdmitRun, BrokerDispatch, BrokerPrepare
<1>11. ASSUME Tick \/ UNCHANGED vars PROVE \A d \in Connections : Honest(d)
  BY <1>1, <1>11 DEF Tick, vars
<1>12. \A d \in Connections : Honest(d)
  BY <1>3, <1>4, <1>6, <1>7, <1>8, <1>9, <1>10, <1>11 DEF Next, Owner, Transaction
<1> QED
  BY <1>12 DEF Honest

\* What is derived from a grant or charged to it comes from a live chain: a
\* revocation that commits first stops it, although reserve_grant_chain and
\* create_grant decide on copies they read earlier, since the rows stay locked in
\* between; and no grant of the chain had expired at the time the transaction
\* read under those locks, however long before its commit that was.
THEOREM GrantsFromTheLiving == Spec => NothingFromTheDead
<1> DEFINE Pays(g) == \E c \in Connections :
                        tx[c].op = "reserve" /\ tx'[c] = Idle /\ MayUse(c, g)
           Bears(p) == \E c \in Connections :
                         tx[c].op = "create" /\ tx'[c] = Idle /\ MayUse(c, p)
           A == /\ \A g \in GrantIds :
                     grants'[g].used # grants[g].used =>
                       /\ grants'[g].used = grants[g].used + 1
                       /\ Pays(g)
                /\ Len(grants') > Len(grants) =>
                     LET p == grants'[Len(grants')].parent
                     IN p # 0 => Bears(p)
           B == \A c \in Connections :
                  tx'[c].asof \notin {tx[c].asof, Unread} =>
                    /\ tx'[c].asof = now
                    /\ Chain(tx[c].leaf) \subseteq DOMAIN tx[c].seen
<1> DEFINE C == /\ \A g \in GrantIds :
                     grants'[g].used # grants[g].used =>
                       /\ grants'[g].used = grants[g].used + 1
                       /\ Pays(g)
                /\ Len(grants') > Len(grants) =>
                     LET p == grants'[Len(grants')].parent
                     IN p # 0 => Bears(p)
                /\ \A c \in Connections :
                     tx'[c].asof \notin {tx[c].asof, Unread} =>
                       /\ tx'[c].asof = now
                       /\ Chain(tx[c].leaf) \subseteq DOMAIN tx[c].seen
<1>1. GrantInv /\ [Next]_vars => A
  <2> SUFFICES ASSUME GrantInv, [Next]_vars PROVE A
    OBVIOUS
  <2>0. TypeInv /\ ChainInv /\ TxChains /\ LocksInv /\ TableOK /\ ForestInv
    BY DEF GrantInv, TypeInv, ChainInv
  <2>1. ASSUME \A g \in GrantIds : grants'[g].used = grants[g].used,
               Len(grants') = Len(grants)
        PROVE  A
    BY <2>0, <2>1, TableFacts
  <2>2. ASSUME NEW t \in Tenants, NEW b \in Authorities, CreateRoot(t, b) PROVE A
    <3>1. Grown(NewRow(t, 0, 0, b))
      BY <2>0, <2>2, RootShape
    <3>2. grants'[Len(grants')].parent = 0
      BY <3>1 DEF Grown, NewRow
    <3> QED
      BY <3>1, <3>2 DEF Grown
  <2>3. ASSUME NEW c \in Connections, CommitCreate(c) PROVE A
    <3>1. PICK row : row = NewRow(grants[tx[c].leaf].tenant, tx[c].leaf,
                                  Cardinality(DOMAIN tx[c].seen), tx[c].authority)
      OBVIOUS
    <3>2. Grown(row) /\ row.parent = tx[c].leaf /\ tx'[c] = Idle
      BY <2>0, <2>3, <3>1, CreateShape DEF NewRow
    <3>3. /\ DOMAIN tx[c].seen = Chain(tx[c].leaf) /\ tx[c].op = "create"
          /\ tx[c].asof # Unread /\ SeenLive(tx[c].seen, tx[c].asof)
      BY <2>0, <2>3, LoadedChain DEF CommitCreate, ChildAccepted
    <3>4. MayUse(c, tx[c].leaf)
      BY <2>0, <3>3, SeenMayUse
    <3>5. grants'[Len(grants')].parent = tx[c].leaf
      BY <3>2 DEF Grown
    <3>6. Bears(tx[c].leaf)
      BY <3>2, <3>3, <3>4
    <3> HIDE DEF Pays, Bears
    <3> QED
      BY <3>2, <3>5, <3>6 DEF Grown
  <2>4. ASSUME NEW c \in Connections, CommitRevoke(c) PROVE A
    <3>1. /\ tx[c].leaf \in GrantIds /\ Kept
          /\ grants'[tx[c].leaf] = [grants[tx[c].leaf] EXCEPT !.revoked = TRUE]
          /\ \A a \in GrantIds \ {tx[c].leaf} : grants'[a] = grants[a]
      BY <2>0, <2>4, RevokeShape
    <3>2. grants[tx[c].leaf] \in GrantRows
      BY <2>0, <3>1, TableFacts
    <3>3. grants'[tx[c].leaf].used = grants[tx[c].leaf].used
      BY <3>1, <3>2 DEF GrantRows
    <3>4. grants' \in Seq(GrantRows) /\ DOMAIN grants' = DOMAIN grants
      BY <3>1 DEF Kept, TableOK, GrantIds
    <3>5. Len(grants') = Len(grants)
      BY <2>0, <3>4, LenProperties DEF TableOK
    <3> QED
      BY <2>1, <3>1, <3>3, <3>5
  <2>5. ASSUME NEW c \in Connections, CommitReserve(c) PROVE A
    <3>1. /\ Reserved(tx[c].effect[1], tx[c].effect[2], DOMAIN tx[c].seen)
          /\ tx'[c] = Idle
      BY <2>0, <2>5, ReserveShape
    <3>2. /\ tx[c].leaf \in GrantIds /\ DOMAIN tx[c].seen = Chain(tx[c].leaf)
          /\ tx[c].op = "reserve" /\ tx[c].asof # Unread
          /\ SeenLive(tx[c].seen, tx[c].asof)
      BY <2>0, <2>5, LoadedChain DEF CommitReserve, Plan
    <3>3. \A g \in DOMAIN tx[c].seen : Chain(g) \subseteq DOMAIN tx[c].seen
      BY <2>0, <3>2, ChainFacts
    <3>4. \A g \in DOMAIN tx[c].seen : Pays(g)
      BY <2>0, <3>1, <3>2, <3>3, SeenMayUse
    <3>5. \A g \in GrantIds :
            grants'[g].used = IF g \in DOMAIN tx[c].seen THEN grants[g].used + 1
                              ELSE grants[g].used
      BY <3>1 DEF Reserved
    <3>6. grants' \in Seq(GrantRows) /\ DOMAIN grants' = DOMAIN grants
      BY <3>1 DEF Reserved, Kept, TableOK, GrantIds
    <3>7. Len(grants') = Len(grants) /\ Len(grants) \in Nat
      BY <2>0, <3>6, LenProperties DEF TableOK
    <3> HIDE DEF Pays, Bears
    <3> QED
      BY <3>4, <3>5, <3>7
  <2> HIDE DEF A
  <2> QED
    BY <2>1, <2>2, <2>3, <2>4, <2>5
    DEF Next, Owner, Transaction, Broker, vars, BeginRevoke, BeginCreateChild, BeginTx, LockRow,
        ReadClock, Rollback, AdmitRun, BrokerDispatch, BeginReserve, BrokerPrepare, Tick
<1>2. GrantInv /\ [Next]_vars => B
  BY ClockUnderLocks DEF GrantInv
<1>3. A /\ B => C
  OBVIOUS
<1>4. Spec => [][C]_vars
  <2> HIDE DEF A, B, C
  <2> QED
    BY <1>1, <1>2, <1>3, GrantInvHolds, PTL DEF Spec
<1> QED
  BY <1>4 DEF NothingFromTheDead
=============================================================================
