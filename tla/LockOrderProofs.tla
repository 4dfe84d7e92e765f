-------------------------- MODULE LockOrderProofs --------------------------
(***************************************************************************)
(* The order of locks, proved for any number of connections, tenants,      *)
(* grants and runs: what every transaction of LockOrder asks for next      *)
(* comes after what it holds in one strict order of the rows, except when  *)
(* an owner's transaction has locked grants and names the tenant.  In a    *)
(* cycle of waits without such a transaction the rows waited for would     *)
(* grow for ever, which a finite set of connections does not allow.        *)
(***************************************************************************)
EXTENDS LockOrder, FiniteSetTheorems, SequenceTheorems, TLAPS

Rows ==
  {<<"advisory", 0>>, <<"singleton", 0>>} \cup ({"tenant"} \X Tenants)
    \cup ({"run", "effect"} \X Runs) \cup ({"grant"} \X Grants)

Locks == [row : Rows, mode : {"exclusive", "update", "share"}]

\* The kinds of rows, in the order in which the code locks them.
Level(row) ==
  CASE row[1] = "advisory"  -> 0
    [] row[1] = "singleton" -> 1
    [] row[1] = "tenant"    -> 2
    [] row[1] = "run"       -> 3
    [] row[1] = "grant"     -> 4
    [] row[1] = "effect"    -> 5

\* The order of the rows: by kind, and grants from the root down.
Before(x, y) ==
  \/ Level(x) < Level(y)
  \/ x[1] = "grant" /\ y[1] = "grant" /\ Len(Ancestry[x[2]]) < Len(Ancestry[y[2]])

\* A lock that may be asked for while l is held.
MayFollow(l, m) ==
  \/ Before(l.row, m.row)
  \/ l.row[1] = "grant" /\ m.row[1] = "tenant" /\ m.mode = "share"

\* A list of locks in an order that the code keeps to.
Ordered(locks) ==
  /\ locks \in Seq(Locks)
  /\ \A i, j \in 1..Len(locks) : i < j => MayFollow(locks[i], locks[j])

TransactionType == [open : BOOLEAN, held : SUBSET Locks, todo : Seq(Locks)]

\* The inductive invariant.
OrderInv ==
  /\ tx \in [Connections -> TransactionType]
  /\ \A c \in Connections :
       /\ Ordered(tx[c].todo)
       /\ \A l \in tx[c].held : \A i \in 1..Len(tx[c].todo) :
            MayFollow(l, tx[c].todo[i])

(***************************************************************************)
(* The order.                                                              *)
(***************************************************************************)

LEMMA LevelType ==
  ASSUME NEW x \in Rows
  PROVE  /\ Level(x) \in 0..5
         /\ Level(x) = 4 <=> x[1] = "grant"
         /\ Level(x) = 2 <=> x[1] = "tenant"
         /\ x[1] = "grant" => x[2] \in Grants /\ Len(Ancestry[x[2]]) \in Nat
<1>1. x[1] = "grant" => x[2] \in Grants
  BY DEF Rows
<1>2. x[1] = "grant" => Len(Ancestry[x[2]]) \in Nat
  BY <1>1, LockAssumption, LenProperties DEF LockAssumption
<1>3. x[1] \in {"advisory", "singleton", "tenant", "run", "grant", "effect"}
  BY DEF Rows
<1> QED
  BY <1>1, <1>2, <1>3 DEF Level

LEMMA BeforeIsStrict ==
  ASSUME NEW x \in Rows, NEW y \in Rows, NEW z \in Rows
  PROVE  /\ ~Before(x, x)
         /\ Before(x, y) /\ Before(y, z) => Before(x, z)
<1>1. /\ Level(x) \in Int /\ Level(y) \in Int /\ Level(z) \in Int
      /\ x[1] = "grant" <=> Level(x) = 4
      /\ y[1] = "grant" <=> Level(y) = 4
      /\ z[1] = "grant" <=> Level(z) = 4
      /\ x[1] = "grant" => Len(Ancestry[x[2]]) \in Int
      /\ y[1] = "grant" => Len(Ancestry[y[2]]) \in Int
      /\ z[1] = "grant" => Len(Ancestry[z[2]]) \in Int
  BY LevelType
<1> QED
  BY <1>1 DEF Before

(***************************************************************************)
(* The lists of locks.                                                     *)
(***************************************************************************)

LEMMA LockTypes ==
  /\ \A t \in Tenants : Exclusive("tenant", t) \in Locks /\ KeyShare("tenant", t) \in Locks
  /\ \A r \in Runs : /\ Exclusive("run", r) \in Locks /\ Update("run", r) \in Locks
                     /\ Exclusive("effect", r) \in Locks
  /\ \A g \in Grants : Exclusive("grant", g) \in Locks /\ KeyShare("grant", g) \in Locks
  /\ Exclusive("advisory", 0) \in Locks /\ Exclusive("singleton", 0) \in Locks
BY DEF Exclusive, KeyShare, Update, Locks, Rows

LEMMA ConstantTypes ==
  /\ \A g \in Grants : GrantTenant[g] \in Tenants
  /\ \A r \in Runs : RunGrant[r] \in Grants /\ RunTenant(r) \in Tenants
BY LockAssumption DEF LockAssumption, RunTenant

\* One lock is in order.
LEMMA OneOrdered ==
  ASSUME NEW l \in Locks
  PROVE  Ordered(<<l>>) /\ Len(<<l>>) = 1 /\ <<l>>[1] = l
BY DEF Ordered

\* Two lists in order, one after the other.
LEMMA ConcatOrdered ==
  ASSUME NEW s, NEW t, Ordered(s), Ordered(t),
         \A i \in 1..Len(s), j \in 1..Len(t) : MayFollow(s[i], t[j])
  PROVE  Ordered(s \o t)
<1>1. /\ s \in Seq(Locks) /\ t \in Seq(Locks)
      /\ Len(s) \in Nat /\ Len(t) \in Nat
  BY LenProperties DEF Ordered
<1>2. /\ s \o t \in Seq(Locks)
      /\ Len(s \o t) = Len(s) + Len(t)
      /\ \A i \in 1..(Len(s) + Len(t)) :
           (s \o t)[i] = IF i =< Len(s) THEN s[i] ELSE t[i - Len(s)]
  BY <1>1, ConcatProperties
<1>3. ASSUME NEW i \in 1..Len(s \o t), NEW j \in 1..Len(s \o t), i < j
      PROVE  MayFollow((s \o t)[i], (s \o t)[j])
  <2>1. CASE j =< Len(s)
    <3>1. i \in 1..Len(s) /\ j \in 1..Len(s)
      BY <1>1, <1>2, <1>3, <2>1
    <3> QED
      BY <1>2, <1>3, <2>1, <3>1 DEF Ordered
  <2>2. CASE i =< Len(s) /\ j > Len(s)
    <3>1. i \in 1..Len(s) /\ j - Len(s) \in 1..Len(t)
      BY <1>1, <1>2, <2>2
    <3> QED
      BY <1>2, <2>2, <3>1, <1>1
  <2>3. CASE i > Len(s)
    <3>1. /\ i - Len(s) \in 1..Len(t) /\ j - Len(s) \in 1..Len(t)
          /\ i - Len(s) < j - Len(s) /\ ~(i =< Len(s)) /\ ~(j =< Len(s))
      BY <1>1, <1>2, <1>3, <2>3
    <3> QED
      BY <1>2, <3>1 DEF Ordered
  <2> QED
    BY <1>1, <1>2, <1>3, <2>1, <2>2, <2>3
<1> QED
  BY <1>2, <1>3 DEF Ordered

\* The list is in order, and its rows are of the kinds from lo to hi.
Between(locks, lo, hi) ==
  Ordered(locks) /\ \A i \in 1..Len(locks) : Level(locks[i].row) \in lo..hi

\* Lists of rows of growing kinds, one after the other.
LEMMA ConcatBetween ==
  ASSUME NEW a \in Int, NEW b \in Int, NEW c \in Int, NEW d \in Int,
         a =< b, b < c, c =< d,
         NEW s, NEW t, Between(s, a, b), Between(t, c, d)
  PROVE  Between(s \o t, a, d)
<1>1. ASSUME NEW i \in 1..Len(s), NEW j \in 1..Len(t)
      PROVE  MayFollow(s[i], t[j])
  <2>1. Level(s[i].row) \in a..b /\ Level(t[j].row) \in c..d
    BY DEF Between
  <2> QED
    BY <2>1 DEF MayFollow, Before
<1>2. Ordered(s \o t)
  BY <1>1, ConcatOrdered DEF Between
<1>3. s \in Seq(Locks) /\ t \in Seq(Locks) /\ Len(s) \in Nat /\ Len(t) \in Nat
  BY LenProperties DEF Between, Ordered
<1>4. ASSUME NEW i \in 1..Len(s \o t)
      PROVE  Level((s \o t)[i].row) \in a..d
  <2>1. /\ i \in 1..(Len(s) + Len(t))
        /\ (s \o t)[i] = IF i =< Len(s) THEN s[i] ELSE t[i - Len(s)]
    BY <1>3, ConcatProperties
  <2>2. CASE i =< Len(s)
    <3>1. Level(s[i].row) \in a..b
      BY <1>3, <2>1, <2>2 DEF Between
    <3> QED
      BY <2>1, <2>2, <3>1
  <2>3. CASE ~(i =< Len(s))
    <3>1. i - Len(s) \in 1..Len(t)
      BY <1>3, <2>1, <2>3
    <3>2. Level(t[i - Len(s)].row) \in c..d
      BY <3>1 DEF Between
    <3> QED
      BY <2>1, <2>3, <3>2
  <2> QED
    BY <2>2, <2>3
<1> QED
  BY <1>2, <1>4 DEF Between

LEMMA OneBetween ==
  ASSUME NEW l \in Locks
  PROVE  Between(<<l>>, Level(l.row), Level(l.row))
<1>1. l.row \in Rows
  BY DEF Locks
<1> QED
  BY <1>1, LevelType, OneOrdered DEF Between

LEMMA KindLevels ==
  /\ \A t : Level(Exclusive("tenant", t).row) = 2 /\ Level(KeyShare("tenant", t).row) = 2
  /\ \A r : Level(Exclusive("run", r).row) = 3 /\ Level(Update("run", r).row) = 3
  /\ \A r : Level(Exclusive("effect", r).row) = 5
  /\ \A g : Level(Exclusive("grant", g).row) = 4 /\ Level(KeyShare("grant", g).row) = 4
  /\ Level(Exclusive("advisory", 0).row) = 0 /\ Level(Exclusive("singleton", 0).row) = 1
BY DEF Exclusive, KeyShare, Update, Level

\* Two single locks of growing kinds.
LEMMA PairBetween ==
  ASSUME NEW l \in Locks, NEW m \in Locks, Level(l.row) < Level(m.row)
  PROVE  Between(<<l, m>>, Level(l.row), Level(m.row))
<1>1. Level(l.row) \in Int /\ Level(m.row) \in Int
  BY LevelType DEF Locks
<1>2. MayFollow(l, m)
  BY DEF MayFollow, Before
<1>3. <<l, m>> \in Seq(Locks) /\ Len(<<l, m>>) = 2
  OBVIOUS
<1> QED
  BY <1>1, <1>2, <1>3 DEF Between, Ordered

LEMMA SchedulerBetween == Between(Scheduler, 0, 1)
BY LockTypes, KindLevels, PairBetween DEF Scheduler

LEMMA TenantThenRunBetween ==
  ASSUME NEW r \in Runs
  PROVE  Between(TenantThenRun(r), 0, 3)
<1>1. Between(<<Exclusive("tenant", RunTenant(r)), Exclusive("run", r)>>, 2, 3)
  BY LockTypes, ConstantTypes, KindLevels, PairBetween
<1> QED
  BY <1>1, SchedulerBetween, ConcatBetween DEF TenantThenRun

\* load_grant_chain_locked goes down the chain.
LEMMA LoadChainBetween ==
  ASSUME NEW g \in Grants
  PROVE  Between(LoadChain(g), 4, 4)
<1> DEFINE path == Ancestry[g]
<1>1. path \in Seq(Grants) /\ Len(path) \in Nat /\ DOMAIN path = 1..Len(path)
  BY LockAssumption, LenProperties DEF LockAssumption
<1>2. \A i \in 1..Len(path) : path[i] \in Grants
  BY <1>1, ElementOfSeq
<1>3. \A i \in 1..Len(path) : Len(Ancestry[path[i]]) = i
  <2> TAKE i \in 1..Len(path)
  <2>1. Ancestry[path[i]] = SubSeq(path, 1, i)
    BY <1>1, LockAssumption DEF LockAssumption
  <2>2. \A k \in 1..i : path[k] \in Grants
    BY <1>1, <1>2
  <2>3. Len(SubSeq(path, 1, i)) = i
    BY <2>2, <1>1, SubSeqProperties
  <2> QED
    BY <2>1, <2>3
<1>4. LoadChain(g) = [i \in 1..Len(path) |-> Exclusive("grant", path[i])]
  BY <1>1 DEF LoadChain
<1>5. LoadChain(g) \in Seq(Locks) /\ Len(LoadChain(g)) = Len(path)
  BY <1>1, <1>2, <1>4, LockTypes
<1>6. ASSUME NEW i \in 1..Len(path), NEW j \in 1..Len(path), i < j
      PROVE  MayFollow(LoadChain(g)[i], LoadChain(g)[j])
  BY <1>3, <1>4, <1>6 DEF MayFollow, Before, Exclusive
<1>7. \A i \in 1..Len(path) : Level(LoadChain(g)[i].row) = 4
  BY <1>4, KindLevels
<1> HIDE DEF path
<1> QED
  BY <1>5, <1>6, <1>7 DEF Between, Ordered

\* create_grant under a parent and revoke_grant name the tenant at the end.
LEMMA OwnerOrdered ==
  ASSUME NEW g \in Grants
  PROVE  Ordered(LoadChain(g) \o InsertForTenant(g))
<1>1. KeyShare("tenant", GrantTenant[g]) \in Locks
  BY LockTypes, ConstantTypes
<1>2. /\ Ordered(InsertForTenant(g)) /\ Len(InsertForTenant(g)) = 1
      /\ InsertForTenant(g)[1] = KeyShare("tenant", GrantTenant[g])
  BY <1>1, OneOrdered DEF InsertForTenant
<1>3. Ordered(LoadChain(g)) /\ \A i \in 1..Len(LoadChain(g)) : Level(LoadChain(g)[i].row) = 4
  BY LoadChainBetween DEF Between
<1>4. ASSUME NEW i \in 1..Len(LoadChain(g)), NEW j \in 1..Len(InsertForTenant(g))
      PROVE  MayFollow(LoadChain(g)[i], InsertForTenant(g)[j])
  <2>1. LoadChain(g)[i] \in Locks /\ LoadChain(g)[i].row \in Rows
    <3>1. LoadChain(g)[i] \in Locks
      BY <1>3, ElementOfSeq DEF Ordered
    <3> QED
      BY <3>1 DEF Locks
  <2>2. LoadChain(g)[i].row[1] = "grant"
    BY <1>3, <2>1, LevelType
  <2> QED
    BY <1>2, <2>2 DEF MayFollow, KeyShare
<1> QED
  BY <1>2, <1>3, <1>4, ConcatOrdered

(***************************************************************************)
(* The invariant.                                                          *)
(***************************************************************************)

LEMMA BeginOrdered ==
  ASSUME OrderInv, NEW c \in Connections, NEW locks, Ordered(locks), Begin(c, locks)
  PROVE  OrderInv'
<1>1. tx' = [tx EXCEPT ![c] = [open |-> TRUE, held |-> {}, todo |-> locks]]
  BY DEF Begin
<1>2. [open |-> TRUE, held |-> {}, todo |-> locks] \in TransactionType
  BY DEF Ordered, TransactionType
<1>3. tx' \in [Connections -> TransactionType]
  BY <1>1, <1>2 DEF OrderInv
<1>4. ASSUME NEW d \in Connections
      PROVE  /\ Ordered(tx'[d].todo)
             /\ \A l \in tx'[d].held : \A i \in 1..Len(tx'[d].todo) :
                  MayFollow(l, tx'[d].todo[i])
  BY <1>1 DEF OrderInv
<1> QED
  BY <1>3, <1>4 DEF OrderInv, Ordered, MayFollow, Before, Level

LEMMA LockKeepsOrder ==
  ASSUME OrderInv, NEW c \in Connections, Lock(c)
  PROVE  OrderInv'
<1> DEFINE todo == tx[c].todo
<1>1. /\ todo \in Seq(Locks) /\ todo # <<>> /\ tx[c] \in TransactionType
      /\ Ordered(todo)
  BY DEF OrderInv, Lock, TransactionType
<1>2. /\ Head(todo) = todo[1] /\ todo[1] \in Locks /\ Len(todo) \in Nat /\ Len(todo) >= 1
      /\ Tail(todo) \in Seq(Locks) /\ Len(Tail(todo)) = Len(todo) - 1
      /\ \A i \in 1..Len(Tail(todo)) : Tail(todo)[i] = todo[i + 1]
  BY <1>1, HeadTailProperties, EmptySeq, LenProperties
<1>3. tx' = [tx EXCEPT ![c] = [tx[c] EXCEPT !.held = @ \cup {todo[1]}, !.todo = Tail(todo)]]
  BY <1>1, <1>2 DEF OrderInv, Lock
<1>4. /\ tx'[c].held = tx[c].held \cup {todo[1]} /\ tx'[c].todo = Tail(todo)
      /\ \A d \in Connections \ {c} : tx'[d] = tx[d]
      /\ tx' \in [Connections -> TransactionType]
  BY <1>1, <1>2, <1>3 DEF OrderInv, TransactionType
<1>5. Ordered(Tail(todo))
  <2>1. ASSUME NEW i \in 1..Len(Tail(todo)), NEW j \in 1..Len(Tail(todo)), i < j
        PROVE  MayFollow(Tail(todo)[i], Tail(todo)[j])
    <3>1. i + 1 \in 1..Len(todo) /\ j + 1 \in 1..Len(todo) /\ i + 1 < j + 1
      BY <1>2, <2>1
    <3>2. MayFollow(todo[i + 1], todo[j + 1])
      BY <1>1, <3>1 DEF Ordered
    <3> QED
      BY <1>2, <3>2
  <2> QED
    BY <1>2, <2>1 DEF Ordered
<1>6. ASSUME NEW l \in tx[c].held \cup {todo[1]}, NEW i \in 1..Len(Tail(todo))
      PROVE  MayFollow(l, Tail(todo)[i])
  <2>1. i + 1 \in 1..Len(todo) /\ 1 \in 1..Len(todo) /\ 1 < i + 1
    BY <1>2
  <2>2. CASE l \in tx[c].held
    BY <1>2, <2>1, <2>2 DEF OrderInv
  <2>3. CASE l = todo[1]
    BY <1>1, <1>2, <2>1, <2>3 DEF Ordered
  <2> QED
    BY <2>2, <2>3
<1> HIDE DEF todo
<1>7. ASSUME NEW d \in Connections
      PROVE  /\ Ordered(tx'[d].todo)
             /\ \A l \in tx'[d].held : \A i \in 1..Len(tx'[d].todo) :
                  MayFollow(l, tx'[d].todo[i])
  BY <1>4, <1>5, <1>6 DEF OrderInv
<1> QED
  BY <1>4, <1>7 DEF OrderInv, Ordered, MayFollow, Before, Level

LEMMA EndKeepsOrder ==
  ASSUME OrderInv, NEW c \in Connections, End(c)
  PROVE  OrderInv'
<1>1. tx' = [tx EXCEPT ![c] = Idle]
  BY DEF End
<1>2. Idle \in TransactionType /\ Ordered(Idle.todo) /\ Idle.held = {}
  BY DEF Idle, TransactionType, Ordered
<1>3. tx' \in [Connections -> TransactionType]
  BY <1>1, <1>2 DEF OrderInv
<1>4. ASSUME NEW d \in Connections
      PROVE  /\ Ordered(tx'[d].todo)
             /\ \A l \in tx'[d].held : \A i \in 1..Len(tx'[d].todo) :
                  MayFollow(l, tx'[d].todo[i])
  BY <1>1, <1>2 DEF OrderInv
<1> QED
  BY <1>3, <1>4 DEF OrderInv, Ordered, MayFollow, Before, Level

LEMMA RunTransactionOrdered ==
  ASSUME NEW r \in Runs
  PROVE  /\ Ordered(TenantThenRun(r))
         /\ Ordered(TenantThenRun(r) \o LoadChain(RunGrant[r]))
         /\ Ordered(<<Update("run", r)>>)
         /\ Ordered(<<Exclusive("run", r)>>)
         /\ Ordered(<<Exclusive("run", r)>> \o LoadChain(RunGrant[r])
                      \o <<Exclusive("effect", r)>>)
<1>1. RunGrant[r] \in Grants
  BY ConstantTypes
<1>2. Between(TenantThenRun(r) \o LoadChain(RunGrant[r]), 0, 4)
  BY <1>1, TenantThenRunBetween, LoadChainBetween, ConcatBetween
<1>3. /\ Between(<<Exclusive("run", r)>>, 3, 3)
      /\ Between(<<Exclusive("effect", r)>>, 5, 5)
      /\ Between(<<Update("run", r)>>, 3, 3)
  BY LockTypes, KindLevels, OneBetween
<1>4. Between(<<Exclusive("run", r)>> \o LoadChain(RunGrant[r]), 3, 4)
  BY <1>1, <1>3, LoadChainBetween, ConcatBetween
<1>5. Between((<<Exclusive("run", r)>> \o LoadChain(RunGrant[r]))
                 \o <<Exclusive("effect", r)>>, 3, 5)
  BY <1>3, <1>4, ConcatBetween
<1> QED
  BY <1>2, <1>3, <1>5, TenantThenRunBetween DEF Between

LEMMA GrantTransactionOrdered ==
  ASSUME NEW g \in Grants
  PROVE  /\ Ordered(Scheduler \o <<Exclusive("tenant", GrantTenant[g]), KeyShare("grant", g)>>)
         /\ Ordered(LoadChain(g) \o InsertForTenant(g))
         /\ Ordered(LoadChain(g))
<1>1. Between(<<Exclusive("tenant", GrantTenant[g]), KeyShare("grant", g)>>, 2, 4)
  BY LockTypes, ConstantTypes, KindLevels, PairBetween
<1>2. Between(Scheduler \o <<Exclusive("tenant", GrantTenant[g]), KeyShare("grant", g)>>, 0, 4)
  BY <1>1, SchedulerBetween, ConcatBetween
<1> QED
  BY <1>2, OwnerOrdered, LoadChainBetween DEF Between

LEMMA OrderInvariant == Spec => []OrderInv
<1>1. Init => OrderInv
  <2>1. Idle \in TransactionType /\ Ordered(Idle.todo) /\ Idle.held = {}
    BY DEF Idle, TransactionType, Ordered
  <2> QED
    BY <2>1 DEF Init, OrderInv
<1>2. OrderInv /\ [Next]_vars => OrderInv'
  <2> SUFFICES ASSUME OrderInv, [Next]_vars PROVE OrderInv'
    OBVIOUS
  <2>1. CASE UNCHANGED vars
    <3>1. tx' = tx
      BY <2>1 DEF vars
    <3> QED
      BY <3>1 DEF OrderInv
  <2>2. ASSUME NEW c \in Connections, NEW r \in Runs,
               \/ AdmitExisting(c, r) \/ ClaimRun(c, r) \/ ReapOne(c, r)
               \/ FinishRun(c, r) \/ HeartbeatRun(c, r) \/ MarkRunStarted(c, r)
               \/ ReserveGrantChain(c, r)
        PROVE  OrderInv'
    BY <2>2, RunTransactionOrdered, BeginOrdered
    DEF AdmitExisting, ClaimRun, ReapOne, FinishRun, HeartbeatRun, MarkRunStarted,
        ReserveGrantChain
  <2>3. ASSUME NEW c \in Connections, NEW g \in Grants,
               AdmitNew(c, g) \/ CreateChild(c, g) \/ GetGrant(c, g) \/ RevokeGrant(c, g)
        PROVE  OrderInv'
    BY <2>3, GrantTransactionOrdered, BeginOrdered
    DEF AdmitNew, CreateChild, GetGrant, RevokeGrant
  <2>4. ASSUME NEW c \in Connections, NEW t \in Tenants, CreateRoot(c, t) \/ PutModule(c, t)
        PROVE  OrderInv'
    <3>1. Ordered(<<Exclusive("tenant", t)>>) /\ Ordered(<<KeyShare("tenant", t)>>)
      BY LockTypes, OneOrdered
    <3> QED
      BY <2>4, <3>1, BeginOrdered DEF CreateRoot, PutModule
  <2>5. ASSUME NEW c \in Connections, Lock(c) \/ End(c) \/ LockTimeout(c)
        PROVE  OrderInv'
    BY <2>5, LockKeepsOrder, EndKeepsOrder DEF LockTimeout
  <2> QED
    BY <2>1, <2>2, <2>3, <2>4, <2>5 DEF Next
<1> QED
  BY <1>1, <1>2, PTL DEF Spec

(***************************************************************************)
(* Cycles.                                                                 *)
(***************************************************************************)

\* The row that c has to lock next.
NextRow(c) == Head(tx[c].todo).row

\* The others of W that wait for a later row than c.
Later(W, c) == {d \in W : Before(NextRow(c), NextRow(d))}

LEMMA Waiting ==
  ASSUME OrderInv, NEW c \in Connections, NEW d \in Connections, Waits(c, d),
         tx[d].todo # <<>>
  PROVE  /\ Head(tx[c].todo) \in Locks /\ NextRow(c) \in Rows /\ NextRow(d) \in Rows
         /\ \E l \in tx[d].held : /\ l \in Locks /\ Conflict(Head(tx[c].todo), l)
                                  /\ MayFollow(l, Head(tx[d].todo))
<1>1. /\ tx[c].todo \in Seq(Locks) /\ tx[d].todo \in Seq(Locks)
      /\ tx[c].todo # <<>> /\ tx[d].held \subseteq Locks
  BY DEF OrderInv, TransactionType, Waits
<1>2. /\ Head(tx[c].todo) \in Locks /\ Head(tx[d].todo) \in Locks
      /\ Head(tx[d].todo) = tx[d].todo[1] /\ 1 \in 1..Len(tx[d].todo)
  BY <1>1, HeadTailProperties, EmptySeq, LenProperties
<1>3. PICK l \in tx[d].held : Conflict(Head(tx[c].todo), l)
  BY DEF Waits
<1>4. MayFollow(l, Head(tx[d].todo))
  BY <1>2 DEF OrderInv
<1>5. NextRow(c) \in Rows /\ NextRow(d) \in Rows
  BY <1>2 DEF NextRow, Locks
<1> QED
  BY <1>1, <1>2, <1>3, <1>4, <1>5

\* A wait goes to a later row, unless an owner's transaction is waited for.
LEMMA WaitsForLater ==
  ASSUME OrderInv, NEW c \in Connections, NEW d \in Connections, Waits(c, d),
         tx[d].todo # <<>>, ~OwnerWaits(d)
  PROVE  Before(NextRow(c), NextRow(d))
<1>1. PICK l \in tx[d].held : /\ l \in Locks /\ Conflict(Head(tx[c].todo), l)
                              /\ MayFollow(l, Head(tx[d].todo))
  BY Waiting
<1> QED
  BY <1>1 DEF MayFollow, OwnerWaits, Conflict, NextRow

\* Waits that go to ever later rows do not close in a finite set.
LEMMA NoEndlessWaits ==
  ASSUME NEW W, IsFiniteSet(W), W # {}, \A c \in W : NextRow(c) \in Rows
  PROVE  \E c \in W : \A d \in W : ~Before(NextRow(c), NextRow(d))
<1> DEFINE T == {Later(W, c) : c \in W}
<1>1. T \subseteq FiniteSubsetsOf(W)
  BY FS_Subset DEF Later, FiniteSubsetsOf
<1>2. IsWellFoundedOn(StrictSubsetOrdering(W), FiniteSubsetsOf(W))
  BY FS_StrictSubsetOrderingWellFounded
<1>3. T # {}
  OBVIOUS
<1>4. PICK x \in T : \A y \in T : ~(<<y, x>> \in StrictSubsetOrdering(W))
  <2> HIDE DEF T
  <2> QED
    BY <1>1, <1>2, <1>3, WFMin
<1>5. PICK c \in W : x = Later(W, c)
  OBVIOUS
<1>6. ASSUME NEW d \in W, Before(NextRow(c), NextRow(d)) PROVE FALSE
  <2>1. d \in Later(W, c) /\ d \notin Later(W, d)
    BY <1>6, BeforeIsStrict DEF Later
  <2>2. Later(W, d) \subseteq Later(W, c)
    BY <1>6, BeforeIsStrict DEF Later
  <2>3. Later(W, d) \in T /\ Later(W, c) \subseteq W /\ Later(W, d) \subseteq W
    BY DEF Later
  <2> HIDE DEF T
  <2> QED
    BY <1>4, <1>5, <2>1, <2>2, <2>3 DEF StrictSubsetOrdering
<1> QED
  BY <1>6

\* Scheduler lock, tenant, run, grants from the root down: with this order of
\* the store's transactions no set of connections of any size can wait in a
\* circle, except through create_grant under a parent or revoke_grant, whose
\* inserted row names the tenant after the grants are locked, and somebody who
\* holds this tenant.
THEOREM OnlyOwnersDeadlock == Spec => []OnlyOwnerCycles
<1>1. OrderInv => OnlyOwnerCycles
  <2> SUFFICES ASSUME OrderInv, NEW W \in SUBSET Connections, Cycle(W)
               PROVE  (\E c \in W : OwnerWaits(c)) /\ (\E c \in W : HasTenant(c))
    BY DEF OnlyOwnerCycles
  <2>1. /\ W # {} /\ IsFiniteSet(W)
        /\ \A c \in W : tx[c].todo # <<>>
        /\ \A c \in W : NextRow(c) \in Rows
    <3>1. W # {} /\ IsFiniteSet(W)
      BY LockAssumption, FS_Subset DEF LockAssumption, Cycle
    <3>2. \A c \in W : tx[c].todo # <<>>
      BY DEF Cycle, Waits
    <3> QED
      BY <3>1, <3>2, Waiting DEF Cycle
  <2>2. \E c \in W : OwnerWaits(c)
    <3> SUFFICES ASSUME \A c \in W : ~OwnerWaits(c) PROVE FALSE
      OBVIOUS
    <3>1. PICK c \in W : \A d \in W : ~Before(NextRow(c), NextRow(d))
      BY <2>1, NoEndlessWaits
    <3>2. PICK d \in W : Waits(c, d)
      BY DEF Cycle
    <3> QED
      BY <2>1, <3>1, <3>2, WaitsForLater
  <2>3. PICK c \in W : OwnerWaits(c)
    BY <2>2
  <2>4. PICK d \in W : Waits(c, d)
    BY DEF Cycle
  <2>5. Head(tx[c].todo).mode = "share" /\ Head(tx[c].todo).row[1] = "tenant"
    <3>1. PICK l \in tx[c].held : l.row[1] = "grant"
      BY <2>3 DEF OwnerWaits
    <3>2. tx[c].todo \in Seq(Locks) /\ tx[c].todo # <<>> /\ l \in Locks
      BY <2>1, <3>1 DEF OrderInv, TransactionType
    <3>3. Head(tx[c].todo) = tx[c].todo[1] /\ 1 \in 1..Len(tx[c].todo)
      BY <3>2, EmptySeq, HeadTailProperties, LenProperties
    <3>4. MayFollow(l, Head(tx[c].todo))
      BY <3>1, <3>3 DEF OrderInv
    <3>5. Head(tx[c].todo).row[1] = "tenant"
      BY <2>3 DEF OwnerWaits
    <3>6. Level(l.row) = 4 /\ Level(Head(tx[c].todo).row) = 2
      BY <3>1, <3>5 DEF Level
    <3> QED
      BY <3>1, <3>4, <3>5, <3>6 DEF MayFollow, Before
  <2>6. PICK l \in tx[d].held : l \in Locks /\ Conflict(Head(tx[c].todo), l)
    BY <2>1, <2>4, Waiting
  <2>7. l.row[1] = "tenant" /\ l.mode = "exclusive"
    BY <2>5, <2>6 DEF Conflict
  <2> QED
    BY <2>2, <2>7 DEF HasTenant
<1> QED
  BY <1>1, OrderInvariant, PTL
=============================================================================
