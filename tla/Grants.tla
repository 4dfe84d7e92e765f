------------------------------- MODULE Grants -------------------------------
(***************************************************************************)
(* Grants: attenuated authority with a budget of effects, as kept in the   *)
(* grants and effect_reservations tables by create_grant, revoke_grant and *)
(* reserve_grant_chain of crates/store/src/lib.rs, under the rules of      *)
(* crates/domain/src/grants.rs and crates/control/src/grants/mod.rs.       *)
(*                                                                         *)
(* Concurrency.  None of these transactions takes the scheduler's lock.    *)
(* load_grant_chain_locked first reads the ids of a grant and its          *)
(* ancestors, then locks the rows one by one from the root down, keeping   *)
(* what it reads of each; the transaction then reads the database's clock, *)
(* decides on the copies and that time, and commits later.  Beginning,     *)
(* each lock, reading the clock and the commit are separate actions, and a *)
(* transaction may be rolled back anywhere.  get_grant takes the same    *)
(* locks and writes nothing; it is left out.  Who waits for whom is the    *)
(* subject of LockOrder.                                                   *)
(***************************************************************************)
EXTENDS Integers, Sequences, FiniteSets, Domain

CONSTANTS
  Tenants,        \* tenant ids
  Destinations,   \* adapter aliases
  Projects,       \* project aliases
  Adapters,       \* Adapters[d]: the projects the operator configured for d
  Authorities,    \* authorities that owners ask for
  Connections,    \* database connections running grant transactions
  None,           \* no request
  Runs,           \* runs that may be admitted
  Ordinals,       \* positions of a run's effects
  ChainLimit,     \* longest chain of grants: 5 in the code
  MaxBudget,      \* largest max_effects: 100 in the code
  MaxLife,        \* longest time to expiry: 24 hours in the code
  MaxGrants,      \* bound of the model: grants ever created
  MaxTime         \* bound of the model: ticks of the database's clock

AuthorityType == [destinations : SUBSET Destinations, projects : SUBSET Projects,
                  expires : Int, max : Nat]

ASSUME ConstantAssumption ==
  /\ Adapters \in [Destinations -> SUBSET Projects]
  /\ Authorities \subseteq AuthorityType
  /\ None \notin Authorities /\ None \notin Runs \X Ordinals
  /\ IsFiniteSet(Runs) /\ IsFiniteSet(Ordinals)
  /\ ChainLimit \in Nat \ {0} /\ MaxBudget \in Nat /\ MaxLife \in Nat
  /\ MaxGrants \in Nat /\ MaxTime \in Nat

VARIABLES
  grants,     \* the grants table, by creation order; ids are positions
  runGrant,   \* runGrant[r]: the grant a run was admitted with, 0 before
  effects,    \* effects[r][o]: an effect row and its effect_reservations
  tx,         \* tx[c]: the transaction open on a connection
  now         \* the database's clock

vars == <<grants, runGrant, effects, tx, now>>

GrantIds == DOMAIN grants

NoEffect == [state |-> "NONE", destination |-> None, project |-> None,
             charged |-> FALSE, reserved |-> {}]

\* A transaction that has not yet read the clock.
Unread == -1

\* Nothing open.
Idle == [op |-> "idle", leaf |-> 0, todo |-> {}, seen |-> [a \in {} |-> None],
         authority |-> None, effect |-> None, asof |-> Unread]

-----------------------------------------------------------------------------
(* crates/domain/src/grants.rs.                                             *)

ValidateShape(a) ==
  a.max \in 1..MaxBudget /\ a.destinations # {} /\ a.projects # {}

Validate(a, at) == ValidateShape(a) /\ a.expires - at \in 1..MaxLife

\* Mutant: a child may outlive its parent.
AttenuatesScope(a, parent) ==
  /\ a.destinations \subseteq parent.destinations
  /\ a.projects \subseteq parent.projects
  /\ a.max =< parent.max

Attenuates(a, parent) ==
  /\ a.destinations \subseteq parent.destinations
  /\ a.projects \subseteq parent.projects
  /\ a.expires =< parent.expires
  /\ a.max =< parent.max

\* Mutant: every project is taken to be configured for every destination.
PermitsAnyPair(a) == a.projects \subseteq UNION {Adapters[d] : d \in Destinations}

\* Bounds::permits: every destination is configured for every project.
Permits(a) == \A d \in a.destinations : a.projects \subseteq Adapters[d]

-----------------------------------------------------------------------------
(* Chains.                                                                  *)

\* A set of grants that contains the parents of its members.
Closed(S) == \A a \in S : grants[a].parent # 0 => grants[a].parent \in S

\* The recursive query of load_grant_chain_locked: the least closed set that
\* contains the grant.
Chain(g) ==
  {a \in GrantIds : \A S \in SUBSET GrantIds : g \in S /\ Closed(S) => a \in S}

\* validate_chain, the structural part that every load repeats on the rows
\* it has locked.
StructureOK(C) ==
  /\ Cardinality(C) \in 1..ChainLimit
  /\ \A a, b \in C : grants[a].depth = grants[b].depth => a = b
  /\ \A a \in C :
       /\ \A b \in C : grants[a].tenant = grants[b].tenant
       /\ IF grants[a].parent = 0 THEN grants[a].depth = 0
          ELSE LET p == grants[a].parent
               IN /\ p \in C /\ grants[a].depth = grants[p].depth + 1
                  /\ Attenuates(grants[a].authority, grants[p].authority)
       /\ grants[a].used =< grants[a].authority.max

\* validate_chain, the part about time and revocation, on the locked copies
\* and the time that was read.
SeenLive(seen, at) ==
  \A a \in DOMAIN seen : ~seen[a].revoked /\ grants[a].authority.expires > at

-----------------------------------------------------------------------------
(* Transactions.                                                            *)

Insert(t, parent, depth, a) ==
  grants' = Append(grants, [tenant |-> t, parent |-> parent, depth |-> depth,
                            authority |-> a, used |-> 0,
                            revoked |-> FALSE])

\* create_grant without a parent.  The tenant's row is locked, and nothing else
\* is read but the clock, at some time before the commit.
CreateRoot(t, a) ==
  /\ Permits(a)
  /\ \E at \in 0..now : Validate(a, at)
  /\ Len(grants) < MaxGrants
  /\ Insert(t, 0, 0, a)
  /\ UNCHANGED <<runGrant, effects, tx, now>>

\* load_grant_chain_locked, its first query: the ids are known, no row is
\* locked yet.
BeginTx(c, op, g, authority, effect) ==
  /\ tx[c] = Idle
  /\ Cardinality(Chain(g)) =< ChainLimit
  /\ tx' = [tx EXCEPT ![c] = [Idle EXCEPT !.op = op, !.leaf = g,
                                          !.todo = Chain(g),
                                          !.authority = authority,
                                          !.effect = effect]]
  /\ UNCHANGED <<grants, runGrant, effects, now>>

\* The request has been normalized by the control plane.
BeginCreateChild(c, g, a) ==
  /\ ValidateShape(a) /\ Permits(a)
  /\ BeginTx(c, "create", g, a, None)

BeginRevoke(c, g) == BeginTx(c, "revoke", g, None, None)

\* No open transaction has locked the run's row.
RunUnlocked(r) ==
  \A d \in Connections : tx[d].op = "reserve" => tx[d].effect[1] # r

\* reserve_grant_chain locks the run's row first.
BeginReserve(c, r, o) ==
  /\ runGrant[r] # 0 /\ RunUnlocked(r)
  /\ BeginTx(c, "reserve", runGrant[r], None, <<r, o>>)

\* Mutant: the row is read without FOR UPDATE.
AlwaysFree(g) == TRUE

\* No open transaction has locked the row.
RowFree(g) == \A d \in Connections : g \notin DOMAIN tx[d].seen

\* Rows are locked in the order of their depth.
LockedNext(g, todo) ==
  g \in todo /\ \A a \in todo : grants[g].depth =< grants[a].depth

\* SELECT ... FOR UPDATE of the next row; what may change of it is copied.
LockRow(c) ==
  /\ \E g \in tx[c].todo :
       /\ LockedNext(g, tx[c].todo) /\ RowFree(g)
       /\ tx' = [tx EXCEPT
            ![c].todo = @ \ {g},
            ![c].seen = [a \in DOMAIN @ \cup {g} |->
                           IF a = g THEN [used |-> grants[g].used,
                                          revoked |-> grants[g].revoked]
                           ELSE @[a]]]
  /\ UNCHANGED <<grants, runGrant, effects, now>>

\* The whole chain is locked and validated as a structure.
Loaded(c) ==
  tx[c].op # "idle" /\ tx[c].todo = {} /\ StructureOK(DOMAIN tx[c].seen)

\* create_grant and reserve_grant_chain read the database's clock once, with
\* the whole chain locked.
ReadClock(c) ==
  /\ tx[c].op \in {"create", "reserve"} /\ Loaded(c) /\ tx[c].asof = Unread
  /\ tx' = [tx EXCEPT ![c].asof = now]
  /\ UNCHANGED <<grants, runGrant, effects, now>>

\* Mutant: the limit on the chain is off by one.
ChildAcceptedDeep(c) ==
  /\ Validate(tx[c].authority, tx[c].asof)
  /\ SeenLive(tx[c].seen, tx[c].asof)
  /\ Cardinality(DOMAIN tx[c].seen) =< ChainLimit
  /\ \A g \in DOMAIN tx[c].seen : Attenuates(tx[c].authority, grants[g].authority)

\* validate_child, on the ancestry just loaded.
ChildAccepted(c) ==
  LET a == tx[c].authority
      seen == tx[c].seen
  IN /\ Validate(a, tx[c].asof)
     /\ SeenLive(seen, tx[c].asof)
     /\ Cardinality(DOMAIN seen) < ChainLimit
     /\ \A g \in DOMAIN seen : Attenuates(a, grants[g].authority)

\* The child is inserted and the transaction commits, some time after it read
\* the clock.
CommitCreate(c) ==
  /\ tx[c].op = "create" /\ Loaded(c) /\ tx[c].asof # Unread
  /\ ChildAccepted(c)
  /\ Len(grants) < MaxGrants
  /\ Insert(grants[tx[c].leaf].tenant, tx[c].leaf,
            Cardinality(DOMAIN tx[c].seen), tx[c].authority)
  /\ tx' = [tx EXCEPT ![c] = Idle]
  /\ UNCHANGED <<runGrant, effects, now>>

CommitRevoke(c) ==
  /\ tx[c].op = "revoke" /\ Loaded(c)
  /\ grants' = [grants EXCEPT ![tx[c].leaf].revoked = TRUE]
  /\ tx' = [tx EXCEPT ![c] = Idle]
  /\ UNCHANGED <<runGrant, effects, now>>

EffectOf(c) == effects[tx[c].effect[1]][tx[c].effect[2]]

\* Mutant: only the run's own grant is asked for budget.
PlanLeafBudget(seen, leaf, e, at) ==
  /\ SeenLive(seen, at)
  /\ \A g \in DOMAIN seen : /\ e.destination \in grants[g].authority.destinations
                            /\ e.project \in grants[g].authority.projects
  /\ seen[leaf].used < grants[leaf].authority.max

\* reservation_plan: the chain was live at the time read, and every grant of it
\* allows the effect and has budget left.
Plan(seen, leaf, e, at) ==
  /\ SeenLive(seen, at)
  /\ \A g \in DOMAIN seen : /\ e.destination \in grants[g].authority.destinations
                            /\ e.project \in grants[g].authority.projects
                            /\ seen[g].used < grants[g].authority.max

\* Mutant: the budget of the run's own grant is all that is charged.
ChargedLeaf(g, c) == g = tx[c].leaf

\* Every grant of the chain is charged.
Charged(g, c) == g \in DOMAIN tx[c].seen

\* A prepared effect with no reservation charges each grant of the chain once.
\* The update of a grant also insists on the count the plan was made from.  The
\* commit is the caller's, some time after the clock was read.
CommitReserve(c) ==
  LET e == EffectOf(c)
      seen == tx[c].seen
  IN /\ tx[c].op = "reserve" /\ Loaded(c) /\ tx[c].asof # Unread
     /\ e.reserved = {} /\ ~e.charged /\ e.state = "PREPARED"
     /\ Plan(seen, tx[c].leaf, e, tx[c].asof)
     /\ \A g \in DOMAIN seen : grants[g].used = seen[g].used
     /\ grants' = [g \in GrantIds |->
                     IF Charged(g, c) THEN [grants[g] EXCEPT !.used = @ + 1]
                     ELSE grants[g]]
     /\ effects' = [effects EXCEPT ![tx[c].effect[1]][tx[c].effect[2]] =
                      [e EXCEPT !.charged = TRUE, !.reserved = DOMAIN seen]]
     /\ tx' = [tx EXCEPT ![c] = Idle]
     /\ UNCHANGED <<runGrant, now>>

\* The transaction ends without a change: an existing reservation is found
\* again, the request is refused, or the connection is lost.
Rollback(c) ==
  /\ tx[c].op # "idle"
  /\ tx' = [tx EXCEPT ![c] = Idle]
  /\ UNCHANGED <<grants, runGrant, effects, now>>

-----------------------------------------------------------------------------
(* What surrounds the grants: admission of runs (module Scheduler), the     *)
(* effect broker, which is not in the repository, and the clock.            *)

\* admit_run asks that the run's own grant be live.
AdmitRun(r, g) ==
  /\ runGrant[r] = 0
  /\ ~grants[g].revoked /\ grants[g].authority.expires > now
  /\ runGrant' = [runGrant EXCEPT ![r] = g]
  /\ UNCHANGED <<grants, effects, tx, now>>

\* The broker records an effect the program asks for, whatever it names.
BrokerPrepare(r, o, d, p) ==
  /\ runGrant[r] # 0 /\ RunUnlocked(r) /\ effects[r][o].state = "NONE"
  /\ effects' = [effects EXCEPT ![r][o] =
                   [NoEffect EXCEPT !.state = "PREPARED", !.destination = d,
                                    !.project = p]]
  /\ UNCHANGED <<grants, runGrant, tx, now>>

\* The broker puts a charged effect on the wire; a retry may ask for its
\* reservation again.
BrokerDispatch(r, o) ==
  /\ RunUnlocked(r) /\ effects[r][o].charged
  /\ EffectTransition(effects[r][o].state, "DISPATCHING", FALSE, FALSE)
  /\ effects' = [effects EXCEPT ![r][o].state = "DISPATCHING"]
  /\ UNCHANGED <<grants, runGrant, tx, now>>

Tick ==
  /\ now < MaxTime
  /\ now' = now + 1
  /\ UNCHANGED <<grants, runGrant, effects, tx>>

Init ==
  /\ grants = <<>>
  /\ runGrant = [r \in Runs |-> 0]
  /\ effects = [r \in Runs |-> [o \in Ordinals |-> NoEffect]]
  /\ tx = [c \in Connections |-> Idle]
  /\ now = 0

Owner ==
  \/ \E t \in Tenants, a \in Authorities : CreateRoot(t, a)
  \/ \E c \in Connections, g \in GrantIds :
       BeginRevoke(c, g) \/ \E a \in Authorities : BeginCreateChild(c, g, a)

Transaction(c) ==
  LockRow(c) \/ ReadClock(c) \/ CommitCreate(c) \/ CommitRevoke(c) \/ CommitReserve(c)

Broker ==
  \E r \in Runs :
    \/ \E g \in GrantIds : AdmitRun(r, g)
    \/ \E o \in Ordinals :
         \/ BrokerDispatch(r, o)
         \/ \E c \in Connections : BeginReserve(c, r, o)
         \/ \E d \in Destinations, p \in Projects : BrokerPrepare(r, o, d, p)

Next ==
  \/ Owner
  \/ \E c \in Connections : Transaction(c) \/ Rollback(c)
  \/ Broker
  \/ Tick

Spec == Init /\ [][Next]_vars

-----------------------------------------------------------------------------
(* Safety.                                                                  *)

GrantRows == [tenant : Tenants, parent : Nat, depth : Nat,
              authority : AuthorityType, used : Nat, revoked : BOOLEAN]
EffectRows == [state : EffectStates \cup {"NONE"},
               destination : Destinations \cup {None},
               project : Projects \cup {None},
               charged : BOOLEAN, reserved : SUBSET GrantIds]
Copies == [used : Nat, revoked : BOOLEAN]
Transactions(locked) ==
  [op : {"idle", "create", "revoke", "reserve"}, leaf : GrantIds \cup {0},
   todo : SUBSET GrantIds, seen : [locked -> Copies],
   authority : Authorities \cup {None}, effect : (Runs \X Ordinals) \cup {None},
   asof : Nat \cup {Unread}]

\* Every column has its type, and the CHECK constraints of the schema hold:
\* no grant is charged beyond max_effects.
GrantTypeOK ==
  /\ grants \in Seq(GrantRows) /\ Len(grants) =< MaxGrants
  /\ \A g \in GrantIds : grants[g].used =< grants[g].authority.max
  /\ runGrant \in [Runs -> GrantIds \cup {0}]
  /\ effects \in [Runs -> [Ordinals -> EffectRows]]
  /\ tx = [c \in Connections |-> tx[c]]
  /\ \A c \in Connections :
       LET locked == DOMAIN tx[c].seen
       IN locked \subseteq GrantIds /\ tx[c] \in Transactions(locked)
  /\ now \in 0..MaxTime

\* load_grant_chain_locked never refuses a grant that create_grant stored:
\* its chain has the depths 0, 1, ... of one tenant, is within the limit, and
\* authority only shrinks along it.
ChainsLoad == \A g \in GrantIds : StructureOK(Chain(g))

\* No grant has wider authority than any of its ancestors, however far up; in
\* particular it never outlives one, which Scheduler assumes.
NoEscalation ==
  \A g \in GrantIds : \A a \in Chain(g) :
    LET mine == grants[g].authority
        above == grants[a].authority
    IN /\ mine.destinations \subseteq above.destinations
       /\ mine.projects \subseteq above.projects
       /\ mine.max =< above.max /\ mine.expires =< above.expires

\* A reservation is all or nothing and happens once: an effect has reserved
\* either no grant or its run's whole chain, and the count of a grant is the
\* number of effects that reserved it.
BudgetExact ==
  /\ \A r \in Runs, o \in Ordinals :
       LET e == effects[r][o]
       IN /\ e.charged <=> e.reserved # {}
          /\ e.charged => e.reserved = Chain(runGrant[r])
  /\ \A g \in GrantIds :
       grants[g].used =
         Cardinality({p \in Runs \X Ordinals : g \in effects[p[1]][p[2]].reserved})

\* Only a project the operator configured for a destination is ever paid for.
WithinConfiguration ==
  \A r \in Runs, o \in Ordinals :
    effects[r][o].charged =>
      effects[r][o].project \in Adapters[effects[r][o].destination]

-----------------------------------------------------------------------------
(* What a step may do.                                                      *)

\* The open transaction of c may act on g: it has locked g and all its
\* ancestors, none of them is revoked, and all were unexpired when it read the
\* clock.
MayUse(c, g) ==
  /\ tx[c].asof # Unread
  /\ \A a \in Chain(g) : /\ a \in DOMAIN tx[c].seen
                         /\ ~grants[a].revoked
                         /\ grants[a].authority.expires > tx[c].asof

\* Authority that is revoked or expired has no successors.  A grant is charged,
\* or gets a child, only at the commit of a transaction that holds the locks of
\* the grant and all its ancestors: none of them is revoked at that moment,
\* although their rows were read one by one and earlier, and none had expired
\* at the one time, read under those locks, that the transaction goes by.
NothingFromTheDead ==
  [][/\ \A g \in GrantIds :
          grants'[g].used # grants[g].used =>
            /\ grants'[g].used = grants[g].used + 1
            /\ \E c \in Connections : tx[c].op = "reserve" /\ tx'[c] = Idle /\ MayUse(c, g)
     /\ Len(grants') > Len(grants) =>
          LET p == grants'[Len(grants')].parent
          IN p # 0 => \E c \in Connections :
                        tx[c].op = "create" /\ tx'[c] = Idle /\ MayUse(c, p)
     /\ \A c \in Connections :
          tx'[c].asof \notin {tx[c].asof, Unread} =>
            /\ tx'[c].asof = now
            /\ Chain(tx[c].leaf) \subseteq DOMAIN tx[c].seen]_vars
=============================================================================
