---------------------------- MODULE ControlProofs ----------------------------
(***************************************************************************)
(* The control daemon, proved: the bounds of the configuration, the        *)
(* verdict of the module check, and the separation of tenants, for any     *)
(* configurations, modules, principal files and tables.                    *)
(***************************************************************************)
EXTENDS Control, FiniteSetTheorems, SequenceTheorems, TLAPS

(***************************************************************************)
(* The configuration.                                                      *)
(***************************************************************************)

LEMMA Limits ==
  ASSUME NEW cfg \in ConfigRecords, ConfigValid(cfg)
  PROVE  /\ cfg.max_active_global \in 1..4 /\ cfg.max_active_per_tenant \in 1..1
         /\ cfg.max_attempts \in 1..3 /\ cfg.lease_ms \in 1..6000
         /\ cfg.max_pending_global \in 1..1000 /\ cfg.max_pending_per_tenant \in 1..100
         /\ PutModuleAccepts(cfg)
<1>1. /\ cfg.max_active_global \in 1..Ceiling.max_active_global
      /\ cfg.max_active_per_tenant \in 1..Ceiling.max_active_per_tenant
      /\ cfg.max_attempts \in 1..Ceiling.max_attempts
      /\ cfg.lease_ms \in 1..Ceiling.lease_ms
      /\ cfg.max_pending_global \in 1..Ceiling.max_pending_global
      /\ cfg.max_pending_per_tenant \in 1..Ceiling.max_pending_per_tenant
      /\ cfg.max_module_bytes \in 1..Ceiling.max_module_bytes
  BY SMT DEF ConfigValid, Ceiling
<1>2. /\ Ceiling.max_active_global = 4 /\ Ceiling.max_active_per_tenant = 1
      /\ Ceiling.max_attempts = 3 /\ Ceiling.lease_ms = 6000
      /\ Ceiling.max_pending_global = 1000 /\ Ceiling.max_pending_per_tenant = 100
  BY SMT DEF Ceiling
<1>3. Ceiling.max_module_bytes = 2097152
  BY SMT DEF Ceiling
<1>4. PutModuleAccepts(cfg)
  <2>1. cfg.max_module_bytes \in Nat /\ cfg.max_module_bytes =< Ceiling.max_module_bytes
    BY SMT, <1>1
  <2>2. 2 * 1024 * 1024 = 2097152
    BY SMT
  <2>3. PutModuleAccepts(cfg) <=> cfg.max_module_bytes =< 2 * 1024 * 1024
    BY SMT DEF PutModuleAccepts
  <2> QED
    BY SMT, <1>3, <2>1, <2>2, <2>3
<1> QED
  BY SMT, <1>1, <1>2, <1>4

LEMMA Elements ==
  ASSUME NEW S, NEW q \in Seq(S)
  PROVE  DOMAIN q = 1..Len(q) /\ Len(q) \in Nat /\ \A k \in DOMAIN q : q[k] \in S
  OBVIOUS

\* What Config::validate accepts, the store accepts, unchanged by the cast to
\* eight bits.
LEMMA AcceptedSuits ==
  ASSUME NEW cfg \in ConfigRecords, ConfigValid(cfg)
  PROVE  Suits(cfg)
<1> DEFINE p == Policy(cfg)
<1>1. /\ cfg.max_active_global \in 1..4 /\ cfg.max_active_per_tenant = 1
      /\ cfg.max_attempts \in 1..3 /\ cfg.lease_ms \in 1..6000
      /\ cfg.max_pending_global \in 1..1000 /\ cfg.max_pending_per_tenant \in 1..100
      /\ cfg.heartbeat_ms < cfg.lease_ms
      /\ cfg.max_pending_per_tenant =< cfg.max_pending_global
  BY SMT, Limits DEF ConfigValid
<1>2. AsU8(cfg.max_active_global) = cfg.max_active_global
      /\ AsU8(cfg.max_active_per_tenant) = cfg.max_active_per_tenant
      /\ AsU8(cfg.max_attempts) = cfg.max_attempts
  BY SMT, <1>1 DEF AsU8
<1>3. /\ p.max_active_global = cfg.max_active_global
      /\ p.max_active_per_tenant = cfg.max_active_per_tenant
      /\ p.max_attempts = cfg.max_attempts /\ p.lease_ms = cfg.lease_ms
      /\ p.max_pending_global = cfg.max_pending_global
      /\ p.max_pending_per_tenant = cfg.max_pending_per_tenant
      /\ DOMAIN p = {"max_active_global", "max_active_per_tenant", "max_attempts",
                     "lease_ms", "max_pending_global", "max_pending_per_tenant"}
  BY <1>2 DEF Policy
<1> HIDE DEF p
<1>4. AdmitAccepts(p) /\ ClaimAccepts(p) /\ ReapAccepts(p)
  BY SMT, <1>1, <1>3 DEF AdmitAccepts, ClaimAccepts, ReapAccepts
<1>5. PutModuleAccepts(cfg)
  BY Limits
<1>6. \A field \in DOMAIN p : p[field] = cfg[field]
  BY <1>3
<1>7. \A a \in Range(cfg.adapters) : a.retry_horizon_seconds =< a.retention_seconds
  <2> SUFFICES ASSUME NEW a \in Range(cfg.adapters)
               PROVE  a.retry_horizon_seconds =< a.retention_seconds
    OBVIOUS
  <2>1. AdapterOK(a)
    BY DEF ConfigValid
  <2>2. a.retry_horizon_seconds \in Nat /\ a.retention_seconds \in Nat
    <3>1. cfg.adapters \in Seq(Adapters)
      BY DEF ConfigRecords
    <3>2. a \in Adapters
      BY <3>1, Elements DEF Range
    <3> QED
      BY <3>2 DEF Adapters
  <2> QED
    BY SMT, <2>1, <2>2 DEF AdapterOK
<1> QED
  BY <1>1, <1>3, <1>4, <1>5, <1>6, <1>7 DEF Suits, p

\* A configuration that the daemon starts with is never refused by the store
\* with Error::Configuration, whatever numbers the operator wrote.
THEOREM StartedConfigSuits == Spec => []ConfigSuitsStore
<1>1. ConfigSuitsStore
  BY AcceptedSuits, ControlAssumption DEF ConfigSuitsStore, AcceptedSuit
<1> QED
  BY <1>1, PTL

(***************************************************************************)
(* The module check.                                                       *)
(***************************************************************************)

HostNames == {h[1] : h \in HostFunctions}

LEMMA FiveElements ==
  ASSUME NEW a, NEW b, NEW c, NEW d, NEW e,
         a # b, a # c, a # d, a # e, b # c, b # d, b # e, c # d, c # e, d # e
  PROVE  IsFiniteSet({a, b, c, d, e}) /\ Cardinality({a, b, c, d, e}) = 5
<1>1. IsFiniteSet({}) /\ Cardinality({}) = 0
  BY FS_EmptySet
<1>2. IsFiniteSet({} \cup {a}) /\ Cardinality({} \cup {a}) = 1
  BY <1>1, FS_AddElement
<1>3. /\ IsFiniteSet(({} \cup {a}) \cup {b})
      /\ Cardinality(({} \cup {a}) \cup {b}) = 2
  BY <1>2, FS_AddElement
<1>4. /\ IsFiniteSet({a, b} \cup {c})
      /\ Cardinality({a, b} \cup {c}) = 3
  <2>1. ({} \cup {a}) \cup {b} = {a, b}
    OBVIOUS
  <2> QED
    BY <1>3, <2>1, FS_AddElement
<1>5. /\ IsFiniteSet({a, b, c} \cup {d})
      /\ Cardinality({a, b, c} \cup {d}) = 4
  <2>1. {a, b} \cup {c} = {a, b, c}
    OBVIOUS
  <2> QED
    BY <1>4, <2>1, FS_AddElement
<1>6. /\ IsFiniteSet({a, b, c, d} \cup {e})
      /\ Cardinality({a, b, c, d} \cup {e}) = 5
  <2>1. {a, b, c} \cup {d} = {a, b, c, d}
    OBVIOUS
  <2> QED
    BY <1>5, <2>1, FS_AddElement
<1>7. {a, b, c, d} \cup {e} = {a, b, c, d, e}
  OBVIOUS
<1> QED
  BY <1>6, <1>7

LEMMA FiveHostFunctions ==
  /\ Cardinality(HostFunctions) = 5
  /\ HostNames = {"input_len", "input_read", "output_write", "log", "effect_call"}
  /\ IsFiniteSet(HostNames) /\ Cardinality(HostNames) = 5
<1>1. HostNames = {"input_len", "input_read", "output_write", "log", "effect_call"}
  BY DEF HostNames, HostFunctions
<1>2. Cardinality(HostFunctions) = 5
  <2> DEFINE a == <<"input_len", 0>>
             b == <<"input_read", 2>>
             c == <<"output_write", 2>>
             d == <<"log", 2>>
             e == <<"effect_call", 4>>
  <2>1. /\ a # b /\ a # c /\ a # d /\ a # e /\ b # c /\ b # d /\ b # e
        /\ c # d /\ c # e /\ d # e
    OBVIOUS
  <2>2. HostFunctions = {a, b, c, d, e}
    BY DEF HostFunctions
  <2> HIDE DEF a, b, c, d, e
  <2>3. Cardinality({a, b, c, d, e}) = 5
    BY <2>1, FiveElements, Zenon
  <2> QED
    BY <2>2, <2>3
<1>3. IsFiniteSet(HostNames) /\ Cardinality(HostNames) = 5
  <2> DEFINE a == "input_len"
             b == "input_read"
             c == "output_write"
             d == "log"
             e == "effect_call"
  <2>1. /\ a # b /\ a # c /\ a # d /\ a # e /\ b # c /\ b # d /\ b # e
        /\ c # d /\ c # e /\ d # e
    OBVIOUS
  <2>2. HostNames = {a, b, c, d, e}
    BY <1>1
  <2> HIDE DEF a, b, c, d, e
  <2>3. IsFiniteSet({a, b, c, d, e}) /\ Cardinality({a, b, c, d, e}) = 5
    BY <2>1, FiveElements, Zenon
  <2> QED
    BY <2>2, <2>3
<1> QED
  BY <1>1, <1>2, <1>3

\* The table of validate.rs and the functions that abi.rs installs agree.
LEMMA HostSignature ==
  ASSUME NEW name, NEW sig
  PROVE  name \in DOMAIN Expected /\ sig = Expected[name]
           <=> \E h \in HostFunctions : name = h[1] /\ sig = <<h[2], 1>>
<1>1. DOMAIN Expected = HostNames
  BY FiveHostFunctions DEF Expected
<1>2. /\ Expected["input_len"] = <<0, 1>> /\ Expected["input_read"] = <<2, 1>>
      /\ Expected["output_write"] = <<2, 1>> /\ Expected["log"] = <<2, 1>>
      /\ Expected["effect_call"] = <<4, 1>>
  BY DEF Expected
<1>3. (\E h \in HostFunctions : name = h[1] /\ sig = <<h[2], 1>>)
        <=> \/ name = "input_len" /\ sig = <<0, 1>>
            \/ name = "input_read" /\ sig = <<2, 1>>
            \/ name = "output_write" /\ sig = <<2, 1>>
            \/ name = "log" /\ sig = <<2, 1>>
            \/ name = "effect_call" /\ sig = <<4, 1>>
  BY DEF HostFunctions
<1> QED
  BY <1>1, <1>2, <1>3, FiveHostFunctions

LEMMA ImportOfModule ==
  ASSUME NEW m \in ModuleRecords
  PROVE  /\ DOMAIN m.imports = 1..Len(m.imports) /\ Len(m.imports) \in Nat
         /\ DOMAIN m.functions = 1..Len(m.functions) /\ Len(m.functions) \in Nat
         /\ DOMAIN m.memories = 1..Len(m.memories) /\ Len(m.memories) \in Nat
         /\ DOMAIN m.exports = 1..Len(m.exports) /\ Len(m.exports) \in Nat
         /\ \A k \in DOMAIN m.imports :
              m.imports[k].type \in Nat /\ m.imports[k].name \in STRING
         /\ \A k \in DOMAIN m.functions : m.functions[k] \in Nat
         /\ \A k \in DOMAIN m.exports : m.exports[k].index \in Nat
<1>1. /\ m.imports \in Seq([module : STRING, name : STRING, kind : Kinds, type : Nat])
      /\ m.functions \in Seq(Nat)
      /\ m.memories \in Seq([initial : Nat, maximum : Nat, plain : BOOLEAN])
      /\ m.exports \in Seq([name : STRING, kind : Kinds, index : Nat])
  BY DEF ModuleRecords
<1>2. \A k \in DOMAIN m.imports :
        m.imports[k] \in [module : STRING, name : STRING, kind : Kinds, type : Nat]
  BY <1>1, Elements
<1>3. \A k \in DOMAIN m.exports :
        m.exports[k] \in [name : STRING, kind : Kinds, index : Nat]
  BY <1>1, Elements
<1>4. \A k \in DOMAIN m.functions : m.functions[k] \in Nat
  BY <1>1
<1> QED
  BY <1>1, <1>2, <1>3, <1>4

\* A function of the module's own has its number in the space of all functions.
LEMMA OwnFunctionIndex ==
  ASSUME NEW m \in ModuleRecords
  PROVE  /\ DOMAIN FunctionSpace(m) = 1..(Len(m.imports) + Len(m.functions))
         /\ \A k \in 1..(Len(m.imports) + Len(m.functions)) :
              k > Len(m.imports) => FunctionSpace(m)[k] = m.functions[k - Len(m.imports)]
<1> DEFINE imported == [i \in DOMAIN m.imports |-> m.imports[i].type]
<1>1. /\ imported \in [1..Len(m.imports) -> Nat] /\ Len(m.imports) \in Nat
      /\ m.functions \in Seq(Nat) /\ Len(m.functions) \in Nat
  BY ImportOfModule DEF ModuleRecords
<1> HIDE DEF imported
<1>2. imported \in Seq(Nat) /\ Len(imported) = Len(m.imports)
  BY <1>1
<1> DEFINE space == imported \o m.functions
<1>3. FunctionSpace(m) = space
  BY DEF FunctionSpace, imported
<1>4. /\ space \in Seq(Nat)
      /\ Len(space) = Len(imported) + Len(m.functions)
      /\ \A k \in 1..(Len(imported) + Len(m.functions)) :
           space[k]
             = IF k =< Len(imported) THEN imported[k] ELSE m.functions[k - Len(imported)]
  BY <1>1, <1>2, ConcatProperties
<1> HIDE DEF space
<1>5. DOMAIN space = 1..Len(space)
  BY <1>4, Elements
<1> DEFINE i == Len(m.imports)
           f == Len(m.functions)
<1>6. DOMAIN space = 1..(i + f)
  BY <1>2, <1>4, <1>5
<1>7. ASSUME NEW k \in 1..(i + f), k > i PROVE space[k] = m.functions[k - i]
  <2>1. i \in Nat /\ f \in Nat /\ Len(imported) = i /\ Len(m.functions) = f
    BY <1>1, <1>2
  <2>2. space[k] = IF k =< i THEN imported[k] ELSE m.functions[k - i]
    BY <1>4, <2>1
  <2> HIDE DEF i, f
  <2>3. ~ k =< i
    BY <1>7, <2>1
  <2> QED
    BY <2>2, <2>3
<1> QED
  BY <1>3, <1>6, <1>7

LEMMA ImportCount ==
  ASSUME NEW m \in ModuleRecords
  PROVE  IsFiniteSet(DOMAIN m.imports) /\ Cardinality(DOMAIN m.imports) = Len(m.imports)
<1> DEFINE n == Len(m.imports)
<1>1. n \in Nat /\ DOMAIN m.imports = 1..n
  BY ImportOfModule
<1> HIDE DEF n
<1>2. IsFiniteSet(1..n) /\ Cardinality(1..n) = n
  BY <1>1, FS_Interval
<1> QED
  BY <1>1, <1>2 DEF n

\* Five imports name the five host functions exactly if no name is repeated.
LEMMA NamesOnce ==
  ASSUME NEW m \in ModuleRecords, Len(m.imports) = 5,
         \A i \in Range(m.imports) : i.name \in HostNames
  PROVE  IsInjective([k \in DOMAIN m.imports |-> m.imports[k].name])
           <=> {i.name : i \in Range(m.imports)} = HostNames
<1> DEFINE f == [k \in DOMAIN m.imports |-> m.imports[k].name]
           D == DOMAIN m.imports
<1>1. IsFiniteSet(D) /\ Cardinality(D) = 5
  BY ImportCount
<1>2. f \in [D -> HostNames] /\ \A k \in D : f[k] = m.imports[k].name
  <2>1. \A k \in D : m.imports[k] \in Range(m.imports)
    BY DEF Range
  <2>2. \A k \in D : m.imports[k].name \in HostNames
    BY <2>1
  <2> QED
    BY <2>2
<1>3. {i.name : i \in Range(m.imports)} = {f[k] : k \in D}
  <2>1. Range(m.imports) = {m.imports[k] : k \in D}
    BY DEF Range
  <2> HIDE DEF f, D
  <2>2. ASSUME NEW i \in Range(m.imports) PROVE \E k \in D : f[k] = i.name
    BY <1>2, <2>1
  <2>3. ASSUME NEW k \in D PROVE \E i \in Range(m.imports) : i.name = f[k]
    BY <1>2, <2>1
  <2> QED
    BY <2>2, <2>3
<1> HIDE DEF f, D
<1>4. {f[k] : k \in D} = HostNames <=> f \in Surjection(D, HostNames)
  <2>1. \A k \in D : f[k] \in HostNames
    BY <1>2
  <2>2. f \in Surjection(D, HostNames)
          <=> \A name \in HostNames : \E k \in D : f[k] = name
    BY <1>2 DEF Surjection
  <2> QED
    BY <2>1, <2>2
<1>5. IsInjective(f) <=> f \in Injection(D, HostNames)
  BY <1>2 DEF Injection
<1>6. f \in Injection(D, HostNames) => f \in Surjection(D, HostNames)
  BY <1>1, FiveHostFunctions, FS_Injection
<1>7. f \in Surjection(D, HostNames) => f \in Injection(D, HostNames)
  BY <1>1, FiveHostFunctions, FS_Surjection
<1> QED
  BY <1>3, <1>4, <1>5, <1>6, <1>7 DEF f

LEMMA ExpectedNames == DOMAIN Expected = HostNames
  BY FiveHostFunctions DEF Expected

LEMMA ImportsResolve ==
  ASSUME NEW m \in ModuleRecords, NEW i
  PROVE  Resolved(m, i) <=>
           /\ i.kind = "func" /\ i.module = Namespace /\ i.name \in DOMAIN Expected
           /\ m.types[i.type + 1] = Expected[i.name]
  BY HostSignature DEF Resolved

\* Names of exports are not repeated.
LEMMA ExportOnce ==
  ASSUME NEW m \in ModuleRecords, CoreValid(m),
         NEW x \in Range(m.exports), NEW y \in Range(m.exports), x.name = y.name
  PROVE  x = y
<1>1. IsInjective([i \in DOMAIN m.exports |-> m.exports[i].name])
  BY DEF CoreValid
<1>2. PICK a \in DOMAIN m.exports : x = m.exports[a]
  BY DEF Range
<1>3. PICK b \in DOMAIN m.exports : y = m.exports[b]
  BY DEF Range
<1> QED
  BY <1>1, <1>2, <1>3 DEF IsInjective

LEMMA ValidImplements ==
  ASSUME NEW m \in ModuleRecords, Validate(m)
  PROVE  Implements(m)
<1>1. CoreValid(m) /\ SectionsOK(m) /\ SurfaceOK(m)
  BY DEF Validate
<1>2. ImportsOK(m) /\ MemoriesOK(m) /\ GlobalsOK(m) /\ ExportsOK(m)
  BY <1>1 DEF SectionsOK
<1>3. Len(m.imports) = 5 /\ Len(m.memories) = 1 /\ DOMAIN m.imports = 1..5
      /\ DOMAIN m.memories = 1..1 /\ Len(m.functions) \in Nat
  BY <1>1, ImportOfModule DEF SurfaceOK
<1>4. \A i \in Range(m.imports) : Resolved(m, i)
  BY <1>1, <1>2, ImportsResolve DEF ImportsOK, SurfaceOK
<1>5. {i.name : i \in Range(m.imports)} = HostNames
  <2>1. \A i \in Range(m.imports) : i.name \in HostNames
    BY <1>2, ExpectedNames DEF ImportsOK
  <2>2. IsInjective([k \in DOMAIN m.imports |-> m.imports[k].name])
    BY <1>2 DEF ImportsOK
  <2> QED
    BY <1>3, <2>1, <2>2, NamesOnce
<1>6. Cardinality(DOMAIN m.imports) = Cardinality(HostFunctions)
  BY <1>3, ImportCount, FiveHostFunctions
<1>7. PICK x \in Range(m.exports) :
        /\ x.name = "run"
        /\ x.index >= Len(m.imports)
        /\ x.index - Len(m.imports) < Len(m.functions)
        /\ m.types[m.functions[x.index - Len(m.imports) + 1] + 1] = <<0, 1>>
  BY <1>1 DEF SurfaceOK
<1>8. x.kind = "func" /\ x.index \in Nat
  <2>1. PICK a \in DOMAIN m.exports : x = m.exports[a]
    BY DEF Range
  <2>2. x.index \in Nat
    BY <2>1, ImportOfModule
  <2>3. <<x.name, x.kind>> \in {<<"run", "func">>, <<"memory", "memory">>}
    BY <1>2 DEF ExportsOK
  <2> QED
    BY <1>7, <2>2, <2>3
<1>9. /\ x.index + 1 \in DOMAIN FunctionSpace(m) /\ x.index + 1 \notin DOMAIN m.imports
      /\ FunctionSpace(m)[x.index + 1] = m.functions[x.index - Len(m.imports) + 1]
  <2> DEFINE k == x.index + 1
  <2>1. k \in 1..(5 + Len(m.functions)) /\ k > 5 /\ k - 5 = x.index - 5 + 1
    BY <1>3, <1>7, <1>8
  <2>2. k \in DOMAIN FunctionSpace(m) /\ FunctionSpace(m)[k] = m.functions[k - 5]
    BY <1>3, <2>1, OwnFunctionIndex
  <2> QED
    BY <1>3, <2>1, <2>2
<1>10. Links(m)
  BY <1>4, <1>7, <1>8, <1>9 DEF Links
<1>11. {y.name : y \in Range(m.exports)} = {"run", "memory"}
  <2>1. \E y \in Range(m.exports) : y.name = "memory"
    BY <1>1 DEF SurfaceOK
  <2>2. \A y \in Range(m.exports) : y.name \in {"run", "memory"}
    BY <1>2 DEF ExportsOK
  <2> QED
    BY <1>7, <2>1, <2>2
<1>12. ASSUME NEW y \in Range(m.exports)
       PROVE  IF y.name = "run" THEN OwnFunction(m, y) ELSE y.kind = "memory"
  <2>1. CASE y.name = "run"
    <3>1. y = x
      BY <1>1, <1>7, <2>1, ExportOnce
    <3> QED
      BY <1>8, <1>9, <2>1, <3>1 DEF OwnFunction
  <2>2. CASE y.name # "run"
    BY <1>2, <2>2 DEF ExportsOK
  <2> QED
    BY <2>1, <2>2
<1>13. \E y \in Range(m.memories) : y.initial =< MaxPages /\ y.maximum =< MaxPages
  BY <1>2, <1>3 DEF MemoriesOK, Range
<1>14. /\ ~m.tables /\ ~m.elements /\ ~m.start
       /\ Len(m.types) =< MaxTypes /\ Len(m.functions) =< MaxFunctions
       /\ m.segments =< MaxSegments
  BY <1>1 DEF SectionsOK
<1> QED
  BY <1>1, <1>2, <1>5, <1>6, <1>10, <1>11, <1>12, <1>13, <1>14 DEF Implements, HostNames

LEMMA ImplementsValid ==
  ASSUME NEW m \in ModuleRecords, Implements(m)
  PROVE  Validate(m)
<1>1. /\ CoreValid(m) /\ Links(m) /\ GlobalsOK(m)
      /\ Cardinality(DOMAIN m.imports) = Cardinality(HostFunctions)
      /\ {i.name : i \in Range(m.imports)} = HostNames
      /\ {x.name : x \in Range(m.exports)} = {"run", "memory"}
      /\ \A x \in Range(m.exports) :
           IF x.name = "run" THEN OwnFunction(m, x) ELSE x.kind = "memory"
  BY DEF Implements, HostNames
<1>2. Len(m.imports) = 5 /\ DOMAIN m.imports = 1..5
  BY <1>1, ImportCount, ImportOfModule, FiveHostFunctions
<1>3. \A i \in Range(m.imports) :
        /\ i.kind = "func" /\ i.module = Namespace /\ i.name \in DOMAIN Expected
        /\ m.types[i.type + 1] = Expected[i.name]
  BY <1>1, ImportsResolve DEF Links
<1>4. ImportsOK(m)
  <2>1. \A i \in Range(m.imports) : i.name \in HostNames
    BY <1>3, ExpectedNames
  <2>2. IsInjective([k \in DOMAIN m.imports |-> m.imports[k].name])
    BY <1>1, <1>2, <2>1, NamesOnce
  <2> QED
    BY <1>3, <2>2 DEF ImportsOK
<1>5. Len(m.memories) = 1 /\ Imported(m, "memory") + Len(m.memories) = 1
  <2> DEFINE S == {i \in DOMAIN m.imports : m.imports[i].kind = "memory"}
             n == Imported(m, "memory")
             y == Len(m.memories)
  <2>1. IsFiniteSet(S)
    <3>1. S \subseteq DOMAIN m.imports
      OBVIOUS
    <3> QED
      BY <3>1, ImportCount, FS_Subset
  <2>2. n \in Nat
    BY <2>1, FS_CardinalityType DEF Imported
  <2>3. y \in Nat /\ DOMAIN m.memories = 1..y
    BY ImportOfModule
  <2>4. n + y =< 1
    BY <1>1 DEF CoreValid
  <2>5. y # 0
    <3>1. Range(m.memories) # {}
      BY DEF Implements
    <3> QED
      BY <2>3, <3>1 DEF Range
  <2> HIDE DEF n, y
  <2>6. y = 1 /\ n + y = 1
    BY <2>2, <2>3, <2>4, <2>5
  <2> QED
    BY <2>6 DEF n, y
<1>6. MemoriesOK(m)
  <2>1. DOMAIN m.memories = {1}
    BY <1>5, ImportOfModule
  <2>2. Range(m.memories) = {m.memories[1]}
    BY <2>1 DEF Range
  <2>3. m.memories[1].initial =< MaxPages /\ m.memories[1].maximum =< MaxPages
    BY <2>2 DEF Implements
  <2>4. m.memories[1].plain
    BY <1>1, <2>2 DEF CoreValid
  <2> QED
    BY <2>2, <2>3, <2>4 DEF MemoriesOK
<1>7. \A x \in Range(m.exports) : x.name \in {"run", "memory"}
  BY <1>1
<1>8. ExportsOK(m)
  BY <1>1, <1>7 DEF ExportsOK, OwnFunction
<1>9. SectionsOK(m)
  BY <1>1, <1>4, <1>6, <1>8 DEF SectionsOK, Implements
<1>10. \E x \in Range(m.exports) : x.name = "memory" /\ x.index = 0
  <2>1. PICK x \in Range(m.exports) : x.name = "memory"
    BY <1>1
  <2>2. x.kind = "memory"
    BY <1>1, <2>1
  <2>3. x.index < Imported(m, "memory") + Len(m.memories)
    BY <1>1, <2>2 DEF CoreValid
  <2>4. x.index \in Nat
    BY ImportOfModule DEF Range
  <2> QED
    BY <1>5, <2>1, <2>3, <2>4
<1>11. \E x \in Range(m.exports) :
         /\ x.name = "run"
         /\ x.index >= Len(m.imports)
         /\ x.index - Len(m.imports) < Len(m.functions)
         /\ m.types[m.functions[x.index - Len(m.imports) + 1] + 1] = <<0, 1>>
  <2>1. PICK x \in Range(m.exports) :
          /\ x.name = "run" /\ x.kind = "func"
          /\ m.types[FunctionSpace(m)[x.index + 1] + 1] = <<0, 1>>
    BY <1>1 DEF Links
  <2>2. x.index + 1 \in DOMAIN FunctionSpace(m) /\ x.index + 1 \notin DOMAIN m.imports
    BY <1>1, <2>1 DEF OwnFunction
  <2> DEFINE k == x.index + 1
             f == Len(m.functions)
  <2>3. k \in 1..(5 + f) /\ k \notin 1..5 /\ f \in Nat
    BY <1>2, <2>2, OwnFunctionIndex, ImportOfModule
  <2>4. x.index \in Nat
    BY ImportOfModule DEF Range
  <2>5. k > 5 /\ x.index >= 5 /\ x.index - 5 < f /\ k - 5 = x.index - 5 + 1
    BY <2>3, <2>4
  <2>6. FunctionSpace(m)[k] = m.functions[k - 5]
    BY <1>2, <2>3, <2>5, OwnFunctionIndex
  <2> QED
    BY <1>2, <2>1, <2>5, <2>6
<1>12. SurfaceOK(m)
  BY <1>2, <1>3, <1>5, <1>10, <1>11 DEF SurfaceOK
<1> QED
  BY <1>1, <1>9, <1>12 DEF Validate

(***************************************************************************)
(* Principals.                                                             *)
(***************************************************************************)

\* Whoever is authenticated is the one record that carries the credential.
LEMMA OnePrincipal ==
  ASSUME NEW S, NEW f \in Seq(S), NEW credentials,
         Parses(f), Authenticated(f, credentials)
  PROVE  \E i \in DOMAIN f :
           /\ Matches(f, credentials[1]) = {i}
           /\ Authenticate(f, credentials) = f[i]
           /\ TenantRole(f[i]) \/ WorkerRole(f[i])
<1> DEFINE M == Matches(f, credentials[1])
<1>1. M # {} /\ \A i \in M : i \in DOMAIN f /\ f[i].token = credentials[1]
  BY DEF Authenticated, Matches
<1>2. \A i, j \in DOMAIN f : f[i].token = f[j].token => i = j
  <2>1. UniqueDigests(f)
    BY DEF Parses
  <2> QED
    BY <2>1 DEF UniqueDigests, IsInjective
<1>3. PICK i : i \in M
  BY <1>1
<1>4. M = {i}
  BY <1>1, <1>2, <1>3
<1>5. TenantRole(f[i]) \/ WorkerRole(f[i])
  BY <1>1, <1>3 DEF Parses
<1>6. Authenticate(f, credentials) = f[i]
  <2> DEFINE c == CHOOSE a \in M : \A j \in M : j =< a
  <2>1. CASE \E a \in M : \A j \in M : j =< a
    <3>1. c \in M
      BY <2>1
    <3> QED
      BY <1>4, <3>1 DEF Authenticate
  <2>2. i =< i
    <3>1. i \in Nat
      BY <1>1, <1>3, Elements
    <3> QED
      BY <3>1
  <2> QED
    BY <1>4, <2>1, <2>2
<1> QED
  BY <1>1, <1>3, <1>4, <1>5, <1>6

\* What the handlers ask of a principal entitles its credential.
LEMMA PrincipalEntitled ==
  ASSUME NEW credential, NEW i, Matches(file, credential) = {i},
         NEW p, p = file[i], TenantRole(p) \/ WorkerRole(p)
  PROVE  /\ \A t, g : t = OwnerTenant(p) /\ t # None => Entitled(credential, t, g)
         /\ \A t, g : t = TenantOf(p) /\ t # None /\ PermitsGrant(p, t, g) =>
              Entitled(credential, t, g)
         /\ \A t, g, w : t \in WorkerTenants(p, w) =>
              Entitled(credential, t, g) /\ p.worker = w
         /\ TenantOf(p) # None => p.tenant = TenantOf(p)
<1>1. p.role \in {"owner", "invoker", "worker"}
  BY DEF TenantRole, WorkerRole
<1>2. \A t, g : Entitled(credential, t, g) <=>
        CASE p.role = "owner" -> p.tenant = t
          [] p.role = "invoker" -> p.tenant = t /\ g \in Range(p.grants)
          [] p.role = "worker" -> t \in Range(p.tenants)
  BY DEF Entitled
<1>3. CASE p.role = "owner"
  BY <1>2, <1>3 DEF OwnerTenant, TenantOf, PermitsGrant, WorkerTenants
<1>4. CASE p.role = "invoker"
  BY <1>2, <1>4 DEF OwnerTenant, TenantOf, PermitsGrant, WorkerTenants
<1>5. CASE p.role = "worker"
  BY <1>2, <1>5 DEF OwnerTenant, TenantOf, PermitsGrant, WorkerTenants
<1> QED
  BY <1>1, <1>3, <1>4, <1>5

\* The tenants of a principal are tenants.
LEMMA PrincipalTenants ==
  ASSUME NEW f \in Files, NEW i \in DOMAIN f
  PROVE  /\ OwnerTenant(f[i]) \in Tenants \cup {None}
         /\ TenantOf(f[i]) \in Tenants \cup {None}
         /\ \A w : WorkerTenants(f[i], w) \subseteq Tenants
<1> DEFINE R == PrincipalRecords(Tenants, Grants, WorkerIds)
<1>1. f \in Seq(R)
  BY ControlAssumption
<1>2. f[i] \in R
  BY <1>1, Elements
<1>3. f[i].tenant \in Tenants \cup {None} /\ f[i].tenants \in Seq(Tenants)
  BY <1>2 DEF PrincipalRecords
<1>4. Range(f[i].tenants) \subseteq Tenants
  BY <1>3, Elements DEF Range
<1> QED
  BY <1>3, <1>4 DEF OwnerTenant, TenantOf, WorkerTenants

(***************************************************************************)
(* Tables.                                                                 *)
(***************************************************************************)

\* Only the run of tenant t has changed.
RunChanged(d, e, t) ==
  /\ e \in Tables
  /\ \A u \in Tenants : u # t => e.run[u] = d.run[u]
  /\ e.modules = d.modules /\ e.holder = d.holder /\ e.ancestry = d.ancestry
  /\ e.revoked = d.revoked

LEMMA RunWritten ==
  ASSUME NEW d \in Tables, NEW t \in Tenants, NEW v \in RunRecords
  PROVE  LET e == [d EXCEPT !.run[t] = v]
         IN  RunChanged(d, e, t) /\ e.run[t] = v
  BY DEF RunChanged, Tables

LEMMA RunStateMoved ==
  ASSUME NEW d \in Tables, NEW t \in Tenants,
         NEW st \in {"none", "queued", "leased", "running", "done"},
         NEW e, e = [d EXCEPT !.run[t].state = st]
  PROVE  /\ RunChanged(d, e, t)
         /\ e.run[t].state = st /\ e.run[t].owner = d.run[t].owner
         /\ e.run[t].grant = d.run[t].grant
<1> DEFINE v == [d.run[t] EXCEPT !.state = st]
<1>1. d.run[t] \in RunRecords
  BY DEF Tables
<1>2. /\ v \in RunRecords /\ v.state = st /\ v.owner = d.run[t].owner
      /\ v.grant = d.run[t].grant
  BY <1>1 DEF RunRecords
<1>3. d.run \in [Tenants -> RunRecords]
  BY DEF Tables
<1>4. e.run = [d.run EXCEPT ![t] = v]
  BY <1>3 DEF Tables
<1>5. e = [d EXCEPT !.run = e.run]
  BY <1>4 DEF Tables
<1>6. e = [d EXCEPT !.run[t] = v]
  BY <1>4, <1>5 DEF Tables
<1> HIDE DEF v
<1>7. LET written == [d EXCEPT !.run[t] = v]
      IN  RunChanged(d, written, t) /\ written.run[t] = v
  BY <1>2, RunWritten
<1>8. RunChanged(d, e, t) /\ e.run[t] = v
  BY <1>6, <1>7
<1> QED
  BY <1>2, <1>8

\* Only a lease has an owner, every stored module links, and the ancestors of a
\* grant are its tenant's.
TablesOK(d) ==
  /\ d \in Tables
  /\ \A t \in Tenants : d.run[t].owner # None => d.run[t].state \in {"leased", "running"}
  /\ \A entry \in d.modules : Links(entry[2])
  /\ \A g \in Grants : \A a \in d.ancestry[g] :
       d.holder[a] = d.holder[g] /\ d.holder[g] # None

\* Once there is a listener, and as long as there are connection tasks, the
\* principal file is one that Principals::parse accepted.
ControlInv ==
  /\ conn = [c \in Conns |-> conn[c]]
  /\ TablesOK(db)
  /\ file \in Files
  /\ phase = "serving" \/ (\E c \in Conns : conn[c] # Idle) => Parses(file)

\* The credential is that of the record p, and of no other.
Known(who, p) ==
  \E i \in DOMAIN file :
    Matches(file, who) = {i} /\ p = file[i] /\ (TenantRole(p) \/ WorkerRole(p))

\* What Isolation says of the step that answers the request of who.
Isolated(who, shown) ==
  /\ \A row \in shown : InView(who, row)
  /\ \A t \in Tenants : db'.run[t] # db.run[t] =>
       /\ Entitled(who, t, db'.run[t].grant)
       /\ db.run[t].owner # None =>
            \E i \in Matches(file, who) : file[i].worker = db.run[t].owner
  /\ \A m \in db'.modules \ db.modules, i \in Matches(file, who) : file[i].tenant = m[1]
  /\ \A g \in Grants :
       db'.holder[g] # db.holder[g] \/ g \in db'.revoked \ db.revoked =>
         Entitled(who, db'.holder[g], g)

Fine(c, who) ==
  \E shown : Answer(c, who, shown) /\ Isolated(who, shown) /\ TablesOK(db')

\* A row without ancestors is in view of whoever is entitled to it.
LEMMA RowInView ==
  ASSUME NEW who, NEW t, NEW g, Entitled(who, t, g)
  PROVE  InView(who, Row(t, g))
  BY DEF InView, Row

LEMMA KnownEntitled ==
  ASSUME file \in Files, NEW who, NEW p, Known(who, p)
  PROVE  /\ OwnerTenant(p) # None =>
              /\ OwnerTenant(p) \in Tenants
              /\ \A g : Entitled(who, OwnerTenant(p), g)
         /\ TenantOf(p) # None =>
              /\ TenantOf(p) \in Tenants
              /\ \A i \in Matches(file, who) : file[i].tenant = TenantOf(p)
              /\ \A g : PermitsGrant(p, TenantOf(p), g) => Entitled(who, TenantOf(p), g)
         /\ \A w : \A t \in WorkerTenants(p, w) :
              /\ t \in Tenants
              /\ \A g : Entitled(who, t, g)
              /\ \E i \in Matches(file, who) : file[i].worker = w
<1>1. PICK i \in DOMAIN file :
        Matches(file, who) = {i} /\ p = file[i] /\ (TenantRole(p) \/ WorkerRole(p))
  BY DEF Known
<1>2. /\ OwnerTenant(p) \in Tenants \cup {None}
      /\ TenantOf(p) \in Tenants \cup {None}
      /\ \A w : WorkerTenants(p, w) \subseteq Tenants
  BY <1>1, PrincipalTenants
<1>3. /\ \A t, g : t = OwnerTenant(p) /\ t # None => Entitled(who, t, g)
      /\ \A t, g : t = TenantOf(p) /\ t # None /\ PermitsGrant(p, t, g) =>
           Entitled(who, t, g)
      /\ \A t, g, w : t \in WorkerTenants(p, w) => Entitled(who, t, g) /\ p.worker = w
      /\ TenantOf(p) # None => p.tenant = TenantOf(p)
  BY <1>1, PrincipalEntitled
<1> QED
  BY <1>1, <1>2, <1>3

LEMMA RunIsolated ==
  ASSUME TablesOK(db), NEW t \in Tenants, RunChanged(db, db', t), NEW who, NEW shown,
         Entitled(who, t, db'.run[t].grant),
         db.run[t].owner # None =>
           \E i \in Matches(file, who) : file[i].worker = db.run[t].owner,
         \A row \in shown : InView(who, row),
         db'.run[t].owner # None => db'.run[t].state \in {"leased", "running"}
  PROVE  Isolated(who, shown) /\ TablesOK(db')
<1>1. TablesOK(db')
  BY DEF TablesOK, RunChanged
<1> QED
  BY <1>1 DEF Isolated, RunChanged

LEMMA NothingChanged ==
  ASSUME TablesOK(db), db' = db, NEW who, NEW shown,
         \A row \in shown : InView(who, row)
  PROVE  Isolated(who, shown) /\ TablesOK(db')
  BY DEF Isolated

(***************************************************************************)
(* Requests, handler by handler.                                           *)
(***************************************************************************)

LEMMA RequestFields ==
  ASSUME NEW q \in Requests
  PROVE  /\ q.op = "upload_module" => q.module \in Uploads
         /\ q.op \in {"create_run", "get_grant", "revoke_grant"} => q.grant \in Grants
         /\ q.op = "create_grant" => q.parent \in Grants \cup {None}
         /\ q.op \in {"claim", "heartbeat", "started", "finish"} => q.worker \in WorkerIds
         /\ q.op \in {"heartbeat", "started", "finish"} => q.tenant \in Tenants
<1>1. CASE q \in [op : {"upload_module"}, module : Uploads]
  BY <1>1
<1>2. CASE q \in [op : {"create_run", "get_grant", "revoke_grant"}, grant : Grants]
  BY <1>2
<1>3. CASE q \in [op : {"create_grant"}, parent : Grants \cup {None}]
  BY <1>3
<1>4. CASE q \in [op : {"claim"}, worker : WorkerIds]
  BY <1>4
<1>5. CASE q \in [op : {"heartbeat", "started", "finish"}, worker : WorkerIds,
                  tenant : Tenants]
  BY <1>5
<1> QED
  BY <1>1, <1>2, <1>3, <1>4, <1>5 DEF Requests

LEMMA UploadIsolated ==
  ASSUME ControlInv, NEW c, NEW who, NEW p, NEW q \in Requests, Known(who, p),
         Passes(p, q), UploadModule(c, who, p, q)
  PROVE  Fine(c, who)
<1> DEFINE row == <<TenantOf(p), q.module>>
<1>1. /\ TenantOf(p) # None /\ Validate(q.module) /\ q.module \in Uploads
      /\ db' = [db EXCEPT !.modules = @ \cup {row}] /\ Answer(c, who, {})
  BY RequestFields DEF UploadModule, Passes
<1>2. q.module \in Modules /\ q.module \in ModuleRecords
  BY <1>1, ControlAssumption
<1>3. Links(q.module)
  BY <1>1, <1>2, ValidImplements DEF Implements
<1>4. /\ TenantOf(p) \in Tenants
      /\ \A i \in Matches(file, who) : file[i].tenant = TenantOf(p)
  BY <1>1, KnownEntitled DEF ControlInv
<1>5. row \in Tenants \X Modules /\ row[1] = TenantOf(p) /\ row[2] = q.module
  BY <1>2, <1>4
<1>6. TablesOK(db) /\ db \in Tables
  BY DEF ControlInv, TablesOK
<1> HIDE DEF row
<1>7. /\ db'.modules = db.modules \cup {row} /\ db'.run = db.run
      /\ db'.holder = db.holder /\ db'.ancestry = db.ancestry
      /\ db'.revoked = db.revoked /\ db' \in Tables
  BY <1>1, <1>5, <1>6 DEF Tables
<1>8. Isolated(who, {})
  BY <1>4, <1>5, <1>7 DEF Isolated
<1>9. TablesOK(db')
  BY <1>3, <1>5, <1>6, <1>7 DEF TablesOK
<1> QED
  BY <1>1, <1>8, <1>9 DEF Fine

LEMMA CreateRunIsolated ==
  ASSUME ControlInv, NEW c, NEW who, NEW p, NEW q \in Requests, Known(who, p),
         Passes(p, q), CreateRun(c, who, p, q)
  PROVE  Fine(c, who)
<1> DEFINE t == TenantOf(p)
           v == [state |-> "queued", grant |-> q.grant, owner |-> None]
           shown == {Row(t, db'.run[t].grant)}
<1>1. t # None /\ PermitsGrant(p, t, q.grant) /\ q.grant \in Grants /\ Answer(c, who, shown)
  BY RequestFields DEF CreateRun, Passes
<1>2. t \in Tenants /\ Entitled(who, t, q.grant)
  BY <1>1, KnownEntitled DEF ControlInv
<1>3. TablesOK(db) /\ db \in Tables
  BY DEF ControlInv, TablesOK
<1>4. \/ db.run[t].grant = q.grant /\ db' = db
      \/ db.run[t].state = "none" /\ db' = [db EXCEPT !.run[t] = v]
  BY DEF CreateRun
<1>5. v \in RunRecords /\ v.grant = q.grant /\ v.owner = None
  BY <1>1 DEF RunRecords
<1> HIDE DEF t, v
<1>6. CASE db.run[t].grant = q.grant /\ db' = db
  <2>1. \A row \in shown : InView(who, row)
    BY <1>2, <1>6, RowInView
  <2> QED
    BY <1>1, <1>3, <1>6, <2>1, NothingChanged DEF Fine
<1>7. CASE db.run[t].state = "none" /\ db' = [db EXCEPT !.run[t] = v]
  <2>1. RunChanged(db, db', t) /\ db'.run[t] = v
    BY <1>2, <1>3, <1>5, <1>7, RunWritten
  <2>2. db.run[t].owner = None
    BY <1>2, <1>3, <1>7 DEF TablesOK
  <2>3. Entitled(who, t, db'.run[t].grant) /\ db'.run[t].owner = None
    BY <1>2, <1>5, <2>1
  <2>4. \A row \in shown : InView(who, row)
    BY <2>3, RowInView
  <2> HIDE DEF shown
  <2>5. Isolated(who, shown) /\ TablesOK(db')
    BY <1>2, <1>3, <2>1, <2>2, <2>3, <2>4, RunIsolated
  <2> QED
    BY <1>1, <2>5 DEF Fine
<1> QED
  BY <1>4, <1>6, <1>7

LEMMA CreateGrantIsolated ==
  ASSUME ControlInv, NEW c, NEW who, NEW p, NEW q \in Requests, Known(who, p),
         Passes(p, q), CreateGrant(c, who, p, q)
  PROVE  Fine(c, who)
<1> DEFINE t == OwnerTenant(p)
           up == AncestryUnder(q.parent)
<1>1. PICK g \in Grants :
        /\ db.holder[g] = None
        /\ db' = [db EXCEPT !.holder[g] = t, !.ancestry[g] = up]
        /\ Answer(c, who, {GrantView(t, g, up)})
  BY DEF CreateGrant
<1>2. t # None
  BY DEF CreateGrant, Passes
<1>3. t \in Tenants /\ \A h : Entitled(who, t, h)
  BY <1>2, KnownEntitled DEF ControlInv
<1>4. TablesOK(db) /\ db \in Tables
  BY DEF ControlInv, TablesOK
<1>5. up \subseteq Grants /\ \A a \in up : db.holder[a] = t
  <2>1. q.parent # None => db.holder[q.parent] = t
    BY DEF CreateGrant
  <2>2. q.parent \in Grants \cup {None}
    BY RequestFields DEF CreateGrant
  <2>3. CASE q.parent = None
    BY <2>3 DEF AncestryUnder
  <2>4. CASE q.parent # None
    <3>1. q.parent \in Grants /\ db.ancestry[q.parent] \subseteq Grants
      BY <1>4, <2>2, <2>4 DEF Tables
    <3>2. \A a \in db.ancestry[q.parent] : db.holder[a] = t
      BY <1>4, <2>1, <2>4, <3>1 DEF TablesOK
    <3>3. up = db.ancestry[q.parent] \cup {q.parent}
      BY <2>4 DEF AncestryUnder
    <3> HIDE DEF up, t
    <3> QED
      BY <2>1, <2>4, <3>1, <3>2, <3>3
  <2> QED
    BY <2>3, <2>4
<1> HIDE DEF t, up
<1>6. /\ db'.modules = db.modules /\ db'.run = db.run /\ db'.revoked = db.revoked
      /\ db'.holder[g] = t /\ (\A h \in Grants : h # g => db'.holder[h] = db.holder[h])
      /\ db'.ancestry[g] = up
      /\ (\A h \in Grants : h # g => db'.ancestry[h] = db.ancestry[h])
      /\ db' \in Tables
  BY <1>1, <1>3, <1>4, <1>5 DEF Tables
<1>7. Isolated(who, {GrantView(t, g, up)})
  <2>1. InView(who, GrantView(t, g, up))
    BY <1>3, <1>5 DEF InView, GrantView
  <2> QED
    BY <1>3, <1>6, <2>1 DEF Isolated
\* No grant has g among its ancestors yet: g is nobody's.
<1>8. ASSUME NEW h \in Grants, NEW a \in db'.ancestry[h]
      PROVE  db'.holder[a] = db'.holder[h] /\ db'.holder[h] # None
  <2>1. CASE h = g
    <3>1. a \in Grants /\ db.holder[a] = t /\ a # g
      BY <1>1, <1>2, <1>3, <1>5, <1>6, <1>8, <2>1
    <3> QED
      BY <1>2, <1>6, <2>1, <3>1
  <2>2. CASE h # g
    <3>1. db'.ancestry[h] = db.ancestry[h] /\ db'.holder[h] = db.holder[h]
      BY <1>6, <2>2
    <3>2. a \in db.ancestry[h] /\ a \in Grants
      BY <1>4, <1>8, <3>1 DEF Tables
    <3>3. db.holder[a] = db.holder[h] /\ db.holder[h] # None
      BY <1>4, <3>2 DEF TablesOK
    <3> QED
      BY <1>1, <1>6, <3>1, <3>2, <3>3
  <2> QED
    BY <2>1, <2>2
<1>9. TablesOK(db')
  BY <1>4, <1>6, <1>8 DEF TablesOK
<1> QED
  BY <1>1, <1>7, <1>9 DEF Fine

LEMMA GetGrantIsolated ==
  ASSUME ControlInv, NEW c, NEW who, NEW p, NEW q \in Requests, Known(who, p),
         Passes(p, q), GetGrant(c, who, p, q)
  PROVE  Fine(c, who)
<1> DEFINE t == TenantOf(p)
           g == q.grant
           shown == {GrantView(t, g, db.ancestry[g])}
<1>1. /\ t # None /\ PermitsGrant(p, t, g) /\ g \in Grants /\ db.holder[g] = t
      /\ db' = db /\ Answer(c, who, shown)
  BY RequestFields DEF GetGrant, Passes
<1>2. Entitled(who, t, g) /\ TablesOK(db)
  BY <1>1, KnownEntitled DEF ControlInv
<1>3. \A a \in db.ancestry[g] : db.holder[a] = t
  BY <1>1, <1>2 DEF TablesOK
<1> HIDE DEF t, g
<1>4. \A row \in shown : InView(who, row)
  BY <1>2, <1>3 DEF InView, GrantView
<1> HIDE DEF shown
<1> QED
  BY <1>1, <1>2, <1>4, NothingChanged DEF Fine

LEMMA RevokeIsolated ==
  ASSUME ControlInv, NEW c, NEW who, NEW p, NEW q \in Requests, Known(who, p),
         Passes(p, q), RevokeGrant(c, who, p, q)
  PROVE  Fine(c, who)
<1> DEFINE t == OwnerTenant(p)
           g == q.grant
<1>1. /\ t # None /\ g \in Grants /\ db.holder[g] = t
      /\ db' = [db EXCEPT !.revoked = @ \cup {g}] /\ Answer(c, who, {Row(t, g)})
  BY RequestFields DEF RevokeGrant, Passes
<1>2. \A h : Entitled(who, t, h)
  BY <1>1, KnownEntitled DEF ControlInv
<1>3. TablesOK(db) /\ db \in Tables
  BY DEF ControlInv, TablesOK
<1> HIDE DEF t, g
<1>4. /\ db'.modules = db.modules /\ db'.run = db.run /\ db'.holder = db.holder
      /\ db'.ancestry = db.ancestry
      /\ db'.revoked = db.revoked \cup {g} /\ db' \in Tables
  BY <1>1, <1>3 DEF Tables
<1>5. Isolated(who, {Row(t, g)})
  BY <1>1, <1>2, <1>4, RowInView DEF Isolated
<1>6. TablesOK(db')
  BY <1>3, <1>4 DEF TablesOK
<1> QED
  BY <1>1, <1>5, <1>6 DEF Fine

LEMMA ClaimIsolated ==
  ASSUME ControlInv, NEW c, NEW who, NEW p, NEW q \in Requests, Known(who, p),
         Passes(p, q), Claim(c, who, p, q)
  PROVE  Fine(c, who)
<1>1. PICK t \in WorkerTenants(p, q.worker) :
        /\ db.run[t].state = "queued"
        /\ \/ /\ db' = [db EXCEPT !.run[t].state = "done"]
              /\ Answer(c, who, {})
           \/ /\ db' = [db EXCEPT !.run[t] = [@ EXCEPT !.state = "leased", !.owner = q.worker]]
              /\ Answer(c, who, {Row(t, db.run[t].grant)})
  BY DEF Claim
<1>2. t \in Tenants /\ \A g : Entitled(who, t, g)
  BY KnownEntitled DEF ControlInv
<1>3. q.worker \in WorkerIds
  BY RequestFields DEF Claim
<1>4. TablesOK(db) /\ db \in Tables
  BY DEF ControlInv, TablesOK
<1>5. db.run[t].owner = None
  BY <1>1, <1>2, <1>4 DEF TablesOK
<1>6. CASE db' = [db EXCEPT !.run[t].state = "done"] /\ Answer(c, who, {})
  <2>1. RunChanged(db, db', t) /\ db'.run[t].owner = None
    BY <1>2, <1>4, <1>5, <1>6, RunStateMoved
  <2>2. Isolated(who, {}) /\ TablesOK(db')
    BY <1>2, <1>4, <1>5, <2>1, RunIsolated
  <2> QED
    BY <1>6, <2>2 DEF Fine
<1>7. CASE /\ db' = [db EXCEPT !.run[t] = [@ EXCEPT !.state = "leased", !.owner = q.worker]]
           /\ Answer(c, who, {Row(t, db.run[t].grant)})
  <2> DEFINE shown == {Row(t, db.run[t].grant)}
  <2>1. RunChanged(db, db', t) /\ db'.run[t].state = "leased"
    <3> DEFINE v == [db.run[t] EXCEPT !.state = "leased", !.owner = q.worker]
    <3>1. db' = [db EXCEPT !.run[t] = v]
      BY <1>7
    <3>2. v \in RunRecords /\ v.state = "leased"
      <4>1. db.run[t] \in RunRecords
        BY <1>2, <1>4 DEF Tables
      <4> QED
        BY <1>3, <4>1 DEF RunRecords
    <3> HIDE DEF v
    <3> QED
      BY <1>2, <1>4, <3>1, <3>2, RunWritten
  <2>2. \A row \in shown : InView(who, row)
    BY <1>2, RowInView
  <2> HIDE DEF shown
  <2>3. Isolated(who, shown) /\ TablesOK(db')
    BY <1>2, <1>4, <1>5, <2>1, <2>2, RunIsolated
  <2> QED
    BY <1>7, <2>3 DEF Fine, shown
<1> QED
  BY <1>1, <1>6, <1>7

LEMMA LeaseIsolated ==
  ASSUME ControlInv, NEW c, NEW who, NEW p, NEW q \in Requests, Known(who, p),
         \/ Heartbeat(c, who, p, q) \/ Started(c, who, p, q) \/ Finish(c, who, p, q)
  PROVE  Fine(c, who)
<1>1. PICK t : t = q.tenant
  OBVIOUS
<1> DEFINE shown == {Row(t, db.run[t].grant)}
<1>2. t \in WorkerTenants(p, q.worker) /\ db.run[t].owner = q.worker
      /\ Answer(c, who, shown)
  BY <1>1 DEF Heartbeat, Started, Finish, HoldsLease
<1>3. t \in Tenants /\ (\A g : Entitled(who, t, g))
      /\ \E i \in Matches(file, who) : file[i].worker = db.run[t].owner
  BY <1>2, KnownEntitled DEF ControlInv
<1>4. TablesOK(db) /\ db \in Tables
  BY DEF ControlInv, TablesOK
<1>5. \A row \in shown : InView(who, row)
  BY <1>3, RowInView
<1>6. \/ db' = db
      \/ db' = [db EXCEPT !.run[t].state = "running"]
      \/ db' = [db EXCEPT !.run[t] = [@ EXCEPT !.state = "done", !.owner = None]]
  BY <1>1 DEF Heartbeat, Started, Finish
<1> HIDE DEF shown
<1>7. CASE db' = db
  BY <1>2, <1>4, <1>5, <1>7, NothingChanged DEF Fine
<1>8. CASE db' = [db EXCEPT !.run[t].state = "running"]
  <2>1. RunChanged(db, db', t) /\ db'.run[t].state = "running"
    BY <1>3, <1>4, <1>8, RunStateMoved
  <2>2. Isolated(who, shown) /\ TablesOK(db')
    BY <1>3, <1>4, <1>5, <2>1, RunIsolated
  <2> QED
    BY <1>2, <2>2 DEF Fine
<1>9. CASE db' = [db EXCEPT !.run[t] = [@ EXCEPT !.state = "done", !.owner = None]]
  <2>1. RunChanged(db, db', t) /\ db'.run[t].owner = None
    <3> DEFINE v == [db.run[t] EXCEPT !.state = "done", !.owner = None]
    <3>1. db' = [db EXCEPT !.run[t] = v]
      BY <1>9
    <3>2. v \in RunRecords /\ v.owner = None
      <4>1. db.run[t] \in RunRecords
        BY <1>3, <1>4 DEF Tables
      <4> QED
        BY <4>1 DEF RunRecords
    <3> HIDE DEF v
    <3> QED
      BY <1>3, <1>4, <3>1, <3>2, RunWritten
  <2>2. Isolated(who, shown) /\ TablesOK(db')
    BY <1>3, <1>4, <1>5, <2>1, RunIsolated
  <2> QED
    BY <1>2, <2>2 DEF Fine
<1> QED
  BY <1>6, <1>7, <1>8, <1>9

\* Every request behind the middleware is answered to the one principal of its
\* credential, and what it shows and changes is that principal's.
LEMMA HandleIsolated ==
  ASSUME ControlInv, NEW c \in Conns, NEW credentials, NEW q \in Requests,
         Handle(c, credentials, q)
  PROVE  \E who : Fine(c, who)
<1> DEFINE who == credentials[1]
           p == Authenticate(file, credentials)
<1>1. Parses(file) /\ file \in Files
  <2>1. conn[c] # Idle
    BY DEF Handle, Busy, Idle
  <2> QED
    BY <2>1 DEF ControlInv
<1>2. Known(who, p)
  <2> DEFINE S == PrincipalRecords(Tenants, Grants, WorkerIds)
  <2>1. file \in Seq(S)
    BY <1>1, ControlAssumption
  <2>2. Authenticated(file, credentials)
    BY DEF Handle
  <2> HIDE DEF S
  <2>3. \E i \in DOMAIN file :
          /\ Matches(file, credentials[1]) = {i}
          /\ Authenticate(file, credentials) = file[i]
          /\ TenantRole(file[i]) \/ WorkerRole(file[i])
    BY <1>1, <2>1, <2>2, OnePrincipal
  <2> QED
    BY <2>3 DEF Known
<1>3. /\ Passes(p, q)
      /\ \/ UploadModule(c, who, p, q) \/ CreateRun(c, who, p, q)
         \/ CreateGrant(c, who, p, q) \/ GetGrant(c, who, p, q)
         \/ RevokeGrant(c, who, p, q) \/ Claim(c, who, p, q)
         \/ Heartbeat(c, who, p, q) \/ Started(c, who, p, q)
         \/ Finish(c, who, p, q)
  BY DEF Handle
<1> HIDE DEF who, p
<1>4. CASE UploadModule(c, who, p, q)
  BY <1>2, <1>3, <1>4, UploadIsolated
<1>5. CASE CreateRun(c, who, p, q)
  BY <1>2, <1>3, <1>5, CreateRunIsolated
<1>6. CASE CreateGrant(c, who, p, q)
  BY <1>2, <1>3, <1>6, CreateGrantIsolated
<1>7. CASE GetGrant(c, who, p, q)
  BY <1>2, <1>3, <1>7, GetGrantIsolated
<1>8. CASE RevokeGrant(c, who, p, q)
  BY <1>2, <1>3, <1>8, RevokeIsolated
<1>9. CASE Claim(c, who, p, q)
  BY <1>2, <1>3, <1>9, ClaimIsolated
<1>10. CASE Heartbeat(c, who, p, q) \/ Started(c, who, p, q) \/ Finish(c, who, p, q)
  BY <1>2, <1>10, LeaseIsolated
<1> QED
  BY <1>3, <1>4, <1>5, <1>6, <1>7, <1>8, <1>9, <1>10

(***************************************************************************)
(* The invariant.                                                          *)
(***************************************************************************)

\* One task is written, the others are left alone.
Written(c, v) == conn' = [conn EXCEPT ![c] = v]

LEMMA TaskWritten ==
  ASSUME ControlInv, NEW c \in Conns, NEW v, Written(c, v)
  PROVE  /\ conn' = [d \in Conns |-> conn'[d]]
         /\ conn'[c] = v
         /\ \A d \in Conns : d # c => conn'[d] = conn[d]
  BY DEF ControlInv, Written

\* A task appears only while the daemon serves, where the file was parsed; a
\* step that starts no task keeps what is known of the file.
LEMMA TaskKeepsInv ==
  ASSUME ControlInv, NEW c \in Conns, NEW v, Written(c, v),
         UNCHANGED <<daemon, given>>, TablesOK(db'),
         phase = "serving" \/ conn[c] # Idle
  PROVE  ControlInv'
<1>1. conn' = [d \in Conns |-> conn'[d]]
  BY TaskWritten
<1>2. Parses(file) /\ file \in Files
  BY DEF ControlInv
<1>3. file' = file
  BY DEF given
<1> QED
  BY <1>1, <1>2, <1>3 DEF ControlInv

\* The steps of the main task and of the sweeper: no task is touched, and the
\* daemon serves only after the file was parsed.
LEMMA DaemonKeepsInv ==
  ASSUME ControlInv, conn' = conn, UNCHANGED given, TablesOK(db'),
         phase' = "serving" => phase = "serving" \/ Parses(file)
  PROVE  ControlInv'
<1>1. file' = file
  BY DEF given
<1> QED
  BY <1>1 DEF ControlInv

\* The sweeper takes a lease away whole: its owner with its state.
LEMMA SweepKeepsTables ==
  ASSUME ControlInv, SweepReaps
  PROVE  TablesOK(db')
<1>1. PICK t \in Tenants, state \in {"queued", "done"} :
        db' = [db EXCEPT !.run[t] = [@ EXCEPT !.state = state, !.owner = None]]
  BY DEF SweepReaps
<1>2. TablesOK(db) /\ db \in Tables
  BY DEF ControlInv, TablesOK
<1> DEFINE v == [db.run[t] EXCEPT !.state = state, !.owner = None]
<1>3. db' = [db EXCEPT !.run[t] = v]
  BY <1>1
<1>4. v \in RunRecords /\ v.owner = None
  <2>1. db.run[t] \in RunRecords
    BY <1>2 DEF Tables
  <2> QED
    BY <2>1 DEF RunRecords
<1> HIDE DEF v
<1>5. RunChanged(db, db', t) /\ db'.run[t] = v
  BY <1>2, <1>3, <1>4, RunWritten
<1> QED
  BY <1>2, <1>4, <1>5 DEF TablesOK, RunChanged

LEMMA ControlInit == Init => ControlInv
<1> SUFFICES ASSUME Init PROVE ControlInv
  OBVIOUS
<1>1. TablesOK(db)
  BY ControlAssumption DEF Init, TablesOK
<1>2. conn = [c \in Conns |-> conn[c]] /\ \A c \in Conns : conn[c] = Idle
  BY DEF Init
<1> QED
  BY <1>1, <1>2 DEF Init, ControlInv

LEMMA ControlStep == ControlInv /\ [Next]_vars => ControlInv'
<1> SUFFICES ASSUME ControlInv, [Next]_vars PROVE ControlInv'
  OBVIOUS
<1>1. TablesOK(db)
  BY DEF ControlInv
<1>2. CASE Main
  <2>1. conn' = conn /\ UNCHANGED given /\ db' = db
    BY <1>2 DEF Main, StartRefused, StartFails, Start, Drained, DrainTimeout,
                SweeperStopped, SweeperTimeout, Close
  <2>2. phase' = "serving" => Parses(file)
    BY <1>2 DEF Main, StartRefused, StartFails, Start, Drained, DrainTimeout,
                SweeperStopped, SweeperTimeout, Close
  <2> QED
    BY <1>1, <2>1, <2>2, DaemonKeepsInv
<1>3. CASE EndServing \/ SweeperAborted
  <2>1. conn' = conn /\ UNCHANGED given /\ db' = db
        /\ (phase' = "serving" => phase = "serving")
    BY <1>3 DEF EndServing, SweeperAborted
  <2> QED
    BY <1>1, <2>1, DaemonKeepsInv
<1>4. CASE Sweep
  <2>1. conn' = conn /\ UNCHANGED given /\ phase' = phase
    BY <1>4 DEF Sweep, SweepTick, SweepReaps, SweepEnds, SweepStops, daemon
  <2>2. SweepReaps \/ db' = db
    BY <1>4 DEF Sweep, SweepTick, SweepEnds, SweepStops
  <2>3. TablesOK(db')
    BY <1>1, <2>2, SweepKeepsTables
  <2> QED
    BY <2>1, <2>3, DaemonKeepsInv
<1>5. ASSUME NEW c \in Conns, Accept(c) PROVE ControlInv'
  <2>1. Written(c, Busy) /\ UNCHANGED <<daemon, given>> /\ db' = db /\ phase = "serving"
    BY <1>5 DEF Accept, Written
  <2> QED
    BY <1>1, <2>1, TaskKeepsInv
<1>6. ASSUME NEW c \in Conns, Join(c) PROVE ControlInv'
  <2>1. Written(c, Idle) /\ UNCHANGED <<daemon, given>> /\ db' = db /\ conn[c] # Idle
    BY <1>6 DEF Join, Written, Ended, Idle
  <2> QED
    BY <1>1, <2>1, TaskKeepsInv
<1>7. ASSUME NEW c \in Conns, TaskEnds(c) PROVE ControlInv'
  <2>1. Written(c, Ended) /\ UNCHANGED <<daemon, given>> /\ db' = db /\ conn[c] # Idle
    BY <1>7 DEF TaskEnds, Written, Running, Idle
  <2> QED
    BY <1>1, <2>1, TaskKeepsInv
<1>8. ASSUME NEW c \in Conns, Refuse(c) \/ Health(c) PROVE ControlInv'
  <2>1. /\ Written(c, Served(None, {})) /\ UNCHANGED <<daemon, given>> /\ db' = db
        /\ conn[c] # Idle
    BY <1>8 DEF Refuse, Health, Answer, Written, Busy, Idle
  <2> QED
    BY <1>1, <2>1, TaskKeepsInv
<1>9. ASSUME NEW c \in Conns, NEW credentials, NEW q \in Requests,
             Handle(c, credentials, q)
      PROVE  ControlInv'
  <2>1. PICK who : Fine(c, who)
    BY <1>9, HandleIsolated
  <2>2. PICK shown : Answer(c, who, shown) /\ TablesOK(db')
    BY <2>1 DEF Fine
  <2>3. Written(c, Served(who, shown)) /\ UNCHANGED <<daemon, given>> /\ conn[c] # Idle
    BY <1>9, <2>2 DEF Handle, Answer, Written, Busy, Idle
  <2> QED
    BY <2>2, <2>3, TaskKeepsInv
<1>10. CASE UNCHANGED vars
  <2>1. conn' = conn /\ UNCHANGED given /\ db' = db /\ phase' = phase
    BY <1>10 DEF vars, daemon
  <2> QED
    BY <1>1, <2>1, DaemonKeepsInv
<1> QED
  BY <1>2, <1>3, <1>4, <1>5, <1>6, <1>7, <1>8, <1>9, <1>10 DEF Next, Exited

\* What Principals::parse accepted serves every request, a lease and its owner
\* end together, what upload_module stored links, and a grant's ancestors are
\* its tenant's.
LEMMA ControlInvariant == Spec => []ControlInv
  BY ControlInit, ControlStep, PTL DEF Spec

\* validate (validate.rs) accepts exactly the modules that implement the ABI,
\* for any module, any limits and any sections; so nothing that put_module
\* stored, in whatever order uploads come, fails to link in the runner.
THEOREM ModulesLink == Spec => []ModuleVerdict
<1>1. Verdicts
  BY ValidImplements, ImplementsValid, ControlAssumption DEF Verdicts, Verdict
<1>2. ControlInv => ModuleVerdict
  BY <1>1 DEF ControlInv, TablesOK, ModuleVerdict
<1> QED
  BY <1>2, ControlInvariant, PTL

(***************************************************************************)
(* Tenants.                                                                *)
(***************************************************************************)

\* What Isolation says of one task in one step.
KeptApart(c) ==
  conn[c] = Busy /\ conn'[c].at = "served" => Isolated(conn'[c].by, conn'[c].shown)

\* The step of another task, or of the daemon, does not answer this one.
LEMMA OthersKeepApart ==
  ASSUME NEW c, conn'[c] = conn[c] \/ conn'[c].at # "served"
  PROVE  KeptApart(c)
  BY DEF KeptApart, Busy

\* A task that is answered is answered by its own handler.
LEMMA AnswerKeepsApart ==
  ASSUME ControlInv, NEW c \in Conns, NEW d \in Conns, NEW who, NEW shown,
         Answer(d, who, shown), Isolated(who, shown)
  PROVE  KeptApart(c)
<1>1. Written(d, Served(who, shown))
  BY DEF Answer, Written
<1>2. CASE c # d
  <2>1. conn'[c] = conn[c]
    BY <1>1, <1>2, TaskWritten
  <2> QED
    BY <2>1, OthersKeepApart
<1>3. CASE c = d
  <2>1. conn'[c] = Served(who, shown)
    BY <1>1, <1>3, TaskWritten
  <2>2. conn'[c].by = who /\ conn'[c].shown = shown
    BY <2>1 DEF Served
  <2> QED
    BY <2>2 DEF KeptApart
<1> QED
  BY <1>2, <1>3

LEMMA StepKeepsApart ==
  ASSUME ControlInv, Next, NEW c \in Conns
  PROVE  KeptApart(c)
<1>1. CASE Main \/ EndServing \/ SweeperAborted \/ Sweep \/ Exited
  <2>1. conn' = conn
    BY <1>1 DEF Main, StartRefused, StartFails, Start, Drained, DrainTimeout,
                SweeperStopped, SweeperTimeout, Close, EndServing, SweeperAborted,
                Sweep, SweepTick, SweepReaps, SweepEnds, SweepStops, Exited, vars
  <2> QED
    BY <2>1, OthersKeepApart
<1>2. ASSUME NEW d \in Conns, Accept(d) \/ Join(d) \/ TaskEnds(d)
      PROVE  KeptApart(c)
  <2>1. PICK v : Written(d, v) /\ v.at # "served"
    BY <1>2 DEF Accept, Join, TaskEnds, Written, Busy, Idle, Ended
  <2>2. conn'[c] = conn[c] \/ conn'[c] = v
    BY <2>1, TaskWritten
  <2> QED
    BY <2>1, <2>2, OthersKeepApart
<1>3. ASSUME NEW d \in Conns, Refuse(d) \/ Health(d)
      PROVE  KeptApart(c)
  <2>1. Answer(d, None, {}) /\ db' = db
    BY <1>3 DEF Refuse, Health
  <2>2. Isolated(None, {})
    BY <2>1 DEF Isolated
  <2> QED
    BY <2>1, <2>2, AnswerKeepsApart
<1>4. ASSUME NEW d \in Conns, NEW credentials, NEW q \in Requests,
             Handle(d, credentials, q)
      PROVE  KeptApart(c)
  <2>1. PICK who : Fine(d, who)
    BY <1>4, HandleIsolated
  <2>2. PICK shown : Answer(d, who, shown) /\ Isolated(who, shown)
    BY <2>1 DEF Fine
  <2> QED
    BY <2>2, AnswerKeepsApart
<1> QED
  BY <1>1, <1>2, <1>3, <1>4 DEF Next

\* Tenants are kept apart by the handlers of the API and by claim, heartbeat,
\* started and finish, for any principal file, any number of tenants, workers
\* and connection tasks, and in any interleaving with the sweeper: what a
\* request shows and changes is its own credential's.
THEOREM TenantsIsolated == Spec => Isolation
<1>1. ControlInv /\ [Next]_vars => [\A c \in Conns : KeptApart(c)]_vars
  BY StepKeepsApart
<1>2. [\A c \in Conns : KeptApart(c)]_vars =>
        [\A c \in Conns : conn[c] = Busy /\ conn'[c].at = "served" =>
          LET who == conn'[c].by
          IN  /\ \A row \in conn'[c].shown : InView(who, row)
              /\ \A t \in Tenants : db'.run[t] # db.run[t] =>
                     /\ Entitled(who, t, db'.run[t].grant)
                     /\ db.run[t].owner # None =>
                            \E i \in Matches(file, who) : file[i].worker = db.run[t].owner
              /\ \A m \in db'.modules \ db.modules, i \in Matches(file, who) :
                     file[i].tenant = m[1]
              /\ \A g \in Grants :
                     db'.holder[g] # db.holder[g] \/ g \in db'.revoked \ db.revoked =>
                         Entitled(who, db'.holder[g], g)]_vars
  BY DEF KeptApart, Isolated
<1> QED
  BY <1>1, <1>2, ControlInvariant, PTL DEF Spec, Isolation

=============================================================================
