----------------------------- MODULE ModuleCheck -----------------------------
(***************************************************************************)
(* The check of an uploaded module (crates/runtime/src/validate.rs), which *)
(* the runner repeats before it compiles one, beside what linking and      *)
(* calling a module needs (crates/runtime/src/engine.rs and the imports    *)
(* that abi.rs installs).  A module is a record of its sections.           *)
(* Functions are numbered the way Wasm numbers them: first the imported    *)
(* ones, then the module's own.  A signature is the number of i32          *)
(* parameters and of i32 results.                                          *)
(***************************************************************************)
EXTENDS Naturals, Sequences, Functions, FiniteSets

CONSTANTS
    MaxTypes,      \* 1024
    MaxFunctions,  \* 1024, local functions and their bodies
    MaxGlobals,    \* 32
    MaxPages,      \* 1024, of the memory's initial and maximum size
    MaxSegments    \* 256, data segments

ASSUME SectionAssumption ==
    {MaxTypes, MaxFunctions, MaxGlobals, MaxPages, MaxSegments} \subseteq Nat

Namespace == "effectlatch_v1"

(***************************************************************************)
(* What a parsed module is: a record of its sections.                      *)
(***************************************************************************)
Kinds == {"func", "table", "memory", "global"}

ModuleRecords ==
    [types : Seq(Nat \X Nat),
     imports : Seq([module : STRING, name : STRING, kind : Kinds, type : Nat]),
     functions : Seq(Nat),
     memories : Seq([initial : Nat, maximum : Nat, plain : BOOLEAN]),
     exports : Seq([name : STRING, kind : Kinds, index : Nat]),
     globals : Seq(STRING),
     tables : BOOLEAN, elements : BOOLEAN, start : BOOLEAN, segments : Nat]

(***************************************************************************)
(* The table `expected`: name to signature.                                *)
(***************************************************************************)
Expected ==
    [input_len |-> <<0, 1>>, input_read |-> <<2, 1>>, output_write |-> <<2, 1>>,
     log |-> <<2, 1>>, effect_call |-> <<4, 1>>]

Imported(m, kind) == Cardinality({i \in DOMAIN m.imports : m.imports[i].kind = kind})

(***************************************************************************)
(* What wasmparser's validator, limited to WebAssembly 2.0, has excluded   *)
(* before the sections are read: indices out of range, repeated export     *)
(* names, a second memory, shared and 64-bit memories.                     *)
(***************************************************************************)
CoreValid(m) ==
    LET functions == Imported(m, "func") + Len(m.functions)
        memories == Imported(m, "memory") + Len(m.memories)
    IN  /\ \A i \in Range(m.imports) : i.kind = "func" => i.type < Len(m.types)
        /\ \A f \in Range(m.functions) : f < Len(m.types)
        /\ memories <= 1
        /\ \A y \in Range(m.memories) : y.plain /\ y.initial <= y.maximum
        /\ \A x \in Range(m.exports) :
               x.index < (CASE x.kind = "func" -> functions
                            [] x.kind = "memory" -> memories
                            [] OTHER -> Len(m.globals))
        /\ IsInjective([i \in DOMAIN m.exports |-> m.exports[i].name])
        /\ m.elements => m.tables

(***************************************************************************)
(* The sections, as the loop over the payloads looks at them.              *)
(***************************************************************************)
ImportsOK(m) ==
    /\ \A i \in Range(m.imports) :
           i.kind = "func" /\ i.module = Namespace /\ i.name \in DOMAIN Expected
    /\ IsInjective([i \in DOMAIN m.imports |-> m.imports[i].name])

MemoriesOK(m) ==
    \A y \in Range(m.memories) : y.plain /\ y.initial <= MaxPages /\ y.maximum <= MaxPages

GlobalsOK(m) == Len(m.globals) <= MaxGlobals /\ Range(m.globals) \subseteq {"i32", "i64"}

ExportsOK(m) ==
    \A x \in Range(m.exports) :
        <<x.name, x.kind>> \in {<<"run", "func">>, <<"memory", "memory">>}

SectionsOK(m) ==
    /\ Len(m.types) <= MaxTypes
    /\ Len(m.functions) <= MaxFunctions
    /\ ImportsOK(m) /\ MemoriesOK(m) /\ GlobalsOK(m) /\ ExportsOK(m)
    /\ ~m.tables /\ ~m.elements /\ ~m.start
    /\ m.segments <= MaxSegments

(***************************************************************************)
(* After the loop: five imports with their signatures, the one memory      *)
(* exported, and run_index - imported_functions, checked, as the index of  *)
(* a local function without parameters and with one i32 result.            *)
(***************************************************************************)
\* Mutant: the export's index is taken for the index of a local function.
SurfaceUnshifted(m) ==
    /\ Len(m.imports) = 5
    /\ Len(m.memories) = 1
    /\ \E x \in Range(m.exports) : x.name = "memory" /\ x.index = 0
    /\ \A i \in Range(m.imports) : m.types[i.type + 1] = Expected[i.name]
    /\ \E x \in Range(m.exports) :
           /\ x.name = "run"
           /\ x.index < Len(m.functions)
           /\ m.types[m.functions[x.index + 1] + 1] = <<0, 1>>

SurfaceOK(m) ==
    /\ Len(m.imports) = 5
    /\ Len(m.memories) = 1
    /\ \E x \in Range(m.exports) : x.name = "memory" /\ x.index = 0
    /\ \A i \in Range(m.imports) : m.types[i.type + 1] = Expected[i.name]
    /\ \E x \in Range(m.exports) :
           /\ x.name = "run"
           /\ x.index >= Len(m.imports)
           /\ x.index - Len(m.imports) < Len(m.functions)
           /\ m.types[m.functions[x.index - Len(m.imports) + 1] + 1] = <<0, 1>>

Validate(m) == CoreValid(m) /\ SectionsOK(m) /\ SurfaceOK(m)

(***************************************************************************)
(* The other side.  `install` (abi.rs) defines one host function per name, *)
(* with the parameters of its closure; the linker resolves every import to *)
(* one of them, and get_typed_func::<(), i32>("run") looks the export up   *)
(* in the space of all functions.  Linking is not all of instantiation: an *)
(* active data segment may lie outside the memory, and the store's limits  *)
(* may refuse the memory; such a run ends with an error of the guest's     *)
(* own, and nothing is said of it here.                                    *)
(***************************************************************************)
HostFunctions ==
    {<<"input_len", 0>>, <<"input_read", 2>>, <<"output_write", 2>>, <<"log", 2>>,
     <<"effect_call", 4>>}

Resolved(m, i) ==
    /\ i.kind = "func"
    /\ i.module = Namespace
    /\ \E h \in HostFunctions : i.name = h[1] /\ m.types[i.type + 1] = <<h[2], 1>>

FunctionSpace(m) ==
    [i \in DOMAIN m.imports |-> m.imports[i].type] \o m.functions

Links(m) ==
    /\ \A i \in Range(m.imports) : Resolved(m, i)
    /\ \E x \in Range(m.exports) :
           x.name = "run" /\ x.kind = "func" /\ m.types[FunctionSpace(m)[x.index + 1] + 1] = <<0, 1>>

(***************************************************************************)
(* ABI v1 as a whole: the module links, imports each host function exactly *)
(* once, exports nothing but a run of its own and its memory, whose growth *)
(* is bounded, and has no second way in (a table, a start function).       *)
(***************************************************************************)
OwnFunction(m, x) == x.kind = "func" /\ x.index + 1 \in DOMAIN FunctionSpace(m)
                     /\ x.index + 1 \notin DOMAIN m.imports

Implements(m) ==
    /\ CoreValid(m)
    /\ Links(m)
    /\ Cardinality(DOMAIN m.imports) = Cardinality(HostFunctions)
    /\ {i.name : i \in Range(m.imports)} = {h[1] : h \in HostFunctions}
    /\ {x.name : x \in Range(m.exports)} = {"run", "memory"}
    /\ \A x \in Range(m.exports) : IF x.name = "run" THEN OwnFunction(m, x) ELSE x.kind = "memory"
    /\ \E y \in Range(m.memories) : y.initial <= MaxPages /\ y.maximum <= MaxPages
    /\ ~m.tables /\ ~m.elements /\ ~m.start
    /\ Len(m.types) <= MaxTypes /\ Len(m.functions) <= MaxFunctions
    /\ m.segments <= MaxSegments /\ GlobalsOK(m)

=============================================================================
