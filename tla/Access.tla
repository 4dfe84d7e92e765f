------------------------------- MODULE Access -------------------------------
(***************************************************************************)
(* Who may do what (crates/control/src/auth.rs): the operator's file of    *)
(* principals, the credential of a request, and the questions the handlers *)
(* of the API ask of a principal.  A file is a sequence of records; a      *)
(* record says of each optional field whether it is there (None) and keeps *)
(* its lists as sequences, because parse refuses a repeated entry.  The    *)
(* spelling of identifiers, digests and the version number is one flag.    *)
(***************************************************************************)
EXTENDS Sequences, Functions, Naturals

CONSTANT None

(***************************************************************************)
(* The records of a file that names these tenants, grants and workers.     *)
(***************************************************************************)
PrincipalRecords(tenants, grants, workers) ==
    [id : STRING, role : STRING, token : STRING, tenant : tenants \cup {None},
     worker : workers \cup {None}, grants : Seq(grants), tenants : Seq(tenants),
     spelt : BOOLEAN]

(***************************************************************************)
(* The roles of parse: the fields that a role needs and those it may not   *)
(* have.  Any other role is an error.                                      *)
(***************************************************************************)
TenantRole(r) ==
    /\ r.role \in {"owner", "invoker"}
    /\ r.worker = None
    /\ r.tenants = << >>
    /\ r.tenant # None
    /\ IsInjective(r.grants)
    /\ r.role = "owner" => r.grants = << >>

WorkerRole(r) ==
    /\ r.role = "worker"
    /\ r.tenant = None
    /\ r.grants = << >>
    /\ r.worker # None
    /\ IsInjective(r.tenants)
    /\ r.tenants # << >>

UniqueDigests(file) == IsInjective([i \in DOMAIN file |-> file[i].token])

(***************************************************************************)
(* Principals::parse: one bad record refuses the whole file.               *)
(***************************************************************************)
Parses(file) ==
    /\ file # << >>
    /\ \A i \in DOMAIN file : file[i].spelt /\ (TenantRole(file[i]) \/ WorkerRole(file[i]))
    /\ IsInjective([i \in DOMAIN file |-> file[i].id])
    /\ UniqueDigests(file)

(***************************************************************************)
(* The middleware and Principals::authenticate: exactly one credential;    *)
(* the loop over the digests does not stop at the first match, so the last *)
(* matching record would be the principal.                                 *)
(***************************************************************************)
Matches(file, credential) == {i \in DOMAIN file : file[i].token = credential}

Authenticated(file, credentials) ==
    Len(credentials) = 1 /\ Matches(file, credentials[1]) # {}

Authenticate(file, credentials) ==
    file[CHOOSE i \in Matches(file, credentials[1]) :
             \A j \in Matches(file, credentials[1]) : j <= i]

(***************************************************************************)
(* Principal::owner_tenant and Principal::tenant; None is AuthError's      *)
(* Forbidden.                                                              *)
(***************************************************************************)
OwnerTenant(p) == IF p.role = "owner" THEN p.tenant ELSE None

TenantOf(p) == IF p.role \in {"owner", "invoker"} THEN p.tenant ELSE None

PermitsGrant(p, t, g) ==
    \/ p.role = "owner" /\ p.tenant = t
    \/ p.role = "invoker" /\ p.tenant = t /\ g \in Range(p.grants)

(***************************************************************************)
(* worker_tenants: the request may only confirm the configured worker_id,  *)
(* and the allowlist comes from the file.  No tenants stands for Err.      *)
(***************************************************************************)
WorkerTenants(p, worker) ==
    IF p.role = "worker" /\ p.worker = worker THEN Range(p.tenants) ELSE {}

=============================================================================
