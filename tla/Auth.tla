-------------------------------- MODULE Auth --------------------------------
(***************************************************************************)
(* Who a request comes from: the claims of a token (integrations/auth0.py),*)
(* the context the services build from them (core/auth.py) and the access  *)
(* rules of api/deps.py.  A token is a record of its verdict - what        *)
(* decoding it says - and its payload, a function on the claims it carries.*)
(*                                                                         *)
(* The outcome of a check is a record with the HTTP status it ends in; 200 *)
(* means that the request goes on.                                         *)
(***************************************************************************)
EXTENDS Schema

CONSTANT
    MalformedUuid    \* a claim that is no UUID, as the one for a tenant

UserRole == { "root_admin", "tenant_admin", "watcher" }

\* What jwt.decode may say of a token; "missing": there is none.  A failure to
\* fetch the keys and a claim of a wrong JSON type, which end in a 500, are not
\* told apart from "invalid": they let nobody in either.
Verdict == { "ok", "missing", "expired", "invalid" }

\* A claim may come under its name or under the namespace of the application.
Namespaced == [ role |-> "ns/role", tenant_id |-> "ns/tenant_id",
                camera_id |-> "ns/camera_id" ]

ClaimOr(payload, name, default) ==
    IF name \in DOMAIN payload THEN payload[name] ELSE default

ExtractStandardClaims(payload) ==
    [ name \in {"role", "tenant_id", "camera_id"} |->
          ClaimOr(payload, name, ClaimOr(payload, Namespaced[name], None)) ]
    @@ [ gty |-> ClaimOr(payload, "gty", None) ]

\* A token the mock identity provider issues, which knows no namespace.
MockToken(role, tenant, camera) ==
    [ verdict |-> "ok",
      payload |-> [role |-> role, tenant_id |-> tenant]
                  @@ IF camera = None THEN << >> ELSE [camera_id |-> camera] ]

MockM2mToken(tenant, camera) ==
    [ verdict |-> "ok",
      payload |-> [tenant_id |-> tenant, camera_id |-> camera,
                   gty |-> "client-credentials"] ]

\* The tokens of the development personas; root's tenant is the empty string.
DevSession(tenant, camera) ==
    [ root    |-> MockToken("root_admin", None, None),
      admin   |-> MockToken("tenant_admin", tenant, None),
      watcher |-> MockToken("watcher", tenant, None),
      edge    |-> MockM2mToken(tenant, camera) ]

-----------------------------------------------------------------------------

Refused(status) == [status |-> status, role |-> None, tenant |-> None]

\* The status of a role claim: absent and unknown roles are 401.
ParseRole(role) == IF role \in UserRole THEN 200 ELSE 401

\* A tenant is required of everybody but root, whose malformed tenant is an
\* uncaught ValueError.
ParseTenantId(tenant, role) ==
    IF role = "root_admin"
    THEN IF tenant = MalformedUuid THEN 500 ELSE 200
    ELSE IF tenant \in {None, MalformedUuid} THEN 401 ELSE 200

AuthContextFromToken(token) ==
    LET claims == ExtractStandardClaims(token.payload)
        tenantStatus == ParseTenantId(claims.tenant_id, claims.role)
    IN  IF token.verdict # "ok" \/ ParseRole(claims.role) # 200 THEN Refused(401)
        ELSE IF tenantStatus # 200 THEN Refused(tenantStatus)
        ELSE IF claims.camera_id = MalformedUuid THEN Refused(401)
        ELSE [status |-> 200, role |-> claims.role, tenant |-> claims.tenant_id]

\* get_edge_auth_context: only machine tokens that name a tenant and a camera.
EdgeAuthContext(token) ==
    LET claims == ExtractStandardClaims(token.payload)
    IN  IF \/ token.verdict # "ok"
           \/ claims.gty # "client-credentials"
           \/ {claims.tenant_id, claims.camera_id} \cap {None, MalformedUuid} # {}
        THEN Refused(401)
        ELSE [status |-> 200, role |-> "edge", tenant |-> claims.tenant_id]

\* require_tenant_access: root may go to any tenant, others to their own.
TenantAccess(auth, tenant) == auth.role = "root_admin" \/ auth.tenant = tenant

\* Mutant: require_role was forgotten.
HasAnyRole(auth, roles) == auth.role \in UserRole

\* require_role
HasRole(auth, roles) == auth.role \in roles

=============================================================================
