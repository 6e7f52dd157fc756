------------------------------- MODULE Schema -------------------------------
(***************************************************************************)
(* The tables of the database as the migrations create them: which foreign *)
(* keys and unique constraints they have (002 to 005) and which rows the   *)
(* row-level security policies of 007 let a transaction read and write.    *)
(*                                                                         *)
(* A row is its identity, its tenant, the ids it refers to and the values  *)
(* its unique constraints range over; the other columns are left out.  No  *)
(* code deletes a row or moves it to another tenant.                       *)
(***************************************************************************)
EXTENDS FiniteSets, Sequences, TLC

CONSTANT None    \* NULL, an unset setting, "nobody"

\* For each table the tables its foreign keys refer to.
IdentityTables ==
    [ tenants      |-> {},
      tenant_users |-> {"tenants"} ]

CameraTables ==
    [ markets             |-> {"tenants"},
      cameras             |-> {"tenants", "markets"},
      regions_of_interest |-> {"tenants", "cameras"} ]

ContextTables ==
    [ context_modes                   |-> {"tenants"},
      context_mode_schedules          |-> {"tenants", "context_modes", "markets"},
      context_mode_camera_assignments |-> {"tenants", "context_modes", "cameras"},
      lenses                          |-> {"tenants", "context_modes"},
      rules                           |-> {"tenants", "context_modes"},
      rule_region_mappings            |-> {"tenants", "rules", "regions_of_interest"} ]

DecisionTables ==
    [ evidences          |-> {"tenants", "cameras", "regions_of_interest", "context_modes"},
      decisions          |-> {"tenants", "cameras", "regions_of_interest"},
      decision_evidences |-> {"tenants", "decisions", "evidences"} ]

RecordTables ==
    [ feedback                |-> {"tenants", "decisions"},
      audit_records           |-> {"tenants", "decisions"},
      notification_configs    |-> {"tenants"},
      notification_deliveries |-> {"tenants", "decisions", "notification_configs"} ]

\* f @@ g, which the proofs cannot unfold.
Join(f, g) == [ x \in DOMAIN f \cup DOMAIN g |-> IF x \in DOMAIN f THEN f[x] ELSE g[x] ]

Parents == Join(IdentityTables, Join(CameraTables, Join(ContextTables,
                Join(DecisionTables, RecordTables))))

-----------------------------------------------------------------------------
(* Rows.  An id names its table.  "keys" holds the primary key and the     *)
(* value of every unique constraint of the table that is not NULL; "by" is *)
(* not a column: it records who inserted the row.                          *)

Row(table, name, tenant, refs, unique, by) ==
    [ id     |-> << table, name >>,
      table  |-> table,
      tenant |-> tenant,
      refs   |-> refs \cup IF table = "tenants" \/ tenant = None THEN {}
                           ELSE { << "tenants", tenant >> },
      keys   |-> { << table, name >> } \cup unique,
      by     |-> by ]

Ids(rows) == { r.id : r \in rows }

\* The unique constraints beside the primary keys.
Slug(slug)               == << "uq_tenants_slug", slug >>
Subject(subject, tenant) == << "uq_tenant_users_subject_tenant", subject, tenant >>
EdgeDevice(device, tenant) == << "uq_cameras_tenant_edge_device", device, tenant >>
Assigned(camera)         == << "uq_context_mode_camera_assignments_camera", camera >>
Mapped(rule, region)     == << "uq_rule_region_mappings_rule_region", rule, region >>
Ingested(ingestion, tenant) == << "uq_evidences_tenant_ingestion", ingestion, tenant >>

Collide(xs, ys) == \E x \in xs, y \in ys : x.keys \cap y.keys # {}

\* Foreign keys are checked against every row, whatever the policies show.
ForeignKeysHold(xs, rows) ==
    \A x \in xs : \A ref \in x.refs :
        ref[1] \in Parents[x.table] => ref \in Ids(rows)

-----------------------------------------------------------------------------
(* Row-level security, forced on every table for the role the services     *)
(* connect with (008).  A setting that is not set compares as NULL.        *)

NoContext == [tenant |-> None, role |-> None]

\* tenants.id is the tenant column of the table tenants
OfTenant(context, row) == context.tenant # None /\ row.tenant = context.tenant

CanSee(context, row) == context.role = "root_admin" \/ OfTenant(context, row)

\* The table tenants has no insert policy but root_admin_all.
CanInsert(context, row) ==
    \/ context.role = "root_admin"
    \/ row.table # "tenants" /\ OfTenant(context, row)

=============================================================================
