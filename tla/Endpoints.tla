----------------------------- MODULE Endpoints ------------------------------
(***************************************************************************)
(* What the endpoints of the admin and triage APIs, and the jobs of the    *)
(* workers, do with the database.  Each is a record of                     *)
(*   db       where its session comes from (api/deps.py, tenant_session)   *)
(*   roles    whom require_role lets in                                    *)
(*   loads    tables of the ids it gets first, "not found" ends it         *)
(*   checks   those of them whose tenant it compares with the path         *)
(*   scan     its SELECTs in their order, each of one table: all its rows, *)
(*            the one that was asked for ("asked"), those that refer to    *)
(*            what was asked for or read ("of"; "some" when none of them   *)
(*            is an error), those that what was read refers to ("parent"), *)
(*            or those of the tenant of what was read ("tenant")           *)
(*   inserts  the table it adds to, or None                                *)
(***************************************************************************)
EXTENDS Auth

Select(table, which) == [table |-> table, which |-> which]

Admins   == { "tenant_admin", "root_admin" }
Everyone == UserRole

Creates(table, loads) ==
    [ db |-> "tenant", roles |-> Admins, loads |-> loads, checks |-> loads,
      scan |-> << >>, inserts |-> table ]

Lists(table) ==
    [ db |-> "tenant", roles |-> Admins, loads |-> {}, checks |-> {},
      scan |-> << Select(table, "all") >>, inserts |-> None ]

AsRoot(endpoint) == [endpoint EXCEPT !.db = "root", !.roles = {"root_admin"}]

-----------------------------------------------------------------------------
(* Admin API.  assign_tenant_admin does not look the tenant up, and        *)
(* create_schedule takes the market of the body as it is.                  *)

CreateTenant      == AsRoot(Creates("tenants", {}))
ListTenants       == AsRoot(Lists("tenants"))
AssignTenantAdmin == AsRoot(Creates("tenant_users", {}))

ListMarkets  == Lists("markets")
CreateMarket == Creates("markets", {})

CreateCamera == Creates("cameras", {"markets"})
ListCameras  == Lists("cameras")
CreateRegion == Creates("regions_of_interest", {"cameras"})

CreateContextMode == Creates("context_modes", {})
ListContextModes  == Lists("context_modes")
CreateSchedule    == Creates("context_mode_schedules", {"context_modes"})
CreateLens        == Creates("lenses", {"context_modes"})

\* Mutant: the regions first, then the rules.
ListRulesReversed ==
    [Lists("rules") EXCEPT
        !.scan = << Select("rule_region_mappings", "all"), Select("rules", "all") >>]

CreateRule == Creates("rules", {"context_modes"})
ListRules  == [Lists("rules") EXCEPT
                  !.scan = Append(@, Select("rule_region_mappings", "of"))]

CreateNotificationConfig == Creates("notification_configs", {})
ListNotificationConfigs  == Lists("notification_configs")
ListDecisionDeliveries   ==
    [Lists("notification_deliveries") EXCEPT
        !.loads = {"decisions"}, !.checks = {"decisions"},
        !.scan = << Select("notification_deliveries", "of") >>]

-----------------------------------------------------------------------------
(* Triage API: the reads rely on the row policies alone.  Resolving a      *)
(* decision is in the module Triage.                                       *)

ListDecisions == [Lists("decisions") EXCEPT !.roles = Everyone]

\* selectinload(Decision.evidences)
EvidencesOf == << Select("decision_evidences", "of"), Select("evidences", "parent") >>

GetDecision ==
    [Lists("decisions") EXCEPT
        !.roles = Everyone, !.loads = {"decisions"}, !.scan = EvidencesOf]

\* The join of an evidence with its link to the decision, as two reads.
GetEvidencePlayback ==
    [Lists("evidences") EXCEPT
        !.roles = Everyone, !.loads = {"decision_evidences"},
        !.scan = << Select("evidences", "parent") >>]

-----------------------------------------------------------------------------
(* Jobs of the workers, whose sessions are given their tenant and role.    *)

Job(db, loads, scan, inserts) ==
    [ db |-> db, roles |-> {}, loads |-> loads, checks |-> {},
      scan |-> scan, inserts |-> inserts ]

\* Mutant: the cameras before their assignments.
ActivateScheduledModesReversed ==
    Job("root_job", {},
        << Select("context_mode_schedules", "all"),
           Select("markets", "all"),
           Select("cameras", "all"),
           Select("context_mode_camera_assignments", "all") >>, None)

ActivateScheduledModes ==
    Job("root_job", {},
        << Select("context_mode_schedules", "all"),
           Select("markets", "all"),
           Select("context_mode_camera_assignments", "all"),
           Select("cameras", "all") >>, None)

NotifyWarning ==
    Job("root_job", {"decisions"}, << Select("notification_configs", "tenant") >>,
        "notification_deliveries")

\* The first session of an analysis: the lens and the rules of the mode, and the
\* feedback that goes into the prompt.
AnalyzeMessage ==
    Job("tenant_job", {},
        << Select("lenses", "some"), Select("rules", "of"), Select("feedback", "all") >>,
        None)

\* Its second session, after the call of the model: an evidence with the camera,
\* the region and the mode of the message, none of which it looks up.
StoreEvidence == Job("tenant_job", {}, << >>, "evidences")

\* The aggregator gets its evidence as root and takes on the tenant it finds in
\* it, which the call names, before it goes on.  It looks for the decision of the
\* open key and for the link, and adds what it does not find; the UPDATE of the
\* decision and its audit record are in the module Aggregation.
AggregateEvidence ==
    Job("tenant_job", {"evidences"},
        << Select("decisions", "asked") >> \o EvidencesOf
            \o << Select("decision_evidences", "of") >>,
        "decisions")

\* Ingestion opens no session; the seed has steps of its own.
IngestSequence == Job("none", {}, << >>, None)
Seed           == Job("seed", {}, << >>, None)

Endpoint ==
    [ create_tenant |-> CreateTenant, list_tenants |-> ListTenants,
      assign_tenant_admin |-> AssignTenantAdmin,
      list_markets |-> ListMarkets, create_market |-> CreateMarket,
      create_camera |-> CreateCamera, list_cameras |-> ListCameras,
      create_region |-> CreateRegion,
      create_context_mode |-> CreateContextMode,
      list_context_modes |-> ListContextModes,
      create_schedule |-> CreateSchedule, create_lens |-> CreateLens,
      create_rule |-> CreateRule, list_rules |-> ListRules,
      create_notification_config |-> CreateNotificationConfig,
      list_notification_configs |-> ListNotificationConfigs,
      list_decision_deliveries |-> ListDecisionDeliveries,
      list_decisions |-> ListDecisions, get_decision |-> GetDecision,
      get_evidence_playback |-> GetEvidencePlayback,
      activate_scheduled_modes |-> ActivateScheduledModes,
      notify_warning |-> NotifyWarning, analyze_message |-> AnalyzeMessage,
      store_evidence |-> StoreEvidence, aggregate_evidence |-> AggregateEvidence,
      ingest_sequence |-> IngestSequence, seed |-> Seed ]

=============================================================================
