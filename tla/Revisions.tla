----------------------------- MODULE Revisions -----------------------------
(***************************************************************************)
(* The migration scripts apps/api/alembic/versions/0001 to 0015 as         *)
(* sequences of statements, and the schema the application declares        *)
(* (app/db/models.py).                                                     *)
(***************************************************************************)
EXTENDS Ddl

Newest == 15

Stamped == { "created_at", "updated_at" }
Place   == { "lat", "lon", "address" }

-----------------------------------------------------------------------------
(* 0001 to 0009: the incident tables of the first product *)

IncidentColumns ==
  { "id", "slug", "title", "scenario_type", "severity", "county", "town", "river", "lat", "lon",
    "aoi_geojson", "status", "source_refs" } \cup Stamped

Upgrade0001 == <<
  CreateTable("incidents", IncidentColumns, { UniqueKey(Unnamed, "incidents", { "slug" }) }),
  UniqueIndex("incidents", "slug"),
  CreateTable("event_outbox",
    { "id", "event_type", "aggregate_id", "payload", "processed", "created_at", "processed_at" }, {}),
  CreateIndexes("event_outbox", Each({ "aggregate_id" })) >>

Downgrade0001 == <<
  DropIndexes("event_outbox", Each({ "aggregate_id" })), DropTable("event_outbox"),
  DropIndexes("incidents", Each({ "slug" })), DropTable("incidents") >>

ToIncident(t) == ForeignKey(t, "incident_id", "incidents")
ToArtifact(t) == ForeignKey(t, "artifact_id", "generated_artifacts")

ArtifactColumns ==
  { "id", "incident_id", "artifact_type", "title", "content", "status", "risk_level", "created_by" }
    \cup Stamped
ArtifactIndexes == Each({ "incident_id", "artifact_type", "status" })

ReviewColumns ==
  { "id", "incident_id", "artifact_id", "review_type", "risk_level", "status", "reviewer_note",
    "decision", "created_at", "reviewed_at" }
ReviewIndexes == Each({ "incident_id", "artifact_id", "status" })

Upgrade0002 == <<
  CreateTable("generated_artifacts", ArtifactColumns, { ToIncident("generated_artifacts") }),
  CreateIndexes("generated_artifacts", ArtifactIndexes),
  CreateTable("review_tasks", ReviewColumns, { ToIncident("review_tasks"), ToArtifact("review_tasks") }),
  CreateIndexes("review_tasks", ReviewIndexes) >>

Downgrade0002 == <<
  DropIndexes("review_tasks", ReviewIndexes), DropTable("review_tasks"),
  DropIndexes("generated_artifacts", ArtifactIndexes), DropTable("generated_artifacts") >>

DisasterColumns ==
  { "id", "incident_id", "reporter_name", "reporter_contact", "need_type", "description", "severity",
    "status", "verification_status", "raw_payload" } \cup Place \cup Stamped
DisasterIndexes ==
  Each({ "incident_id", "need_type", "severity", "status", "verification_status", "created_at" })

Upgrade0003 == <<
  CreateTable("disaster_reports", DisasterColumns, { ToIncident("disaster_reports") }),
  CreateIndexes("disaster_reports", DisasterIndexes) >>

Downgrade0003 == << DropIndexes("disaster_reports", DisasterIndexes), DropTable("disaster_reports") >>

Upgrade0004 == <<
  AddColumns("disaster_reports", { "triage_priority" }),
  CreateIndexes("disaster_reports", Each({ "triage_priority" })) >>

Downgrade0004 == <<
  DropIndexes("disaster_reports", Each({ "triage_priority" })),
  DropColumns("disaster_reports", { "triage_priority" }) >>

OfferColumns ==
  { "id", "incident_id", "offer_type", "item", "quantity", "provider_name", "provider_contact",
    "available_time", "status", "raw_payload" } \cup Place \cup Stamped
OfferIndexes == Each({ "incident_id", "offer_type", "status", "created_at" })

Upgrade0005 == <<
  CreateTable("resource_offers", OfferColumns, { ToIncident("resource_offers") }),
  CreateIndexes("resource_offers", OfferIndexes) >>

Downgrade0005 == << DropIndexes("resource_offers", OfferIndexes), DropTable("resource_offers") >>

AssignmentColumns == { "id", "incident_id", "report_id", "offer_id", "status", "note" } \cup Stamped
AssignmentKeys ==
  { ToIncident("assignments"), ForeignKey("assignments", "report_id", "disaster_reports"),
    ForeignKey("assignments", "offer_id", "resource_offers") }
AssignmentIndexes == Each({ "incident_id", "report_id", "offer_id", "status", "created_at" })

Upgrade0006 == << CreateTable("assignments", AssignmentColumns, AssignmentKeys),
                  CreateIndexes("assignments", AssignmentIndexes) >>
Downgrade0006 == << DropIndexes("assignments", AssignmentIndexes), DropTable("assignments") >>

PublicationColumns ==
  { "id", "incident_id", "artifact_id", "channel", "connector", "status", "external_ref", "detail",
    "created_at" }
PublicationKeys == { ToIncident("publications"), ToArtifact("publications") }
PublicationIndexes == Each({ "incident_id", "artifact_id", "channel", "status", "created_at" })

Upgrade0007 == << CreateTable("publications", PublicationColumns, PublicationKeys),
                  CreateIndexes("publications", PublicationIndexes) >>
Downgrade0007 == << DropIndexes("publications", PublicationIndexes), DropTable("publications") >>

FormColumns == { "id", "incident_id", "artifact_id", "form_key", "payload", "created_at" }
FormKeys    == { ToIncident("form_submissions"), ToArtifact("form_submissions") }
FormIndexes == Each({ "incident_id", "artifact_id", "form_key", "created_at" })

Upgrade0008 == << CreateTable("form_submissions", FormColumns, FormKeys),
                  CreateIndexes("form_submissions", FormIndexes) >>
Downgrade0008 == << DropIndexes("form_submissions", FormIndexes), DropTable("form_submissions") >>

Upgrade0009   == << AddColumns("publications", { "url" }) >>
Downgrade0009 == << DropColumns("publications", { "url" }) >>

-----------------------------------------------------------------------------
(* 0010: platforms, reports, clusters, cases *)

ToPlatform(t) == ForeignKey(t, "platform_id", "platforms")
ToCase(t)     == ForeignKey(t, "case_id", "incident_cases")

PlatformColumns ==
  { "id", "slug", "name", "brief", "county", "towns", "hazards", "primary_hazard", "scenario", "status",
    "modules", "layers", "configuration", "center_lat", "center_lon", "published_at" } \cup Stamped

ModuleColumns == { "id", "platform_id", "module_id", "module_type", "enabled", "config", "created_at" }

CaseColumns0010 ==
  { "id", "platform_id", "cluster_id", "case_number", "title", "category", "severity", "status", "lat",
    "lon", "town", "location_label", "report_count", "unique_reporter_count", "assigned_unit",
    "public_summary", "threshold_reached_at", "dispatched_at", "resolved_at", "closed_at" } \cup Stamped

ClusterColumns ==
  { "id", "platform_id", "category", "severity", "centroid_lat", "centroid_lon", "town", "report_count",
    "unique_reporter_count", "status", "case_id", "first_reported_at", "last_reported_at" } \cup Stamped

ReportColumns0010 ==
  { "id", "platform_id", "category", "description", "severity", "triage_severity", "town",
    "reporter_role", "reporter_name", "reporter_contact", "reporter_key", "status", "cluster_id",
    "case_id", "photo_count", "source", "raw_payload" } \cup Place \cup Stamped

DispatchColumns0010 ==
  { "id", "case_id", "platform_id", "unit_name", "team_lead", "contact", "note", "status" } \cup Stamped

EventColumns ==
  { "id", "case_id", "platform_id", "event_type", "from_status", "to_status", "actor_role", "actor_name",
    "note", "public", "payload", "created_at" }

PhotoColumns ==
  { "id", "report_id", "case_id", "platform_id", "kind", "source", "storage_key", "content_type",
    "size_bytes", "caption", "public", "created_at" }

\* Cases and clusters refer to each other: the key to clusters comes afterwards.
Upgrade0010 == <<
  CreateTable("platforms", PlatformColumns, {}),
  UniqueIndex("platforms", "slug"), CreateIndexes("platforms", Each({ "status" })),
  CreateTable("platform_module_configs", ModuleColumns,
    { ToPlatform("platform_module_configs"),
      UniqueKey("uq_platform_module", "platform_module_configs", { "platform_id", "module_id" }) }),
  CreateIndexes("platform_module_configs", Each({ "platform_id" })),
  CreateTable("incident_cases", CaseColumns0010,
    { ToPlatform("incident_cases"),
      UniqueKey("uq_incident_cases_case_number", "incident_cases", { "case_number" }) }),
  CreateIndexes("incident_cases",
    Each({ "platform_id", "category", "severity", "town" })
      \cup { { "platform_id", "status" }, { "platform_id", "created_at" } }),
  CreateTable("report_clusters", ClusterColumns, { ToPlatform("report_clusters"), ToCase("report_clusters") }),
  CreateIndexes("report_clusters", Each({ "platform_id", "case_id" }) \cup { { "platform_id", "status" } }),
  AddKey(Named(ForeignKey("incident_cases", "cluster_id", "report_clusters"),
               "fk_incident_cases_cluster_id")),
  CreateTable("reports", ReportColumns0010,
    { ToPlatform("reports"), ForeignKey("reports", "cluster_id", "report_clusters"), ToCase("reports") }),
  CreateIndexes("reports",
    Each({ "platform_id", "category", "triage_severity", "town", "reporter_key", "cluster_id", "case_id" })
      \cup { { "platform_id", "created_at" }, { "platform_id", "status" } }),
  CreateTable("case_assignments", DispatchColumns0010,
    { ToCase("case_assignments"), ToPlatform("case_assignments") }),
  CreateIndexes("case_assignments", Each({ "case_id", "platform_id" })),
  CreateTable("case_events", EventColumns, { ToCase("case_events"), ToPlatform("case_events") }),
  CreateIndexes("case_events", Each({ "case_id", "platform_id" }) \cup { { "case_id", "created_at" } }),
  CreateTable("report_photos", PhotoColumns,
    { ForeignKey("report_photos", "report_id", "reports"), ToCase("report_photos"),
      ToPlatform("report_photos") }),
  CreateIndexes("report_photos", Each({ "report_id", "case_id", "platform_id" })) >>

Downgrade0010 == <<
  DropTable("report_photos"), DropTable("case_events"), DropTable("case_assignments"),
  DropTable("reports"), DropKey("incident_cases", "fk_incident_cases_cluster_id"),
  DropTable("report_clusters"), DropTable("incident_cases"),
  DropTable("platform_module_configs"), DropTable("platforms") >>

-----------------------------------------------------------------------------
(* 0011 to 0013 *)

Upgrade0011 == <<
  DropCascade("form_submissions"), DropCascade("publications"), DropCascade("assignments"),
  DropCascade("resource_offers"), DropCascade("review_tasks"), DropCascade("generated_artifacts"),
  DropCascade("disaster_reports"), DropCascade("incidents") >>

Downgrade0011 == <<
  CreateTable("incidents", IncidentColumns, {}), UniqueIndex("incidents", "slug"),
  CreateTable("generated_artifacts", ArtifactColumns, { ToIncident("generated_artifacts") }),
  CreateIndexes("generated_artifacts", ArtifactIndexes),
  CreateTable("review_tasks", ReviewColumns, { ToIncident("review_tasks"), ToArtifact("review_tasks") }),
  CreateIndexes("review_tasks", ReviewIndexes),
  CreateTable("disaster_reports", DisasterColumns \cup { "triage_priority" },
    { ToIncident("disaster_reports") }),
  CreateIndexes("disaster_reports", DisasterIndexes \cup Each({ "triage_priority" })),
  CreateTable("resource_offers", OfferColumns, { ToIncident("resource_offers") }),
  CreateIndexes("resource_offers", OfferIndexes),
  CreateTable("assignments", AssignmentColumns, AssignmentKeys),
  CreateIndexes("assignments", AssignmentIndexes),
  CreateTable("publications", PublicationColumns \cup { "url" }, PublicationKeys),
  CreateIndexes("publications", PublicationIndexes),
  CreateTable("form_submissions", FormColumns, FormKeys), CreateIndexes("form_submissions", FormIndexes) >>

GlobalNumber   == UniqueKey("uq_incident_cases_case_number", "incident_cases", { "case_number" })
PlatformNumber ==
  UniqueKey("uq_incident_cases_platform_case_number", "incident_cases", { "platform_id", "case_number" })

Upgrade0012   == << DropKey("incident_cases", GlobalNumber.name), AddKey(PlatformNumber) >>
Downgrade0012 == << DropKey("incident_cases", PlatformNumber.name), AddKey(GlobalNumber) >>

UnitColumns ==
  { "id", "county", "town", "name", "kind", "phone", "location_source", "source", "external_id",
    "line_to", "active" } \cup Place \cup Stamped
UnitKeys == { UniqueKey("uq_responder_units_county_external", "responder_units", { "county", "external_id" }) }

DispatchColumns0013 ==
  { "unit_id", "route_geojson", "route_source", "distance_m", "eta_minutes", "vehicles", "notified_via",
    "notified_at", "departed_at" }

VehicleColumns ==
  { "id", "unit_id", "vehicle_id", "kind", "lat", "lon", "heading", "speed_kmh", "case_id",
    "recorded_at", "payload", "created_at" }
VehicleKeys == { ForeignKey("vehicle_positions", "unit_id", "responder_units"), ToCase("vehicle_positions") }
VehicleIndexes == Each({ "unit_id", "case_id", "recorded_at" }) \cup { { "vehicle_id", "recorded_at" } }

ToUnit == ForeignKey("case_assignments", "unit_id", "responder_units")

Upgrade0013 == <<
  CreateTable("responder_units", UnitColumns, UnitKeys),
  CreateIndexes("responder_units", Each({ "county", "kind" })),
  AddColumns("case_assignments", DispatchColumns0013),
  AddKey(Named(ToUnit, "fk_case_assignments_unit_id")),
  CreateIndexes("case_assignments", Each({ "unit_id" })),
  CreateTable("vehicle_positions", VehicleColumns, VehicleKeys),
  CreateIndexes("vehicle_positions", VehicleIndexes) >>

Downgrade0013 == <<
  DropTable("vehicle_positions"),
  DropIndexes("case_assignments", Each({ "unit_id" })),
  DropKey("case_assignments", "fk_case_assignments_unit_id"),
  DropColumns("case_assignments", DispatchColumns0013),
  DropTable("responder_units") >>

-----------------------------------------------------------------------------
(* 0014 and 0015: review, EMIC, accounts; encryption *)

\* Slip: what an agency had resolved is sent back to it.
StatusUp_slip ==
  << << "reported", "pending_review" >>, << "verifying", "pending_review" >>,
     << "threshold_reached", "pending_review" >>, << "awaiting_dispatch", "pending_review" >>,
     << "assigned", "emic_processing" >>, << "en_route", "emic_processing" >>,
     << "on_site", "emic_processing" >>, << "processing", "emic_processing" >>,
     << "resolved", "emic_processing" >> >>

StatusUp ==
  << << "reported", "pending_review" >>, << "verifying", "pending_review" >>,
     << "threshold_reached", "pending_review" >>, << "awaiting_dispatch", "pending_review" >>,
     << "assigned", "emic_processing" >>, << "en_route", "emic_processing" >>,
     << "on_site", "emic_processing" >>, << "processing", "emic_processing" >>,
     << "resolved", "closed" >> >>

StatusDown ==
  << << "pending_review", "awaiting_dispatch" >>, << "reported_emic", "processing" >>,
     << "emic_processing", "processing" >>, << "community_open", "awaiting_dispatch" >>,
     << "community_submitted", "awaiting_dispatch" >> >>

\* Slip: the history keeps the old vocabulary.
RemapStatus_slip(pairs) ==
  [i \in 1 .. Len(pairs) |-> Remap("incident_cases", { "status" }, pairs[i][1], pairs[i][2])]

\* One old status after the other, in the rows and in their history.
RemapStatus(pairs) ==
  [i \in 1 .. 2 * Len(pairs) |->
     LET pair == pairs[(i + 1) \div 2] IN
     IF i % 2 = 1 THEN Remap("incident_cases", { "status" }, pair[1], pair[2])
     ELSE Remap("case_events", { "from_status", "to_status" }, pair[1], pair[2])]

CaseColumns0014 ==
  { "track", "reviewed_by", "emic_case_no", "emic_status", "emic_channel", "reviewed_at",
    "emic_reported_at", "emic_synced_at", "community_submitted_at" }

ReportColumns0014 == { "reporter_email", "notify_opt_in", "notify_token" }

UserColumns ==
  { "id", "username", "display_name", "password_hash", "role", "active", "failed_attempts",
    "locked_until", "last_login_at", "token_version", "must_change_password" } \cup Stamped

LogColumns ==
  { "id", "platform_id", "case_id", "report_id", "channel", "kind", "recipient", "status", "detail",
    "created_at" }

GroupColumns == { "id", "group_id", "platform_id", "status", "bound_at" } \cup Stamped

EmicTrack ==
  CopyWhere("incident_cases", "dispatched_at", Null,
            [ track |-> "emic", emic_channel |-> "manual", reviewed_at |-> "dispatched_at",
              emic_reported_at |-> "dispatched_at" ])

\* Before the statuses change: the columns they decide, while dispatched_at tells
\* which cases an agency had.
Track0014 ==
  << AddColumns("incident_cases", CaseColumns0014),
     CreateIndexes("incident_cases", Each({ "track" })),
     EmicTrack >>

Accounts0014 ==
  << DropColumns("incident_cases", { "dispatched_at" }),
     AddColumns("reports", ReportColumns0014),
     AddKey(UniqueKey("uq_reports_notify_token", "reports", { "notify_token" })),
     CreateTable("users", UserColumns, {}), UniqueIndex("users", "username"),
     CreateTable("notification_logs", LogColumns,
       { ToPlatform("notification_logs"), ToCase("notification_logs"),
         ForeignKey("notification_logs", "report_id", "reports") }),
     CreateIndexes("notification_logs",
       Each({ "platform_id", "case_id" }) \cup { { "platform_id", "created_at" } }),
     CreateTable("line_groups", GroupColumns,
       { ToPlatform("line_groups"), UniqueKey("uq_line_groups_group_id", "line_groups", { "group_id" }) }),
     CreateIndexes("line_groups", Each({ "platform_id" })),
     DropTable("vehicle_positions"), DropTable("case_assignments"), DropTable("responder_units") >>

Upgrade0014 == Track0014 \o RemapStatus(StatusUp) \o Accounts0014

\* The key of the assignments to their unit comes back without its name.
Dispatch0014 ==
  << CreateTable("responder_units", UnitColumns, UnitKeys),
     CreateIndexes("responder_units", Each({ "county", "kind" })),
     CreateTable("case_assignments", DispatchColumns0010 \cup DispatchColumns0013,
       { ToCase("case_assignments"), ToPlatform("case_assignments"), ToUnit }),
     CreateIndexes("case_assignments", Each({ "case_id", "platform_id", "unit_id" })),
     CreateTable("vehicle_positions", VehicleColumns, VehicleKeys),
     CreateIndexes("vehicle_positions", VehicleIndexes),
     DropTable("line_groups"), DropTable("notification_logs"), DropTable("users"),
     DropKey("reports", "uq_reports_notify_token"), DropColumns("reports", ReportColumns0014),
     AddColumns("incident_cases", { "dispatched_at" }),
     CopyWhere("incident_cases", "track", "emic", [ dispatched_at |-> "reviewed_at" ]) >>

Untrack0014 ==
  << DropIndexes("incident_cases", Each({ "track" })), DropColumns("incident_cases", CaseColumns0014) >>

Downgrade0014 == Dispatch0014 \o RemapStatus(StatusDown) \o Untrack0014

\* Slip: the addresses a later script added are left as they are.
PersonalColumns_slip == { "reporter_name", "reporter_contact" }

PersonalColumns == { "reporter_name", "reporter_contact", "reporter_email" }

Upgrade0015   == << Recode("reports", PersonalColumns, "encrypt") >>
Downgrade0015 == << Recode("reports", PersonalColumns, "decrypt") >>

-----------------------------------------------------------------------------
(* The chain of revisions: down_revision of each is the one before it *)

Upgrade ==
  << Upgrade0001, Upgrade0002, Upgrade0003, Upgrade0004, Upgrade0005, Upgrade0006, Upgrade0007,
     Upgrade0008, Upgrade0009, Upgrade0010, Upgrade0011, Upgrade0012, Upgrade0013, Upgrade0014,
     Upgrade0015 >>

Downgrade ==
  << Downgrade0001, Downgrade0002, Downgrade0003, Downgrade0004, Downgrade0005, Downgrade0006,
     Downgrade0007, Downgrade0008, Downgrade0009, Downgrade0010, Downgrade0011, Downgrade0012,
     Downgrade0013, Downgrade0014, Downgrade0015 >>

-----------------------------------------------------------------------------
(* The schema the application declares *)

Model(t, cols, keys, indexes) ==
  [ on |-> t, cols |-> cols, keys |-> { Named(k, Unnamed) : k \in keys }, indexes |-> indexes ]

Models == {
  Model("event_outbox",
    { "id", "event_type", "aggregate_id", "payload", "processed", "created_at", "processed_at" }, {}, {}),
  Model("platforms", PlatformColumns, { UniqueKey("", "platforms", { "slug" }) },
    Each({ "slug", "status" })),
  Model("platform_module_configs", ModuleColumns,
    { ToPlatform("platform_module_configs"),
      UniqueKey("", "platform_module_configs", { "platform_id", "module_id" }) }, Each({ "platform_id" })),
  Model("reports", ReportColumns0010 \cup { "reporter_email", "notify_opt_in", "notify_token" },
    { ToPlatform("reports"), ForeignKey("reports", "cluster_id", "report_clusters"), ToCase("reports"),
      UniqueKey("", "reports", { "notify_token" }) },
    Each({ "platform_id", "category", "triage_severity", "town", "reporter_key", "cluster_id", "case_id" })
      \cup { { "platform_id", "created_at" }, { "platform_id", "status" } }),
  Model("report_clusters", ClusterColumns, { ToPlatform("report_clusters"), ToCase("report_clusters") },
    Each({ "platform_id", "case_id" }) \cup { { "platform_id", "status" } }),
  Model("incident_cases",
    { "id", "platform_id", "cluster_id", "case_number", "title", "category", "severity", "status", "track",
      "lat", "lon", "town", "location_label", "report_count", "unique_reporter_count", "assigned_unit",
      "public_summary", "reviewed_by", "reviewed_at", "emic_case_no", "emic_status", "emic_reported_at",
      "emic_synced_at", "emic_channel", "community_submitted_at", "threshold_reached_at", "resolved_at",
      "closed_at" } \cup Stamped,
    { ToPlatform("incident_cases"), ForeignKey("incident_cases", "cluster_id", "report_clusters"),
      UniqueKey("", "incident_cases", { "platform_id", "case_number" }) },
    Each({ "platform_id", "category", "severity", "track", "town" })
      \cup { { "platform_id", "status" }, { "platform_id", "created_at" } }),
  Model("users", UserColumns, { UniqueKey("", "users", { "username" }) }, Each({ "username" })),
  Model("notification_logs", LogColumns,
    { ToPlatform("notification_logs"), ToCase("notification_logs"),
      ForeignKey("notification_logs", "report_id", "reports") },
    Each({ "platform_id", "case_id" }) \cup { { "platform_id", "created_at" } }),
  Model("line_groups", GroupColumns,
    { ToPlatform("line_groups"), UniqueKey("", "line_groups", { "group_id" }) }, Each({ "platform_id" })),
  Model("case_events", EventColumns, { ToCase("case_events"), ToPlatform("case_events") },
    Each({ "case_id", "platform_id" }) \cup { { "case_id", "created_at" } }),
  Model("report_photos", PhotoColumns,
    { ForeignKey("report_photos", "report_id", "reports"), ToCase("report_photos"),
      ToPlatform("report_photos") },
    Each({ "report_id", "case_id", "platform_id" })) }
=============================================================================
