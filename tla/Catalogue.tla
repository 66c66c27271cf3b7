----------------------------- MODULE Catalogue -----------------------------
(***************************************************************************)
(* The vocabulary platforms are composed from: the modules                 *)
(* (app/modules/aidflow_modules.py), the hazards (app/domain/hazards.py)   *)
(* and the report categories (app/domain/categories.py).                   *)
(*                                                                         *)
(* Names, descriptions, surfaces, keywords and severities are left out, and*)
(* the hazards of layer modules, which no composition reads.               *)
(***************************************************************************)
EXTENDS Sequences

HazardKeys == { "typhoon", "heavy_rain", "flood", "landslide", "earthquake", "barrier_lake" }

Water     == { "typhoon", "heavy_rain", "flood", "barrier_lake", "landslide" }
Slope     == { "heavy_rain", "landslide", "typhoon", "earthquake" }
AnyHazard   == HazardKeys \cup { "*" }

-----------------------------------------------------------------------------
(* Modules *)

\* The modules no platform can do without, map layers apart.
CoreFeatures ==
  { "report_form", "report_category", "geo_location", "photo_upload", "severity_triage",
    "geo_cluster", "duplicate_report_merge", "two_report_trigger", "incident_case_creation",
    "case_review", "case_status", "emic_report", "community_handling", "incident_map",
    "public_timeline", "status_progress", "public_case_list", "incident_statistics",
    "privacy_mask", "personal_data_redaction", "line_group_notify", "progress_subscription",
    "map_embed" }

\* Suggested for the hazards given.
DefaultFor ==
  [ reporter_role |-> AnyHazard, trend_visualization |-> AnyHazard,
    nantou_open_data_connector |-> AnyHazard, moi_shelter_connector |-> AnyHazard,
    cwa_connector |-> AnyHazard, wra_connector |-> Water, ardswc_connector |-> Slope,
    tdx_connector |-> AnyHazard, moi_population_connector |-> AnyHazard ]

\* Only on request, or as what another module needs.
DefaultOff == { "ncdr_connector", "taipower_connector" }

\* The map layers in the order of their registration, and their modules.
LayerOrder ==
  << "citizen_reports", "incident_cases", "report_clusters", "heatmap", "government_processing",
     "flooding", "road_damage", "landslide", "trapped_people", "building_damage", "lifeline",
     "shelter", "fire_station", "official_alert", "rainfall", "water", "radar", "debris_flow",
     "landslide_zone", "road_traffic", "reservoir", "population", "power_outage" >>

LayerModule ==
  [ citizen_reports |-> "citizen_report_layer", incident_cases |-> "incident_case_layer",
    report_clusters |-> "report_cluster_layer", heatmap |-> "heatmap_layer",
    government_processing |-> "government_processing_layer", flooding |-> "flooding_layer",
    road_damage |-> "road_damage_layer", landslide |-> "landslide_layer",
    trapped_people |-> "trapped_people_layer", building_damage |-> "building_damage_layer",
    lifeline |-> "lifeline_layer", shelter |-> "shelter_layer",
    fire_station |-> "fire_station_layer", official_alert |-> "official_alert_layer",
    rainfall |-> "rainfall_layer", water |-> "water_layer", radar |-> "radar_layer",
    debris_flow |-> "debris_flow_layer", landslide_zone |-> "landslide_zone_layer",
    road_traffic |-> "road_traffic_layer", reservoir |-> "reservoir_layer",
    population |-> "population_layer", power_outage |-> "power_outage_layer" ]

LayerKeys == DOMAIN LayerModule

\* The layers fed by official data and their connectors (field "source").
Source ==
  [ shelter |-> "moi_shelter_connector", fire_station |-> "nantou_open_data_connector",
    official_alert |-> "cwa_connector", rainfall |-> "cwa_connector", water |-> "wra_connector",
    radar |-> "cwa_connector", debris_flow |-> "ardswc_connector",
    landslide_zone |-> "ardswc_connector", road_traffic |-> "tdx_connector",
    reservoir |-> "wra_connector", population |-> "moi_population_connector",
    power_outage |-> "taipower_connector" ]

CoreLayers == { "citizen_reports", "incident_cases", "report_clusters" }

CoreIds == CoreFeatures \cup { LayerModule[l] : l \in CoreLayers }

ModuleIds ==
  CoreFeatures \cup DOMAIN DefaultFor \cup DefaultOff \cup { LayerModule[l] : l \in LayerKeys }

\* What the features need; a layer of official data needs its connector.
Needs ==
  [ report_category |-> { "report_form" }, geo_location |-> { "report_form" },
    photo_upload |-> { "report_form" }, reporter_role |-> { "report_form" },
    duplicate_report_merge |-> { "geo_cluster" },
    two_report_trigger |-> { "geo_cluster", "duplicate_report_merge" },
    incident_case_creation |-> { "two_report_trigger" },
    case_review |-> { "incident_case_creation" }, case_status |-> { "case_review" },
    emic_report |-> { "case_status" }, community_handling |-> { "case_status", "photo_upload" },
    progress_subscription |-> { "report_form" }, map_embed |-> { "incident_map" } ]

Dependencies ==
  [ m \in ModuleIds |->
      IF m \in DOMAIN Needs THEN Needs[m]
      ELSE { Source[l] : l \in { k \in DOMAIN Source : LayerModule[k] = m } } ]

-----------------------------------------------------------------------------
(* Hazards *)

HazardCategories ==
  [ typhoon |-> { "flooding", "fallen_tree", "power_outage", "road_blocked", "road_collapse",
                  "bridge_damage", "trapped_person", "building_damage", "other" },
    heavy_rain |-> { "flooding", "road_collapse", "landslide", "road_blocked", "bridge_damage",
                     "trapped_person", "embankment_damage", "other" },
    flood |-> { "flooding", "embankment_damage", "trapped_person", "road_blocked",
                "power_outage", "other" },
    landslide |-> { "landslide", "road_collapse", "road_blocked", "trapped_person",
                    "bridge_damage", "building_damage", "other" },
    earthquake |-> { "building_damage", "trapped_person", "fire", "gas_leak", "road_collapse",
                     "bridge_damage", "power_outage", "water_outage", "other" },
    barrier_lake |-> { "flooding", "embankment_damage", "road_blocked", "trapped_person",
                       "bridge_damage", "other" } ]

HazardLayers ==
  [ typhoon |-> << "flooding", "road_damage", "shelter", "official_alert", "rainfall", "radar",
                   "water", "reservoir", "debris_flow", "road_traffic", "population",
                   "power_outage" >>,
    heavy_rain |-> << "flooding", "rainfall", "radar", "water", "reservoir", "road_damage",
                      "landslide", "debris_flow", "landslide_zone", "road_traffic",
                      "official_alert", "population" >>,
    flood |-> << "flooding", "water", "reservoir", "rainfall", "radar", "road_damage",
                 "road_traffic", "shelter", "official_alert", "population" >>,
    landslide |-> << "landslide", "debris_flow", "landslide_zone", "road_damage",
                     "road_traffic", "rainfall", "radar", "shelter", "official_alert",
                     "population" >>,
    earthquake |-> << "building_damage", "trapped_people", "shelter", "fire_station",
                      "official_alert", "road_damage" >>,
    barrier_lake |-> << "flooding", "water", "rainfall", "shelter", "official_alert",
                        "road_damage" >> ]

-----------------------------------------------------------------------------
(* Report categories, in the order of the citizens' form *)

FormOrder ==
  << "road_collapse", "flooding", "landslide", "trapped_person", "bridge_damage",
     "road_blocked", "fallen_tree", "building_damage", "fire", "gas_leak",
     "embankment_damage", "power_outage", "water_outage", "medical_need", "other" >>

Categories == { FormOrder[i] : i \in DOMAIN FormOrder }
=============================================================================
