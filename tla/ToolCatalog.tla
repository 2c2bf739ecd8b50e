---------------------------- MODULE ToolCatalog ----------------------------
(***************************************************************************)
(* The tools that server.py registers with MCP, and the scope policy's     *)
(* tables of tool names (auth/authorization.py).  A tool is listed under   *)
(* "reads" when it is registered with read_only_hint, under "changes" when *)
(* it is not, and under "confirmed" when it also does nothing without its  *)
(* argument confirm=true.                                                  *)
(***************************************************************************)

StatusTools ==
  [reads     |-> {"get_server_health", "get_plugin_status", "get_snapshot_capabilities"},
   changes   |-> {},
   confirmed |-> {}]

SnapshotTools ==
  [reads     |-> {"verify_snapshot"},
   changes   |-> {},
   confirmed |-> {"export_portable_snapshot", "export_network_report"}]

ObservationTools ==
  [reads     |-> {"query_observation_trends", "list_observation_scopes",
                  "get_observation_retention_status"},
   changes   |-> {"capture_observations_now"},
   confirmed |-> {}]

TagTools ==
  [reads     |-> {"get_client_organization"},
   changes   |-> {},
   confirmed |-> {"set_client_tags"}]

GroupTools ==
  [reads     |-> {},
   changes   |-> {},
   confirmed |-> {"create_client_group", "delete_client_group", "assign_client_group"}]

GroupLists ==
  [reads     |-> {"list_client_groups", "list_clients_by_organization"},
   changes   |-> {},
   confirmed |-> {}]

QosTools ==
  [reads     |-> {"get_client_qos_capabilities"},
   changes   |-> {"plan_client_qos_policy"},
   confirmed |-> {"apply_client_qos_policy"}]

EventTools ==
  [reads     |-> {"list_runtime_events", "get_event_polling_status"},
   changes   |-> {"poll_events_now"},
   confirmed |-> {}]

ScheduleTools ==
  [reads     |-> {"list_schedules"},
   changes   |-> {},
   confirmed |-> {"create_interval_schedule", "set_schedule_enabled", "delete_schedule"}]

JobTools ==
  [reads     |-> {"list_job_runs"},
   changes   |-> {},
   confirmed |-> {"run_schedule_now"}]

DestinationTools ==
  [reads     |-> {"list_webhook_destinations"},
   changes   |-> {},
   confirmed |-> {"create_webhook_destination", "set_webhook_destination_enabled",
                  "delete_webhook_destination"}]

DeliveryTools ==
  [reads     |-> {"list_webhook_deliveries"},
   changes   |-> {},
   confirmed |-> {"test_webhook_destination"}]

DeviceTools ==
  [reads     |-> {"list_devices", "get_device_details"},
   changes   |-> {"restart_device", "locate_device"},
   confirmed |-> {}]

FirmwareTools ==
  [reads     |-> {"get_device_stats"},
   changes   |-> {"upgrade_device", "provision_device"},
   confirmed |-> {}]

PortTools ==
  [reads     |-> {"get_device_ports"},
   changes   |-> {},
   confirmed |-> {"set_device_port"}]

ClientLists ==
  [reads     |-> {"list_clients", "list_all_clients", "get_client_details"},
   changes   |-> {},
   confirmed |-> {}]

ClientAccessTools ==
  [reads     |-> {},
   changes   |-> {"block_client", "unblock_client", "kick_client", "forget_client"},
   confirmed |-> {}]

ClientTrafficTools ==
  [reads     |-> {"get_client_traffic"},
   changes   |-> {"reserve_client_ip"},
   confirmed |-> {}]

SiteTools ==
  [reads     |-> {"list_sites", "get_site_health", "get_site_settings", "get_sysinfo"},
   changes   |-> {"update_site_settings"},
   confirmed |-> {}]

NetworkTools ==
  [reads     |-> {"get_networks"},
   changes   |-> {},
   confirmed |-> {"create_network"}]

NetworkChangeTools ==
  [reads     |-> {},
   changes   |-> {},
   confirmed |-> {"update_network", "delete_network"}]

ConfigurationLists ==
  [reads     |-> {"get_wlans", "get_port_profiles", "get_firewall_rules",
                  "get_firewall_policies"},
   changes   |-> {},
   confirmed |-> {}]

WlanUpdateTools ==
  [reads     |-> {},
   changes   |-> {"update_wlan"},
   confirmed |-> {}]

WlanLifecycleTools ==
  [reads     |-> {},
   changes   |-> {"create_wlan"},
   confirmed |-> {"delete_wlan"}]

FirewallPolicyTools ==
  [reads     |-> {},
   changes   |-> {"create_firewall_policy", "set_firewall_policy_enabled"},
   confirmed |-> {"delete_firewall_policy"}]

FirewallRuleTools ==
  [reads     |-> {},
   changes   |-> {"create_firewall_rule", "update_firewall_rule"},
   confirmed |-> {"delete_firewall_rule"}]

PortForwardTools ==
  [reads     |-> {"get_port_forwards"},
   changes   |-> {"create_port_forward"},
   confirmed |-> {"delete_port_forward"}]

RoutingTools ==
  [reads     |-> {"get_all_sites_health", "get_routing_table"},
   changes   |-> {},
   confirmed |-> {}]

HealthTools ==
  [reads     |-> {"get_network_health", "get_recent_events", "get_alarms"},
   changes   |-> {"archive_all_alarms"},
   confirmed |-> {}]

SpeedTestTools ==
  [reads     |-> {"get_speed_test_status", "get_dpi_stats", "get_traffic_summary"},
   changes   |-> {"run_speed_test"},
   confirmed |-> {}]

InsightTools ==
  [reads     |-> {"analyze_network_issues", "get_optimization_recommendations",
                  "get_client_experience_report", "get_device_health_summary"},
   changes   |-> {},
   confirmed |-> {}]

TroubleshootingTools ==
  [reads     |-> {"get_traffic_analysis", "troubleshoot_client"},
   changes   |-> {},
   confirmed |-> {}]

CameraTools ==
  [reads     |-> {"list_cameras", "get_camera_details", "get_camera_snapshot"},
   changes   |-> {"update_camera"},
   confirmed |-> {}]

ProtectStatusTools ==
  [reads     |-> {"get_protect_system_info", "get_camera_health_summary", "get_liveviews",
                  "get_protect_accessories"},
   changes   |-> {},
   confirmed |-> {}]

DetectionTools ==
  [reads     |-> {"get_motion_events", "get_smart_detections", "get_protect_event_summary"},
   changes   |-> {},
   confirmed |-> {}]

ActivityTools ==
  [reads     |-> {"get_recent_protect_activity"},
   changes   |-> {},
   confirmed |-> {}]

FleetTools ==
  [reads     |-> {"list_unifi_devices", "get_global_inventory", "get_global_health",
                  "get_global_client_summary"},
   changes   |-> {},
   confirmed |-> {}]

ClipTools ==
  [reads     |-> {},
   changes   |-> {},
   confirmed |-> {"export_camera_clip"}]

Groups ==
  {StatusTools, SnapshotTools, ObservationTools, TagTools, GroupTools, GroupLists,
   QosTools, EventTools, ScheduleTools, JobTools, DestinationTools, DeliveryTools,
   DeviceTools, FirmwareTools, PortTools, ClientLists, ClientAccessTools,
   ClientTrafficTools, SiteTools, NetworkTools, NetworkChangeTools, ConfigurationLists,
   WlanUpdateTools, WlanLifecycleTools, FirewallPolicyTools, FirewallRuleTools,
   PortForwardTools, RoutingTools, HealthTools, SpeedTestTools, InsightTools,
   TroubleshootingTools, CameraTools, ProtectStatusTools, DetectionTools, ActivityTools,
   FleetTools, ClipTools}

\* Registered to read, refusing without confirm=true, and registered to change something.
Reads == UNION {g.reads : g \in Groups}
Confirmed == UNION {g.confirmed : g \in Groups}
Changes == UNION {g.changes : g \in Groups} \cup Confirmed
Catalog == Reads \cup Changes

-----------------------------------------------------------------------------
(* The scope policy. *)

\* Tools that take the write scope, and those that take the admin scope as well.
WriteTools ==
  {"apply_client_qos_policy", "archive_all_alarms", "assign_client_group",
   "block_client", "capture_observations_now", "create_client_group",
   "create_firewall_policy", "create_interval_schedule", "create_network",
   "create_port_forward", "create_webhook_destination", "create_wlan",
   "delete_client_group", "delete_firewall_policy", "delete_network",
   "delete_port_forward", "delete_schedule", "delete_webhook_destination",
   "delete_wlan", "export_camera_clip", "export_network_report",
   "export_portable_snapshot", "forget_client", "kick_client", "locate_device",
   "plan_client_qos_policy", "poll_events_now", "provision_device",
   "reserve_client_ip", "restart_device", "run_schedule_now", "run_speed_test",
   "set_client_tags", "set_device_port", "set_firewall_policy_enabled",
   "set_schedule_enabled", "set_webhook_destination_enabled",
   "test_webhook_destination", "unblock_client", "update_network", "update_wlan",
   "upgrade_device"}

AdminMutations ==
  {"capture_observations_now", "create_interval_schedule",
   "create_webhook_destination", "delete_schedule",
   "delete_webhook_destination", "poll_events_now", "run_schedule_now",
   "set_schedule_enabled", "set_webhook_destination_enabled",
   "test_webhook_destination"}

\* A tool that only reads and takes the admin scope nevertheless.
AdminReads == {"get_plugin_status"}

\* Tools that change something and that the policy does not name.
Unclassified == Changes \ WriteTools

=============================================================================
