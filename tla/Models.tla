------------------------------- MODULE Models -------------------------------
(***************************************************************************)
(* What the ORM (src/backend/app/models) believes of the database: one     *)
(* definition per mapped class, with the columns it writes as NOT NULL,    *)
(* the optional ones, and the foreign keys it joins on.  Device is the     *)
(* root of joined-table inheritance: a subtype has a row of its own that   *)
(* shares the id of the `devices` row.                                     *)
(***************************************************************************)
EXTENDS Integers

(* A class on Base (db/base.py): id, created_at and updated_at are its own. *)
Model(t, required, optional, keys) ==
    [table |-> t, required |-> required \cup {"id", "created_at", "updated_at"},
     optional |-> optional, keys |-> keys]
(* A subclass of Device: its id is the key to the parent row. *)
Subtype(t, required, optional, keys) ==
    [table |-> t, required |-> required, optional |-> optional, keys |-> keys]

AlertStateModel ==
    Model("alert_states",
        {"device_id", "alert_type", "failure_count"},
        {"last_metric_value", "last_evaluated_at"}, {<<"device_id", "devices">>})

AuditLogModel ==
    Model("audit_log",
        {"method", "path", "status_code"},
        {"client_ip", "user_agent"}, {})

AuthSessionModel ==
    Model("auth_sessions",
        {"user_id", "token_hash", "expires_at", "last_seen_at"},
        {"ip_address", "user_agent"}, {<<"user_id", "users">>})

ClientBroadcastModel ==
    Model("client_broadcasts",
        {"message", "audiences", "status"},
        {"created_by", "finished_at"}, {})

ClientBroadcastRecipientModel ==
    Model("client_broadcast_recipients",
        {"broadcast_id", "phone", "status", "attempts"},
        {"name", "error", "sent_at"}, {<<"broadcast_id", "client_broadcasts">>})

ClientConsumptionDailyModel ==
    Model("client_consumption_daily",
        {"device_id", "metric_name", "day", "bytes", "samples"},
        {"first_sample_at"}, {<<"device_id", "devices">>})

DeviceModel ==
    Model("devices",
        {"name", "device_type", "status", "auto_discovered"},
        {"ip_address", "location", "site", "latitude", "longitude", "snmp_community", "notes",
         "last_seen", "mac_address", "hostname", "firmware_version", "first_discovered_at",
         "last_discovered_at", "uplink_switch_id", "uplink_switch_port", "uplink_detected_at",
         "policy_overrides"}, {<<"uplink_switch_id", "devices">>})

RocketModel ==
    Subtype("rockets",
        {"id", "radio_tech", "ssh_port"},
        {"max_clients_override", "uisp_channel_width_mhz", "ssh_username", "ssh_password",
         "ssh_host_fingerprint"}, {<<"id", "devices">>})

LrModel ==
    Subtype("lrs",
        {"id", "model_variant", "ssh_port", "client_blocked", "lan_interface", "block_mode",
         "unblock_pending", "router_blocked", "content_block_mode", "block_adult_content",
         "topology_mode"},
        {"rocket_id", "ssh_username", "ssh_password", "ssh_host_fingerprint", "ssh_status",
         "ssh_error", "ssh_checked_at", "distance_m", "client_blocked_at",
         "client_blocked_reason", "client_block_enforced_at", "block_unenforceable_reason",
         "block_unenforceable_since", "router_blocked_at", "blocked_categories",
         "content_block_enforced_at", "plan_download_mbps", "plan_upload_mbps",
         "plan_synced_at", "uisp_mode", "uisp_status", "uisp_last_seen", "uisp_ap_name",
         "uisp_synced_at", "uisp_site_name", "uisp_crm_client_id", "uisp_crm_client_name",
         "uisp_enrolled_at"}, {<<"id", "devices">>, <<"rocket_id", "rockets">>})

UispPowerModel ==
    Subtype("uisp_powers",
        {"id", "api_port"},
        {"api_username", "api_password"}, {<<"id", "devices">>})

UispSwitchModel ==
    Subtype("uisp_switches",
        {"id", "max_ports", "port_min_speed_mbps"},
        {"rocket_port_index", "fiber_port_index"}, {<<"id", "devices">>})

AirFiberModel ==
    Subtype("airfibers",
        {"id", "ssh_port"},
        {"ssh_username", "ssh_password", "ssh_host_fingerprint", "distance_m"}, {<<"id", "devices">>})

PtpLiteBeamModel ==
    Subtype("ptp_litebeams",
        {"id", "ssh_port"},
        {"ssh_username", "ssh_password", "ssh_host_fingerprint", "distance_m"}, {<<"id", "devices">>})

ClientModemModel ==
    Subtype("client_modems",
        {"id", "management_protocol", "management_port"},
        {"lr_id", "management_username", "management_password", "management_host_fingerprint"}, {<<"id", "devices">>, <<"lr_id", "lrs">>})

DeviceMetricModel ==
    Model("device_metrics",
        {"device_id", "metric_name", "metric_value", "collected_at"},
        {"unit"}, {<<"device_id", "devices">>})

IncidentModel ==
    Model("incidents",
        {"device_id", "title", "severity", "status", "detected_at"},
        {"description", "resolved_at", "alert_type", "metric_name", "metric_value",
         "threshold_value", "last_triggered_at", "digested_at"}, {<<"device_id", "devices">>})

LrMetricSampleModel ==
    Model("lr_metric_samples",
        {"device_id", "metric_name", "bucket_start", "avg_value", "min_value", "max_value",
         "sample_count"},
        {}, {<<"device_id", "devices">>})

ManualAlertModel ==
    Model("manual_alerts",
        {"device_id", "alert_type", "severity", "title", "detected_at"},
        {"description", "acknowledged_at", "acknowledged_by"}, {<<"device_id", "devices">>})

PowerStatusLogModel ==
    Model("power_status_logs",
        {"device_id", "status", "recorded_at"},
        {"voltage", "current", "power"}, {<<"device_id", "devices">>})

ProfileModel ==
    Model("profiles",
        {"name", "is_system"},
        {"description", "permissions"}, {})

SiteLinkModel ==
    Model("site_links",
        {"site_a", "site_b", "link_type", "name_a", "name_b", "synced_at"},
        {"state", "mac_a", "mac_b"}, {})

SiteLocationModel ==
    Model("site_locations",
        {"site", "latitude", "longitude", "source"},
        {}, {})

SystemSettingModel ==
    Model("system_settings",
        {"key", "value"},
        {}, {})

TrafficDestStatModel ==
    Model("traffic_dest_stats",
        {"bucket_start", "down_bytes", "up_bytes", "flows"},
        {"asn", "as_org"}, {})

UserModel ==
    Model("users",
        {"username", "password_hash", "enabled"},
        {"full_name", "last_login_at", "profile_id"}, {<<"profile_id", "profiles">>})

Models ==
    {AlertStateModel, AuditLogModel, AuthSessionModel, ClientBroadcastModel,
     ClientBroadcastRecipientModel, ClientConsumptionDailyModel, DeviceModel, RocketModel,
     LrModel, UispPowerModel, UispSwitchModel, AirFiberModel, PtpLiteBeamModel,
     ClientModemModel, DeviceMetricModel, IncidentModel, LrMetricSampleModel, ManualAlertModel,
     PowerStatusLogModel, ProfileModel, SiteLinkModel, SiteLocationModel, SystemSettingModel,
     TrafficDestStatModel, UserModel}

=============================================================================
