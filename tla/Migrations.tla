----------------------------- MODULE Migrations -----------------------------
(***************************************************************************)
(* The Alembic history of the supervisor's database                        *)
(* (src/backend/alembic/versions): one definition per revision file, with  *)
(* the statements of its upgrade and of its downgrade in the order the     *)
(* file runs them, and `Migrations`, the files in the order their          *)
(* down_revision links put them.                                           *)
(*                                                                         *)
(* A schema is a set of facts: a table, a column of a table, that a column *)
(* is NOT NULL or has a server default, an index, a unique constraint, a   *)
(* foreign key, a trigger, a materialised view, and the body a SQL         *)
(* function has.  Column types, comments and storage parameters are left   *)
(* out.  A statement that only moves rows is kept as `Uses`, the columns   *)
(* it must find.                                                           *)
(***************************************************************************)
EXTENDS Integers, Sequences, FiniteSets

(* ------------------------------- facts -------------------------------- *)
TableFact(t)         == <<"table", t>>
ColumnFact(t, c)     == <<"column", t, c>>
RequiredFact(t, c)   == <<"required", t, c>>
DefaultFact(t, c)    == <<"default", t, c>>

Columns(t, cs)       == {ColumnFact(t, c) : c \in cs}
RequiredOnes(t, cs)  == {RequiredFact(t, c) : c \in cs}
Defaults(t, cs)      == {DefaultFact(t, c) : c \in cs}

(* ----------------------------- statements ----------------------------- *)
(* ADD: new facts, each on a table (or on columns) that must be there.    *)
Adds(needs, new)     == [kind |-> "add", needs |-> needs, new |-> new]

(* op.create_table: NOT NULL columns, NOT NULL ones with a default, others. *)
Table(t, required, filled, optional) ==
    Adds({}, {TableFact(t)} \cup Columns(t, required \cup filled \cup optional)
             \cup RequiredOnes(t, required \cup filled) \cup Defaults(t, filled))
(* ... with the id, created_at and updated_at every Base model has. *)
Entity(t, required, filled, optional) ==
    Table(t, required \cup {"id"}, filled \cup {"created_at", "updated_at"}, optional)
(* op.add_column, with a server default on the NOT NULL ones. *)
Add(t, filled, optional) ==
    Adds({TableFact(t)}, Columns(t, filled \cup optional) \cup RequiredOnes(t, filled)
                         \cup Defaults(t, filled))
Index(t, name, cs)   == Adds(Columns(t, cs), {<<"index", t, name, cs>>})
Unique(t, name, cs)  == Adds(Columns(t, cs), {<<"unique", t, name, cs>>})
Key(t, name, c, ref) == Adds({ColumnFact(t, c), TableFact(ref)}, {<<"key", t, name, {c}, ref>>})
View(v, t)           == Adds({TableFact(t)}, {<<"view", t, v>>})
SetDefault(t, c)     == Adds({ColumnFact(t, c)}, {DefaultFact(t, c)})
Trigger(t, name, f)  == Adds({TableFact(t), <<"function", f>>}, {<<"trigger", t, name, f>>})
Uses(t, cs)          == Adds({TableFact(t)} \cup Columns(t, cs), {})

(* DROP and friends. *)
DropTable(t)         == [kind |-> "dropTable", table |-> t]
DropColumns(t, cs)   == [kind |-> "dropColumns", table |-> t, columns |-> cs]
DropNamed(t, name)   == [kind |-> "drop", table |-> t, name |-> name, lenient |-> FALSE]
DropIfThere(t, name) == [kind |-> "drop", table |-> t, name |-> name, lenient |-> TRUE]
DropView(v)          == [kind |-> "dropView", name |-> v]
SetNull(t, c)        == [kind |-> "forget", fact |-> RequiredFact(t, c)]
DropDefault(t, c)    == [kind |-> "forget", fact |-> DefaultFact(t, c)]
(* CREATE INDEX CONCURRENTLY IF NOT EXISTS *)
IndexIfMissing(t, name, cs) ==
    [kind |-> "build", needs |-> Columns(t, cs), index |-> <<"index", t, name, cs>>]
RenameTable(from, to)     == [kind |-> "renameTable", from |-> from, to |-> to]
RenameColumn(t, from, to) == [kind |-> "renameColumn", table |-> t, from |-> from, to |-> to]
RenameIndex(t, from, to)  == [kind |-> "renameIndex", table |-> t, from |-> from, to |-> to]
(* SET NOT NULL: the rows there may refuse it. *)
SetRequired(t, c)    == [kind |-> "require", fact |-> RequiredFact(t, c)]
(* CREATE OR REPLACE FUNCTION, or DROP FUNCTION IF EXISTS and CREATE: the  *)
(* body is named by the revision that wrote that text first.               *)
Body(f, body)        == [kind |-> "body", function |-> f, body |-> body]
(* A plain CREATE FUNCTION, refused where the function exists. *)
NewBody(f, body)     == [kind |-> "newBody", function |-> f, body |-> body]
DropBody(f)          == [kind |-> "dropBody", function |-> f]
(* The edge of op.get_context().autocommit_block(). *)
Commit               == [kind |-> "commit"]

(* ---------------------------- the revisions --------------------------- *)
\* 892dc24d2e92
InitialTables ==
    [up   |-> << Entity("devices", {"name", "ip_address", "device_type", "status", "ssh_port"}, {},
                     {"model", "location", "snmp_community", "ssh_username", "notes", "last_seen"}),
                 Unique("devices", "devices_ip_address_key", {"ip_address"}),
                 Entity("notification_channels", {"name", "channel_type", "config", "enabled"}, {}, {}),
                 Unique("notification_channels", "notification_channels_name_key", {"name"}),
                 Entity("device_metrics", {"device_id", "metric_name", "metric_value"},
                     {"collected_at"}, {"unit"}),
                 Key("device_metrics", "device_metrics_device_id_fkey", "device_id", "devices"),
                 Entity("incidents", {"device_id", "title", "severity", "status", "detected_at"},
                     {}, {"description", "resolved_at"}),
                 Key("incidents", "incidents_device_id_fkey", "device_id", "devices"),
                 Entity("power_status_logs", {"device_id", "status"}, {"recorded_at"}, {"voltage",
                     "current", "power"}),
                 Key("power_status_logs", "power_status_logs_device_id_fkey", "device_id", "devices"),
                 Entity("alerts", {"incident_id", "message", "status"}, {}, {"channel_id", "sent_at"}),
                 Key("alerts", "alerts_channel_id_fkey", "channel_id", "notification_channels"),
                 Key("alerts", "alerts_incident_id_fkey", "incident_id", "incidents") >>,
     down |-> << DropTable("alerts"), DropTable("power_status_logs"), DropTable("incidents"),
                 DropTable("device_metrics"), DropTable("notification_channels"),
                 DropTable("devices") >>]

\* 870c3e5c4093
AddIsSuspendedToDevices ==
    [up   |-> << Add("devices", {"is_suspended"}, {}), Uses("devices", {"last_seen"}) >>,
     down |-> << Uses("devices", {"last_seen"}), DropColumns("devices", {"is_suspended"}) >>]

\* 176fd9e17047
RemoveIsSuspendedFromDevices ==
    [up   |-> << DropColumns("devices", {"is_suspended"}) >>,
     down |-> << Add("devices", {"is_suspended"}, {}) >>]

\* 1ead65fa554c
AddParentIdToDevices ==
    [up   |-> << Add("devices", {}, {"parent_id"}),
                 Key("devices", "devices_parent_id_fkey", "parent_id", "devices") >>,
     down |-> << DropNamed("devices", "None"), DropColumns("devices", {"parent_id"}) >>]

\* a1b2c3d4e5f6
AddAlertFieldsToIncidents ==
    [up   |-> << Add("incidents", {}, {"alert_type", "metric_name", "metric_value",
                     "threshold_value", "probable_cause", "last_triggered_at"}),
                 Index("incidents", "ix_incidents_alert_type", {"alert_type"}) >>,
     down |-> << DropNamed("incidents", "ix_incidents_alert_type"),
                 DropColumns("incidents", {"last_triggered_at", "probable_cause", "threshold_value",
                     "metric_value", "metric_name", "alert_type"}) >>]

\* b2c3d4e5f6a7
AddAlertStatesTable ==
    [up   |-> << Entity("alert_states", {"device_id", "alert_type"}, {"failure_count"},
                     {"last_metric_value", "last_evaluated_at"}),
                 Key("alert_states", "alert_states_device_id_fkey", "device_id", "devices"),
                 Unique("alert_states", "uq_alert_state", {"device_id", "alert_type"}),
                 Index("alert_states", "ix_alert_states_device_id", {"device_id"}) >>,
     down |-> << DropNamed("alert_states", "ix_alert_states_device_id"),
                 DropTable("alert_states") >>]

\* 6004c4e7391c
AddPolicyOverridesToDevices ==
    [up   |-> << Add("devices", {}, {"policy_overrides"}) >>,
     down |-> << DropColumns("devices", {"policy_overrides"}) >>]

\* a1d74995eab0
AddDigestedAtToIncidents ==
    [up   |-> << Add("incidents", {}, {"digested_at"}) >>,
     down |-> << DropColumns("incidents", {"digested_at"}) >>]

\* c1f2a3b4d5e6
AddFilteringIndexes ==
    [up   |-> << Index("incidents", "ix_incidents_status", {"status"}),
                 Index("incidents", "ix_incidents_severity", {"severity"}),
                 Index("incidents", "ix_incidents_device_id", {"device_id"}),
                 Index("incidents", "ix_incidents_detected_at", {"detected_at"}),
                 Index("device_metrics", "ix_device_metrics_lookup", {"device_id", "metric_name",
                     "collected_at"}) >>,
     down |-> << DropNamed("device_metrics", "ix_device_metrics_lookup"),
                 DropNamed("incidents", "ix_incidents_detected_at"),
                 DropNamed("incidents", "ix_incidents_device_id"),
                 DropNamed("incidents", "ix_incidents_severity"),
                 DropNamed("incidents", "ix_incidents_status") >>]

\* d2e3f4a5b6c7
AddSshHostFingerprint ==
    [up   |-> << Add("devices", {}, {"ssh_host_fingerprint"}) >>,
     down |-> << DropColumns("devices", {"ssh_host_fingerprint"}) >>]

\* e3f4a5b6c7d8
AddSystemSettings ==
    [up   |-> << Entity("system_settings", {"key", "value"}, {}, {}),
                 Unique("system_settings", "uq_system_settings_key", {"key"}),
                 Index("system_settings", "ix_system_settings_key", {"key"}) >>,
     down |-> << DropNamed("system_settings", "ix_system_settings_key"),
                 DropTable("system_settings") >>]

\* f4a5b6c7d8e9
AddSshPasswordToDevices ==
    [up   |-> << Add("devices", {}, {"ssh_password"}) >>,
     down |-> << DropColumns("devices", {"ssh_password"}) >>]

\* a5b6c7d8e9f0
AddDiscoveryFieldsToDevices ==
    [up   |-> << Add("devices", {"auto_discovered"}, {"mac_address", "hostname", "firmware_version",
                     "first_discovered_at", "last_discovered_at"}),
                 Unique("devices", "uq_devices_mac_address", {"mac_address"}),
                 DropDefault("devices", "auto_discovered") >>,
     down |-> << DropNamed("devices", "uq_devices_mac_address"),
                 DropColumns("devices", {"last_discovered_at", "first_discovered_at",
                     "auto_discovered", "firmware_version", "hostname", "mac_address"}) >>]

\* b7c8d9e0f1a2
AddUispPowerCredentialsToDevices ==
    [up   |-> << Add("devices", {}, {"uisp_power_username", "uisp_power_password",
                     "uisp_power_port"}) >>,
     down |-> << DropColumns("devices", {"uisp_power_port", "uisp_power_password",
                     "uisp_power_username"}) >>]

\* e5f6a7b8c9d0
SplitDevicesIntoJoinedInheritance ==
    [up   |-> << Uses("devices", {}),
                 DropColumns("devices", {"parent_id", "model", "ssh_username", "ssh_password",
                     "ssh_port", "ssh_host_fingerprint", "uisp_power_username",
                     "uisp_power_password", "uisp_power_port"}),
                 Table("rockets", {"id", "radio_tech"}, {"ssh_port"}, {"ssh_username",
                     "ssh_password", "ssh_host_fingerprint"}),
                 Key("rockets", "rockets_id_fkey", "id", "devices"),
                 Table("lrs", {"id", "model_variant"}, {"ssh_port"}, {"rocket_id", "ssh_username",
                     "ssh_password", "ssh_host_fingerprint", "distance_m"}),
                 Key("lrs", "lrs_id_fkey", "id", "devices"),
                 Key("lrs", "lrs_rocket_id_fkey", "rocket_id", "rockets"),
                 Index("lrs", "ix_lrs_rocket_id", {"rocket_id"}),
                 Table("uisp_powers", {"id"}, {"api_port"}, {"api_username", "api_password"}),
                 Key("uisp_powers", "uisp_powers_id_fkey", "id", "devices"),
                 Table("uisp_switches", {"id"}, {"max_ports", "port_min_speed_mbps"},
                     {"rocket_port_index"}),
                 Key("uisp_switches", "uisp_switches_id_fkey", "id", "devices") >>,
     down |-> << DropTable("uisp_switches"), DropTable("uisp_powers"),
                 DropNamed("lrs", "ix_lrs_rocket_id"), DropTable("lrs"), DropTable("rockets"),
                 Add("devices", {"ssh_port"}, {"uisp_power_port", "uisp_power_password",
                     "uisp_power_username", "ssh_host_fingerprint", "ssh_password", "ssh_username",
                     "model", "parent_id"}),
                 Key("devices", "devices_parent_id_fkey", "parent_id", "devices") >>]

\* f7a8b9c0d1e2
BackfillLrDefaultSshCredentials ==
    [up   |-> << Uses("lrs", {"ssh_password", "ssh_port", "ssh_username"}) >>,
     down |-> <<>>]

\* g8b9c0d1e2f3
AddClientModemsTable ==
    [up   |-> << Table("client_modems", {"id"}, {"management_protocol", "management_port"},
                     {"lr_id", "management_username", "management_password",
                     "management_host_fingerprint"}),
                 Key("client_modems", "client_modems_id_fkey", "id", "devices"),
                 Key("client_modems", "client_modems_lr_id_fkey", "lr_id", "lrs"),
                 Index("client_modems", "ix_client_modems_lr_id", {"lr_id"}) >>,
     down |-> << DropNamed("client_modems", "ix_client_modems_lr_id"), DropTable("client_modems") >>]

\* h9c0d1e2f3a4
AddAuditLogTable ==
    [up   |-> << Entity("audit_log", {"method", "path", "status_code"}, {}, {"client_ip",
                     "user_agent"}),
                 Index("audit_log", "ix_audit_log_created_at", {"created_at"}),
                 Index("audit_log", "ix_audit_log_client_ip_created_at", {"client_ip", "created_at"}) >>,
     down |-> << DropNamed("audit_log", "ix_audit_log_client_ip_created_at"),
                 DropNamed("audit_log", "ix_audit_log_created_at"), DropTable("audit_log") >>]

\* i0a1b2c3d4e5
AddUsersAndAuthSessions ==
    [up   |-> << Entity("users", {"username", "password_hash"}, {"enabled"}, {"full_name",
                     "last_login_at"}),
                 Unique("users", "uq_users_username", {"username"}),
                 Index("users", "ix_users_username", {"username"}),
                 Entity("auth_sessions", {"user_id", "token_hash", "expires_at", "last_seen_at"},
                     {}, {"ip_address", "user_agent"}),
                 Key("auth_sessions", "auth_sessions_user_id_fkey", "user_id", "users"),
                 Unique("auth_sessions", "uq_auth_sessions_token_hash", {"token_hash"}),
                 Index("auth_sessions", "ix_auth_sessions_token_hash", {"token_hash"}),
                 Index("auth_sessions", "ix_auth_sessions_expires_at", {"expires_at"}) >>,
     down |-> << DropNamed("auth_sessions", "ix_auth_sessions_expires_at"),
                 DropNamed("auth_sessions", "ix_auth_sessions_token_hash"),
                 DropTable("auth_sessions"), DropNamed("users", "ix_users_username"),
                 DropTable("users") >>]

\* j1b2c3d4e5f6
BackfillLrLocationFromRocket ==
    [up   |-> << Uses("devices", {"auto_discovered", "id", "location"}),
                 Uses("lrs", {"id", "rocket_id"}) >>,
     down |-> <<>>]

\* k2c3d4e5f6a7
AddClientBlockToLrs ==
    [up   |-> << Add("lrs", {"client_blocked", "lan_interface"}, {"client_blocked_at",
                     "client_blocked_reason", "client_block_enforced_at"}) >>,
     down |-> << DropColumns("lrs", {"client_block_enforced_at", "lan_interface",
                     "client_blocked_reason", "client_blocked_at", "client_blocked"}) >>]

\* l3d4e5f6a7b8
AddBlockModeToLrs ==
    [up   |-> << Add("lrs", {"block_mode"}, {}) >>,
     down |-> << DropColumns("lrs", {"block_mode"}) >>]

\* m4e5f6a7b8c9
BackfillLanInterfaceLtu ==
    [up   |-> << Uses("lrs", {"lan_interface", "model_variant"}) >>,
     down |-> << Uses("lrs", {"lan_interface", "model_variant"}) >>]

\* n5f6a7b8c9d0
AddTopologyModeToLrs ==
    [up   |-> << Add("lrs", {"topology_mode"}, {}) >>,
     down |-> << DropColumns("lrs", {"topology_mode"}) >>]

\* o6a7b8c9d0e1
AddLrHealthMetricStats30dMatview ==
    [up   |-> << View("lr_health_metric_stats_30d", "device_metrics") >>,
     down |-> << DropView("lr_health_metric_stats_30d") >>]

\* p7b8c9d0e1f2
AddClientConsumption30dMatview ==
    [up   |-> << View("client_consumption_30d", "device_metrics") >>,
     down |-> << DropView("client_consumption_30d") >>]

\* q8c9d0e1f2a3
AddClientConsumption7dMatview ==
    [up   |-> << View("client_consumption_7d", "device_metrics") >>,
     down |-> << DropView("client_consumption_7d") >>]

\* r9d0e1f2a3b4
PurgeLrDownIncidents ==
    [up   |-> << Uses("alerts", {"id", "incident_id"}), Uses("incidents", {"alert_type", "id"}) >>,
     down |-> <<>>]

\* s0e1f2a3b4c5
PurgeLrDisappearedIncidents ==
    [up   |-> << Uses("alerts", {"id", "incident_id"}), Uses("incidents", {"alert_type", "id"}) >>,
     down |-> <<>>]

\* t1f2a3b4c5d6
DropProbableCause ==
    [up   |-> << DropColumns("incidents", {"probable_cause"}) >>,
     down |-> << Add("incidents", {}, {"probable_cause"}) >>]

\* u2a3b4c5d6e7
CollapseSwitchMetricsLatestOnly ==
    [up   |-> <<>>,
     down |-> <<>>]

\* v3b4c5d6e7f8
AddAirfibersTable ==
    [up   |-> << Table("airfibers", {"id"}, {"ssh_port"}, {"ssh_username", "ssh_password",
                     "ssh_host_fingerprint", "distance_m"}),
                 Key("airfibers", "airfibers_id_fkey", "id", "devices") >>,
     down |-> << DropTable("airfibers") >>]

\* w4c5d6e7f8a9
DeviceMetricsCollectedAtIndex ==
    [up   |-> <<>>,
     down |-> <<>>]

\* x5d6e7f8a9b0
DropLrHealthMatview ==
    [up   |-> << DropView("lr_health_metric_stats_30d") >>,
     down |-> << View("lr_health_metric_stats_30d", "device_metrics") >>]

\* y6e7f8a9b0c1
IpAddressNullable ==
    [up   |-> << SetNull("devices", "ip_address") >>,
     down |-> << SetRequired("devices", "ip_address") >>]

\* z7f8a9b0c1d2
PurgeClientSideIncidents ==
    [up   |-> << Uses("alerts", {"id", "incident_id"}),
                 Uses("incidents", {"alert_type", "device_id", "id"}), Uses("lrs", {"id"}) >>,
     down |-> <<>>]

\* a8b9c0d1e2f3
DropAlertsAndNotificationChannels ==
    [up   |-> << DropTable("alerts"), DropTable("notification_channels") >>,
     down |-> << Entity("notification_channels", {"name", "channel_type", "config", "enabled"}, {}, {}),
                 Unique("notification_channels", "notification_channels_name_key", {"name"}),
                 Entity("alerts", {"incident_id", "message", "status"}, {}, {"channel_id", "sent_at"}),
                 Key("alerts", "alerts_channel_id_fkey", "channel_id", "notification_channels"),
                 Key("alerts", "alerts_incident_id_fkey", "incident_id", "incidents") >>]

(* Mutant: the downgrade forgets the column added last. *)
AddPlanLeftBehind ==
    [up   |-> << Add("lrs", {}, {"plan_download_mbps", "plan_upload_mbps", "plan_synced_at"}) >>,
     down |-> << DropColumns("lrs", {"plan_upload_mbps", "plan_download_mbps"}) >>]

\* b9c0d1e2f3a4
AddPlanToLrs ==
    [up   |-> << Add("lrs", {}, {"plan_download_mbps", "plan_upload_mbps", "plan_synced_at"}) >>,
     down |-> << DropColumns("lrs", {"plan_synced_at", "plan_upload_mbps", "plan_download_mbps"}) >>]

\* c0d1e2f3a4b5
CentralizeSiteAndDashboardRpc ==
    [up   |-> << Add("devices", {}, {"site"}), Index("devices", "ix_devices_site", {"site"}),
                 NewBody("fn_resolve_site", "c0d1"), NewBody("trg_device_set_site", "c0d1"),
                 Trigger("devices", "device_set_site", "trg_device_set_site"),
                 NewBody("trg_rocket_cascade_site", "c0d1"),
                 Trigger("devices", "rocket_cascade_site", "trg_rocket_cascade_site"),
                 NewBody("trg_lr_set_site", "c0d1"), Trigger("lrs", "lr_set_site", "trg_lr_set_site"),
                 Uses("devices", {"id", "site"}), NewBody("fn_dashboard_summary", "c0d1"),
                 NewBody("fn_site_overview", "c0d1"), NewBody("fn_access_clients", "c0d1"),
                 NewBody("fn_site_outage_summary", "c0d1") >>,
     down |-> << DropBody("fn_site_outage_summary"), DropBody("fn_access_clients"),
                 DropBody("fn_site_overview"), DropBody("fn_dashboard_summary"),
                 DropIfThere("lrs", "lr_set_site"), DropBody("trg_lr_set_site"),
                 DropIfThere("devices", "rocket_cascade_site"), DropBody("trg_rocket_cascade_site"),
                 DropIfThere("devices", "device_set_site"), DropBody("trg_device_set_site"),
                 DropBody("fn_resolve_site"), DropIfThere("devices", "ix_devices_site"),
                 DropColumns("devices", {"site"}) >>]

\* d1e2f3a4b5c6
AddIsBackhaulToRockets ==
    [up   |-> << Add("rockets", {"is_backhaul"}, {}),
                 Uses("rockets", {"id", "is_backhaul", "radio_tech"}),
                 Uses("devices", {"id", "ip_address"}) >>,
     down |-> << DropColumns("rockets", {"is_backhaul"}) >>]

\* e2f3a4b5c6d7
FlagMoreAirmaxBackhauls ==
    [up   |-> << Uses("rockets", {"id", "is_backhaul", "radio_tech"}),
                 Uses("devices", {"id", "ip_address"}) >>,
     down |-> << Uses("rockets", {"id", "is_backhaul", "radio_tech"}),
                 Uses("devices", {"id", "ip_address"}) >>]

\* f3a4b5c6d7e8
AddMaxClientsOverrideToRockets ==
    [up   |-> << Add("rockets", {}, {"max_clients_override"}) >>,
     down |-> << DropColumns("rockets", {"max_clients_override"}) >>]

\* g4b5c6d7e8f9
AddIpToSiteOverviewDownDevices ==
    [up   |-> << Body("fn_site_overview", "g4b5") >>,
     down |-> << Body("fn_site_overview", "c0d1") >>]

\* c1d2e3f4a5b6
OptimizeFnSiteOverviewLateral ==
    [up   |-> << Body("fn_site_overview", "c1d2") >>,
     down |-> << Body("fn_site_overview", "g4b5") >>]

(* Mutant: the downgrade leaves the function that reads the columns. *)
SnapshotBodyLeft ==
    [up   |-> << Add("lrs", {}, {"uisp_mode", "uisp_status", "uisp_last_seen", "uisp_ap_name",
                   "uisp_synced_at"}), Body("fn_access_clients", "h5c6") >>,
     down |-> << DropColumns("lrs", {"uisp_synced_at", "uisp_ap_name", "uisp_last_seen",
                   "uisp_status", "uisp_mode"}) >>]

\* h5c6d7e8f9a0
UispStationSnapshotOnLrs ==
    [up   |-> << Add("lrs", {}, {"uisp_mode", "uisp_status", "uisp_last_seen", "uisp_ap_name",
                     "uisp_synced_at"}),
                 Body("fn_access_clients", "h5c6") >>,
     down |-> << Body("fn_access_clients", "c0d1"),
                 DropColumns("lrs", {"uisp_synced_at", "uisp_ap_name", "uisp_last_seen",
                     "uisp_status", "uisp_mode"}) >>]

\* i6d7e8f9a0b1
AccessOfflineOverOneWeek ==
    [up   |-> << Body("fn_access_clients", "i6d7") >>,
     down |-> << Body("fn_access_clients", "h5c6") >>]

\* j7e8f9a0b1c2
AccessOfflineOverOneMonth ==
    [up   |-> << Body("fn_access_clients", "j7e8") >>,
     down |-> << Body("fn_access_clients", "i6d7") >>]

\* b5c6d7e8f9a0
AddPtpLitebeamType ==
    [up   |-> << Table("ptp_litebeams", {"id"}, {"ssh_port"}, {"ssh_username", "ssh_password",
                     "ssh_host_fingerprint", "distance_m"}),
                 Key("ptp_litebeams", "ptp_litebeams_id_fkey", "id", "devices"),
                 Uses("devices", {"device_type", "id", "mac_address"}),
                 Uses("rockets", {"id", "is_backhaul", "ssh_host_fingerprint", "ssh_password",
                     "ssh_port", "ssh_username"}),
                 Uses("ptp_litebeams", {"id", "ssh_host_fingerprint", "ssh_password", "ssh_port",
                     "ssh_username"}),
                 Uses("lrs", {"id", "ssh_host_fingerprint", "ssh_password", "ssh_port",
                     "ssh_username"}),
                 DropColumns("rockets", {"is_backhaul"}) >>,
     down |-> << Add("rockets", {"is_backhaul"}, {}),
                 Uses("rockets", {"id", "is_backhaul", "radio_tech", "ssh_host_fingerprint",
                     "ssh_password", "ssh_port", "ssh_username"}),
                 Uses("ptp_litebeams", {"id", "ssh_host_fingerprint", "ssh_password", "ssh_port",
                     "ssh_username"}),
                 Uses("devices", {"device_type", "id"}), DropTable("ptp_litebeams") >>]

\* c6d7e8f9a0b1
PtpLitebeamInfraInRpc ==
    [up   |-> << Body("fn_site_overview", "c6d7"), Body("fn_dashboard_summary", "c6d7"),
                 Body("fn_site_outage_summary", "c6d7") >>,
     down |-> << Body("fn_site_overview", "g4b5"), Body("fn_dashboard_summary", "c0d1"),
                 Body("fn_site_outage_summary", "c0d1") >>]

\* k8f9a0b1c2d3
AddUispChannelWidthToRockets ==
    [up   |-> << Add("rockets", {}, {"uisp_channel_width_mhz"}) >>,
     down |-> << DropColumns("rockets", {"uisp_channel_width_mhz"}) >>]

\* l9a0b1c2d3e4
PurgeCapacityAndBridgeIncidents ==
    [up   |-> << Uses("incidents", {"alert_type"}) >>,
     down |-> <<>>]

\* m0b1c2d3e4f5
AddTrafficDestStats ==
    [up   |-> << Entity("traffic_dest_stats", {"bucket_start", "bytes", "packets", "flows"}, {},
                     {"asn", "as_org"}),
                 Index("traffic_dest_stats", "ix_traffic_dest_stats_bucket", {"bucket_start"}) >>,
     down |-> << DropNamed("traffic_dest_stats", "ix_traffic_dest_stats_bucket"),
                 DropTable("traffic_dest_stats") >>]

\* m1c2d3e4f5a6
TrafficSplitDirection ==
    [up   |-> << Uses("traffic_dest_stats", {}),
                 DropColumns("traffic_dest_stats", {"bytes", "packets"}),
                 Add("traffic_dest_stats", {"down_bytes", "up_bytes"}, {}) >>,
     down |-> << DropColumns("traffic_dest_stats", {"up_bytes", "down_bytes"}),
                 Add("traffic_dest_stats", {"packets", "bytes"}, {}) >>]

\* n2d3e4f5a6b7
SiteDowntimeSwitchOnly ==
    [up   |-> << Body("fn_site_outage_summary", "n2d3") >>,
     down |-> << Body("fn_site_outage_summary", "c6d7") >>]

\* o3e4f5a6b7c8
SiteDowntimeSwitchTotalAllDetail ==
    [up   |-> << Body("fn_site_outage_summary", "o3e4") >>,
     down |-> << Body("fn_site_outage_summary", "n2d3") >>]

\* p4f5a6b7c8d9
SiteDowntimeExtraDevices ==
    [up   |-> << Body("fn_site_outage_summary", "p4f5") >>,
     down |-> << Body("fn_site_outage_summary", "o3e4") >>]

\* q5a6b7c8d9e0
DropOrphanDeviceMetricsCollectedAtIndex ==
    [up   |-> << Commit, DropIfThere("device_metrics", "ix_device_metrics_collected_at"), Commit >>,
     down |-> << Commit,
                 IndexIfMissing("device_metrics", "ix_device_metrics_collected_at", {"collected_at"}),
                 Commit >>]

\* r6b7c8d9e0f1
SitePannesSwitchBased ==
    [up   |-> << Body("fn_site_outage_summary", "r6b7") >>,
     down |-> << Body("fn_site_outage_summary", "p4f5") >>]

\* s7c8d9e0f1a2
FaiUnblockEnforcement ==
    [up   |-> << Add("lrs", {"unblock_pending"}, {"block_unenforceable_reason"}) >>,
     down |-> << DropColumns("lrs", {"block_unenforceable_reason", "unblock_pending"}) >>]

\* t8d9e0f1a2b3
AddContentBlockToLrs ==
    [up   |-> << Add("lrs", {}, {"blocked_categories", "content_block_enforced_at"}) >>,
     down |-> << DropColumns("lrs", {"content_block_enforced_at", "blocked_categories"}) >>]

\* u9e0f1a2b3c4
AddLrLatencySamples ==
    [up   |-> << Entity("lr_latency_samples", {"device_id", "bucket_start", "avg_ms", "min_ms",
                     "max_ms", "sample_count"}, {}, {}),
                 Key("lr_latency_samples", "lr_latency_samples_device_id_fkey", "device_id", "devices"),
                 Unique("lr_latency_samples", "uq_lr_latency_device_bucket", {"device_id",
                     "bucket_start"}),
                 Index("lr_latency_samples", "ix_lr_latency_samples_bucket", {"bucket_start"}) >>,
     down |-> << DropNamed("lr_latency_samples", "ix_lr_latency_samples_bucket"),
                 DropTable("lr_latency_samples") >>]

\* v0f1a2b3c4d5
GeneralizeLrMetricSamples ==
    [up   |-> << RenameTable("lr_latency_samples", "lr_metric_samples"),
                 Add("lr_metric_samples", {"metric_name"}, {}),
                 DropDefault("lr_metric_samples", "metric_name"),
                 RenameColumn("lr_metric_samples", "avg_ms", "avg_value"),
                 RenameColumn("lr_metric_samples", "min_ms", "min_value"),
                 RenameColumn("lr_metric_samples", "max_ms", "max_value"),
                 DropNamed("lr_metric_samples", "uq_lr_latency_device_bucket"),
                 Unique("lr_metric_samples", "uq_lr_metric_device_name_bucket", {"device_id",
                     "metric_name", "bucket_start"}),
                 RenameIndex("lr_metric_samples", "ix_lr_latency_samples_bucket",
                     "ix_lr_metric_samples_bucket") >>,
     down |-> << Uses("lr_metric_samples", {"metric_name"}),
                 RenameIndex("lr_metric_samples", "ix_lr_metric_samples_bucket",
                     "ix_lr_latency_samples_bucket"),
                 DropNamed("lr_metric_samples", "uq_lr_metric_device_name_bucket"),
                 Unique("lr_metric_samples", "uq_lr_latency_device_bucket", {"device_id",
                     "bucket_start"}),
                 RenameColumn("lr_metric_samples", "avg_value", "avg_ms"),
                 RenameColumn("lr_metric_samples", "min_value", "min_ms"),
                 RenameColumn("lr_metric_samples", "max_value", "max_ms"),
                 DropColumns("lr_metric_samples", {"metric_name"}),
                 RenameTable("lr_metric_samples", "lr_latency_samples") >>]

\* x2h3i4j5k6l7
AddDeviceProvisionedCoordinates ==
    [up   |-> << Add("devices", {}, {"latitude", "longitude"}) >>,
     down |-> << DropColumns("devices", {"longitude", "latitude"}) >>]

\* y3i4j5k6l7m8
AddSiteLocations ==
    [up   |-> << Entity("site_locations", {"site", "latitude", "longitude"}, {"source"}, {}),
                 Unique("site_locations", "site_locations_site_key", {"site"}),
                 Index("site_locations", "ix_site_locations_site", {"site"}),
                 Uses("site_locations", {"latitude", "longitude", "site", "source"}) >>,
     down |-> << DropNamed("site_locations", "ix_site_locations_site"),
                 DropTable("site_locations") >>]

\* z9k0l1m2n3o4
SplitThroughputFromCapacity ==
    [up   |-> << Uses("device_metrics", {"device_id", "metric_name"}),
                 Uses("lr_metric_samples", {"metric_name"}), Uses("incidents", {"alert_type"}),
                 Uses("alert_states", {"alert_type"}) >>,
     down |-> << Uses("device_metrics", {"metric_name"}),
                 Uses("lr_metric_samples", {"metric_name"}) >>]

\* aa1b2c3d4e5f
UnfreezeIplessDeviceStatus ==
    [up   |-> << Uses("devices", {"id", "ip_address", "status"}),
                 Uses("alert_states", {"alert_type", "device_id", "id"}) >>,
     down |-> <<>>]

\* bb2c3d4e5f6a
AddContentBlockMode ==
    [up   |-> << Add("lrs", {"content_block_mode"}, {}) >>,
     down |-> << DropColumns("lrs", {"content_block_mode"}) >>]

\* cc3d4e5f6a7b
AccessOutOfSupervision ==
    [up   |-> << Body("fn_access_clients", "cc3d") >>,
     down |-> << Body("fn_access_clients", "j7e8") >>]

\* dd4e5f6a7b8c
RouterBlockFallback ==
    [up   |-> << Add("lrs", {"router_blocked"}, {"router_blocked_at"}) >>,
     down |-> << DropColumns("lrs", {"router_blocked_at", "router_blocked"}) >>]

\* t2g3h4i5j6k7
AddBlockUnenforceableSince ==
    [up   |-> << Add("lrs", {}, {"block_unenforceable_since"}) >>,
     down |-> << DropColumns("lrs", {"block_unenforceable_since"}) >>]

\* u3h4i5j6k7l8
AddLrSshDiagnosticColumns ==
    [up   |-> << Add("lrs", {}, {"ssh_status", "ssh_error", "ssh_checked_at"}) >>,
     down |-> << DropColumns("lrs", {"ssh_checked_at", "ssh_error", "ssh_status"}) >>]

\* v4i5j6k7l8m9
AccessOutOfSupervisionBuckets ==
    [up   |-> << Body("fn_access_clients", "v4i5") >>,
     down |-> << Body("fn_access_clients", "cc3d") >>]

\* w5j6k7l8m9n0
AccessBlockedMechanism ==
    [up   |-> << Body("fn_access_clients", "w5j6") >>,
     down |-> << Body("fn_access_clients", "v4i5") >>]

\* x6a7b8c9d0e1
NetworkHealthPerSite ==
    [up   |-> << NewBody("fn_network_health", "x6a7") >>,
     down |-> << DropBody("fn_network_health") >>]

\* y7z8a9b0c1d2
AddFiberPortIndexToSwitches ==
    [up   |-> << Add("uisp_switches", {}, {"fiber_port_index"}) >>,
     down |-> << DropColumns("uisp_switches", {"fiber_port_index"}) >>]

\* z8a9b0c1d2e3
SetFiberPortIndexThreeSites ==
    [up   |-> << Uses("uisp_switches", {"fiber_port_index", "id", "max_ports"}),
                 Uses("devices", {"device_type", "id", "ip_address"}) >>,
     down |-> << Uses("uisp_switches", {"fiber_port_index", "id"}),
                 Uses("devices", {"device_type", "id", "ip_address"}) >>]

\* c9d0e1f2a3b4
AddUispEnrolledAtToLrs ==
    [up   |-> << Add("lrs", {}, {"uisp_enrolled_at"}) >>,
     down |-> << DropColumns("lrs", {"uisp_enrolled_at"}) >>]

\* ee5f6a7b8c9d
AddUplinkSwitchPortToDevices ==
    [up   |-> << Add("devices", {}, {"uplink_switch_id", "uplink_switch_port", "uplink_detected_at"}),
                 Key("devices", "fk_devices_uplink_switch_id", "uplink_switch_id", "devices"),
                 Index("devices", "ix_devices_uplink_switch_id", {"uplink_switch_id"}) >>,
     down |-> << DropNamed("devices", "ix_devices_uplink_switch_id"),
                 DropNamed("devices", "fk_devices_uplink_switch_id"),
                 DropColumns("devices", {"uplink_detected_at", "uplink_switch_port",
                     "uplink_switch_id"}) >>]

\* f7b5396b55ea
RaiseSwitchMaxPortsTo30 ==
    [up   |-> << Uses("uisp_switches", {"max_ports"}) >>,
     down |-> <<>>]

\* b8d3f1a4c2e6
AddSiteLinksTable ==
    [up   |-> << Entity("site_links", {"site_a", "site_b", "link_type", "name_a", "name_b",
                     "synced_at"}, {}, {"state", "mac_a", "mac_b"}),
                 Index("site_links", "ix_site_links_site_a", {"site_a"}),
                 Index("site_links", "ix_site_links_site_b", {"site_b"}) >>,
     down |-> << DropNamed("site_links", "ix_site_links_site_a"),
                 DropNamed("site_links", "ix_site_links_site_b"), DropTable("site_links") >>]

\* d4a5b6c7e8f9
AddManualAlerts ==
    [up   |-> << Entity("manual_alerts", {"device_id", "alert_type", "severity", "title",
                     "detected_at"}, {}, {"description", "acknowledged_at", "acknowledged_by"}),
                 Key("manual_alerts", "manual_alerts_device_id_fkey", "device_id", "devices"),
                 Index("manual_alerts", "ix_manual_alerts_device_id", {"device_id"}),
                 Index("manual_alerts", "ix_manual_alerts_pending", {"detected_at"}) >>,
     down |-> << DropNamed("manual_alerts", "ix_manual_alerts_pending"),
                 DropNamed("manual_alerts", "ix_manual_alerts_device_id"),
                 DropTable("manual_alerts") >>]

(* Mutant: the column is left nullable, without a default. *)
AdultContentOptional ==
    [up   |-> << Add("lrs", {}, {"block_adult_content"}) >>,
     down |-> << DropColumns("lrs", {"block_adult_content"}) >>]

\* e5b6c7d8f9a0
AddBlockAdultContent ==
    [up   |-> << Add("lrs", {"block_adult_content"}, {}) >>,
     down |-> << DropColumns("lrs", {"block_adult_content"}) >>]

\* b1c2d3e4f5a6
DropGoogleContentCategory ==
    [up   |-> << Uses("lrs", {"blocked_categories"}) >>,
     down |-> <<>>]

\* d9e8f7a6b5c4
EnablePgStatStatements ==
    [up   |-> <<>>,
     down |-> <<>>]

\* e1f2a3b4c5d6
AddProfilesAndUserProfile ==
    [up   |-> << Entity("profiles", {"name"}, {"is_system"}, {"description", "permissions"}),
                 Unique("profiles", "ix_profiles_name", {"name"}), Add("users", {}, {"profile_id"}),
                 Index("users", "ix_users_profile_id", {"profile_id"}),
                 Key("users", "fk_users_profile_id_profiles", "profile_id", "profiles"),
                 Uses("profiles", {"created_at", "description", "id", "is_system", "name",
                     "permissions", "updated_at"}),
                 Uses("users", {"id", "profile_id"}) >>,
     down |-> << DropNamed("users", "fk_users_profile_id_profiles"),
                 DropNamed("users", "ix_users_profile_id"), DropColumns("users", {"profile_id"}),
                 DropNamed("profiles", "ix_profiles_name"), DropTable("profiles") >>]

\* f2a3b4c5d6e7
LrUispCrmClient ==
    [up   |-> << Add("lrs", {}, {"uisp_site_name", "uisp_crm_client_id", "uisp_crm_client_name"}) >>,
     down |-> << DropColumns("lrs", {"uisp_crm_client_name", "uisp_crm_client_id", "uisp_site_name"}) >>]

\* g3b4c5d6e7f8
AccessCrmClientId ==
    [up   |-> << Body("fn_access_clients", "g3b4") >>,
     down |-> << Body("fn_access_clients", "w5j6") >>]

\* h4c5d6e7f8a9
ClientConsumptionDaily ==
    [up   |-> << Entity("client_consumption_daily", {"device_id", "metric_name", "day"}, {"bytes",
                     "samples"}, {"first_sample_at"}),
                 Key("client_consumption_daily", "client_consumption_daily_device_id_fkey",
                     "device_id", "devices"),
                 Unique("client_consumption_daily", "uq_client_consumption_daily_device_metric_day",
                     {"device_id", "metric_name", "day"}),
                 Index("client_consumption_daily", "ix_client_consumption_daily_day", {"day"}),
                 Commit,
                 IndexIfMissing("device_metrics", "ix_device_metrics_collected_brin", {"collected_at"}),
                 Commit, Uses("client_consumption_daily", {}) >>,
     down |-> << Commit, DropIfThere("device_metrics", "ix_device_metrics_collected_brin"), Commit,
                 DropNamed("client_consumption_daily", "ix_client_consumption_daily_day"),
                 DropTable("client_consumption_daily") >>]

\* i5d6e7f8a9b0
DropConsumptionMatviews ==
    [up   |-> << DropView("client_consumption_30d"), DropView("client_consumption_7d") >>,
     down |-> << View("client_consumption_30d", "device_metrics"),
                 View("client_consumption_7d", "device_metrics") >>]

\* j6e7f8a9b0c1
DropRocketClientOverload ==
    [up   |-> << Uses("alert_states", {"alert_type"}), Uses("incidents", {"alert_type"}) >>,
     down |-> <<>>]

\* k7f8a9b0c1d2
DropCpeDisconnected ==
    [up   |-> << Uses("alert_states", {"alert_type"}), Uses("incidents", {"alert_type"}) >>,
     down |-> <<>>]

\* m2c3d4e5f6a7
AddClientBroadcasts ==
    [up   |-> << Entity("client_broadcasts", {"message", "audiences", "status"}, {}, {"created_by",
                     "finished_at"}),
                 Entity("client_broadcast_recipients", {"broadcast_id", "phone", "status"},
                     {"attempts"}, {"name", "error", "sent_at"}),
                 Key("client_broadcast_recipients", "client_broadcast_recipients_broadcast_id_fkey",
                     "broadcast_id", "client_broadcasts"),
                 Unique("client_broadcast_recipients", "uq_client_broadcast_recipient_phone",
                     {"broadcast_id", "phone"}),
                 Index("client_broadcast_recipients", "ix_client_broadcast_recipients_broadcast_id",
                     {"broadcast_id"}),
                 Index("client_broadcast_recipients", "ix_client_broadcast_recipients_pending",
                     {"broadcast_id", "id"}) >>,
     down |-> << DropNamed("client_broadcast_recipients", "ix_client_broadcast_recipients_pending"),
                 DropNamed("client_broadcast_recipients",
                     "ix_client_broadcast_recipients_broadcast_id"),
                 DropTable("client_broadcast_recipients"), DropTable("client_broadcasts") >>]

(* Mutant: the downgrade drops the columns before the constraint on them. *)
ChannelsDroppedFirst ==
    [up   |-> << Add("client_broadcasts", {"channels"}, {}),
                 Add("client_broadcast_recipients", {"channel"}, {}),
                 DropNamed("client_broadcast_recipients", "uq_client_broadcast_recipient_phone"),
                 Unique("client_broadcast_recipients",
                        "uq_client_broadcast_recipient_channel_phone",
                        {"broadcast_id", "channel", "phone"}) >>,
     down |-> << DropColumns("client_broadcast_recipients", {"channel"}),
                 DropColumns("client_broadcasts", {"channels"}),
                 DropNamed("client_broadcast_recipients",
                           "uq_client_broadcast_recipient_channel_phone"),
                 Unique("client_broadcast_recipients", "uq_client_broadcast_recipient_phone",
                        {"broadcast_id", "phone"}) >>]

\* n3d4e5f6a7b8
ClientBroadcastChannels ==
    [up   |-> << Add("client_broadcasts", {"channels"}, {}),
                 Add("client_broadcast_recipients", {"channel"}, {}),
                 DropNamed("client_broadcast_recipients", "uq_client_broadcast_recipient_phone"),
                 Unique("client_broadcast_recipients",
                     "uq_client_broadcast_recipient_channel_phone", {"broadcast_id", "channel",
                     "phone"}) >>,
     down |-> << DropNamed("client_broadcast_recipients",
                     "uq_client_broadcast_recipient_channel_phone"),
                 Uses("client_broadcast_recipients", {"channel"}),
                 Unique("client_broadcast_recipients", "uq_client_broadcast_recipient_phone",
                     {"broadcast_id", "phone"}),
                 DropColumns("client_broadcast_recipients", {"channel"}),
                 DropColumns("client_broadcasts", {"channels"}) >>]

(* The files from the first one (down_revision = None) to the head. *)
Migrations ==
    << InitialTables, AddIsSuspendedToDevices, RemoveIsSuspendedFromDevices,
       AddParentIdToDevices, AddAlertFieldsToIncidents, AddAlertStatesTable,
       AddPolicyOverridesToDevices, AddDigestedAtToIncidents, AddFilteringIndexes,
       AddSshHostFingerprint, AddSystemSettings, AddSshPasswordToDevices,
       AddDiscoveryFieldsToDevices, AddUispPowerCredentialsToDevices,
       SplitDevicesIntoJoinedInheritance, BackfillLrDefaultSshCredentials, AddClientModemsTable,
       AddAuditLogTable, AddUsersAndAuthSessions, BackfillLrLocationFromRocket,
       AddClientBlockToLrs, AddBlockModeToLrs, BackfillLanInterfaceLtu, AddTopologyModeToLrs,
       AddLrHealthMetricStats30dMatview, AddClientConsumption30dMatview,
       AddClientConsumption7dMatview, PurgeLrDownIncidents, PurgeLrDisappearedIncidents,
       DropProbableCause, CollapseSwitchMetricsLatestOnly, AddAirfibersTable,
       DeviceMetricsCollectedAtIndex, DropLrHealthMatview, IpAddressNullable,
       PurgeClientSideIncidents, DropAlertsAndNotificationChannels, AddPlanToLrs,
       CentralizeSiteAndDashboardRpc, AddIsBackhaulToRockets, FlagMoreAirmaxBackhauls,
       AddMaxClientsOverrideToRockets, AddIpToSiteOverviewDownDevices,
       OptimizeFnSiteOverviewLateral, UispStationSnapshotOnLrs, AccessOfflineOverOneWeek,
       AccessOfflineOverOneMonth, AddPtpLitebeamType, PtpLitebeamInfraInRpc,
       AddUispChannelWidthToRockets, PurgeCapacityAndBridgeIncidents, AddTrafficDestStats,
       TrafficSplitDirection, SiteDowntimeSwitchOnly, SiteDowntimeSwitchTotalAllDetail,
       SiteDowntimeExtraDevices, DropOrphanDeviceMetricsCollectedAtIndex, SitePannesSwitchBased,
       FaiUnblockEnforcement, AddContentBlockToLrs, AddLrLatencySamples,
       GeneralizeLrMetricSamples, AddDeviceProvisionedCoordinates, AddSiteLocations,
       SplitThroughputFromCapacity, UnfreezeIplessDeviceStatus, AddContentBlockMode,
       AccessOutOfSupervision, RouterBlockFallback, AddBlockUnenforceableSince,
       AddLrSshDiagnosticColumns, AccessOutOfSupervisionBuckets, AccessBlockedMechanism,
       NetworkHealthPerSite, AddFiberPortIndexToSwitches, SetFiberPortIndexThreeSites,
       AddUispEnrolledAtToLrs, AddUplinkSwitchPortToDevices, RaiseSwitchMaxPortsTo30,
       AddSiteLinksTable, AddManualAlerts, AddBlockAdultContent, DropGoogleContentCategory,
       EnablePgStatStatements, AddProfilesAndUserProfile, LrUispCrmClient, AccessCrmClientId,
       ClientConsumptionDaily, DropConsumptionMatviews, DropRocketClientOverload,
       DropCpeDisconnected, AddClientBroadcasts, ClientBroadcastChannels >>

=============================================================================
