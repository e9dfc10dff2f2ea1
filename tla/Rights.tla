------------------------------- MODULE Rights -------------------------------
(***************************************************************************)
(* The catalogue of rights (core/permissions.py), the dependencies that    *)
(* authenticate a request (api/deps.py), and what every route asks for     *)
(* (api/router.py and the endpoints).                                      *)
(***************************************************************************)
EXTENDS FiniteSets

PageRights == {
    "dashboard.view", "uptime.view", "sites.view", "lr_health.view", "clients.view",
    "capacity.view", "topology.view", "map.view", "traffic.view",
    "fai.view", "fai.requests.view", "fai.journal.view", "fai.router_rules.view",
    "fai.content_filter.view", "broadcast.view",
    "incidents.view", "access_diagnostics.view",
    "reports.view", "thresholds.view", "admin.access"}
ActionRights == {
    "topology.export", "topology.sync",
    "devices.create", "devices.edit", "devices.delete", "devices.diagnostics",
    "devices.power_output", "devices.enroll_uisp", "devices.plan_sync",
    "uisp.sync", "uisp.assign", "uisp.antenna_remove",
    "fai.block", "fai.content_filter.edit", "broadcast.send",
    "manual_alerts.acknowledge", "access_diagnostics.enroll",
    "thresholds.edit", "system.test_whatsapp",
    "admin.profiles", "admin.users"}
\* Mutant: a right left the catalogue, not the page that asks for it.
DataWithoutStats == {"dashboard.stats", "sites.client_counts", "clients.count", "capacity.totals"}
DataRights == {
    "dashboard.stats", "sites.client_counts", "clients.count", "capacity.totals", "fai.stats"}
PERMISSION_KEYS == PageRights \union ActionRights \union DataRights

DEVICE_READ_PERMISSIONS == {
    "sites.view", "map.view", "fai.view", "fai.content_filter.view", "lr_health.view",
    "capacity.view", "topology.view", "incidents.view", "dashboard.view",
    "access_diagnostics.view", "clients.view", "uptime.view"}

\* What is stored outlives the catalogue it was chosen from: keys withdrawn
\* since are passed over.
normalize_permissions(keys) == keys \intersect PERMISSION_KEYS
unknown_permissions(keys) == keys \ PERMISSION_KEYS
-----------------------------------------------------------------------------
(* A dependency is named for what it lets in besides operators' sessions:  *)
(* the keys of machines that open it.                                      *)
MasterKey == "api_key"
MachineKeys == {
    MasterKey, "fai_api_key", "lr_verify_api_key", "uisp_assign_api_key", "content_block_api_key",
    "client_signal_api_key", "site_status_api_key", "ticketing_api_key"}

require_user == {}
require_user_or_api_key == {MasterKey}
require_fai_client == {"fai_api_key"} \union require_user_or_api_key
require_verify_client == {"lr_verify_api_key"} \union require_fai_client
require_uisp_assign_client == {"uisp_assign_api_key"} \union require_user_or_api_key
require_content_block_client == {"content_block_api_key"} \union require_user_or_api_key
require_client_signal_client == {"client_signal_api_key"} \union require_user_or_api_key
require_site_status_client == {"site_status_api_key"} \union require_user_or_api_key
require_ticketing_client == {"ticketing_api_key"} \union require_user_or_api_key

(* A route: the keys that open it, and the guards an operator passes, each *)
(* satisfied by any one of its rights.                                     *)
Route(name, keys, guards) == [name |-> name, keys |-> keys, guards |-> guards]
Operators(name, rights) == Route(name, require_user_or_api_key, {rights})

Routers == {
    Route("auth", require_user, {}),
    Operators("dashboard", {"dashboard.view"}),
    Operators("sites", {"sites.view"}),
    Operators("map", {"map.view"}),
    Operators("access", {"fai.view"}),
    Route("fai", require_fai_client, {{"fai.block"}}),
    Route("fai verify", require_verify_client, {{"fai.view"}}),
    Operators("fai-journal", {"fai.journal.view", "fai.requests.view"}),
    Operators("router-rules", {"fai.router_rules.view"}),
    Route("content-filter", require_content_block_client, {{"fai.content_filter.edit"}}),
    Operators("incidents", {"incidents.view"}),
    Route("manual-alerts", require_user_or_api_key, {}),
    Operators("lr-health", {"lr_health.view"}),
    Route("client-signal", require_client_signal_client, {{"fai.view"}}),
    Route("site-status", require_site_status_client, {{"uptime.view"}}),
    Operators("clients", {"clients.view"}),
    Operators("network-capacity", {"capacity.view"}),
    Operators("network-uptime", {"uptime.view", "dashboard.view", "reports.view", "sites.view"}),
    Operators("network-topology", {"topology.view"}),
    Operators("traffic", {"traffic.view"}),
    Operators("uisp", {"uisp.sync"}),
    Route("uisp assign", require_uisp_assign_client, {{"uisp.assign"}}),
    Route("antennas", require_ticketing_client, {{"uisp.antenna_remove"}})}

Endpoints == {
    Operators("devices read", DEVICE_READ_PERMISSIONS),
    Operators("devices create", {"devices.create"}),
    Operators("devices edit", {"devices.edit"}),
    Operators("devices delete", {"devices.delete"}),
    Operators("devices diagnostics", {"devices.diagnostics"}),
    Operators("devices block", {"fai.block"}),
    Operators("devices plan sync", {"devices.plan_sync"}),
    Operators("devices enroll", {"devices.enroll_uisp"}),
    Operators("devices filter", {"fai.content_filter.view", "fai.content_filter.edit"}),
    Operators("devices set filter", {"fai.content_filter.edit"}),
    Operators("devices power", {"devices.power_output"}),
    Operators("access-diagnostics", {"access_diagnostics.view"}),
    Operators("access-diagnostics assign", {"uisp.assign"}),
    Operators("access-diagnostics enroll", {"access_diagnostics.enroll"}),
    Operators("manual-alerts acknowledge", {"manual_alerts.acknowledge"}),
    Route("topology export", require_user_or_api_key, {{"topology.view"}, {"topology.export"}}),
    Route("topology sync", require_user_or_api_key, {{"topology.view"}, {"topology.sync"}}),
    Operators("thresholds", {"thresholds.view", "thresholds.edit"}),
    Operators("thresholds edit", {"thresholds.edit"}),
    Operators("test whatsapp", {"system.test_whatsapp"}),
    Operators("broadcasts", {"broadcast.view", "broadcast.send"}),
    Operators("broadcasts send", {"broadcast.send"}),
    Operators("admin read", {"admin.access"}),
    Operators("admin profiles", {"admin.profiles"}),
    Operators("admin users", {"admin.users"})}

\* Figures a page leaves out for who lacks their right (caller_has_permission).
Figures == {
    Operators("access", {"fai.stats"}), Operators("clients", {"clients.count"}),
    Operators("dashboard", {"dashboard.stats"}), Operators("network-capacity", {"capacity.totals"}),
    Operators("sites", {"sites.client_counts"})}

Routes == Routers \union Endpoints \union Figures
-----------------------------------------------------------------------------
\* Permission dependencies let machines through: their keys have no profile.
OpenToMachine(route, key) == key \in route.keys
OpenToRights(route, rights) == \A any \in route.guards : any \intersect rights # {}
=============================================================================
