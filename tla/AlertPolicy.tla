---------------------------- MODULE AlertPolicy ----------------------------
(***************************************************************************)
(* Who is told of what: the table of alert_policy.py, the overrides of a   *)
(* device, and the decision of one event on one channel.                   *)
(***************************************************************************)
Channels == {"whatsapp"}
Events == {"opened", "resolved"}

Row(severity, immediate, groupable, recovery) ==
    [severity |-> severity, notify_immediately |-> immediate, channels |-> Channels,
     groupable |-> groupable, recovery_notification |-> recovery]

\* Told at once, and told again when it is over.
OutageTypes ==
    {"rocket_down", "switch_down", "device_unreachable", "airmax_down", "radio_interface_down", "eth0_down"}
LinkTypes ==
    {"lr_link_substandard", "af60_link_down", "af60_link_substandard", "af60_link_saturated",
     "p2p_link_substandard"}
PowerTypes == {"uisp_power_unreachable", "voltage_anomaly"}
TransitTypes ==
    {"transit_unavailable", "lr_no_transit", "lr_latency_high", "switch_port_down",
     "switch_port_speed_low", "fiber_link_down", "device_flapping"}

\* Left to the digest.
QualityTypes == {"signal_low", "cinr_low", "ccq_low", "high_rx_tx_errors"}
Af60QualityTypes == {"af60_signal_low", "af60_snr_low", "ccq_ul_low", "cinr_ul_low"}

\* The table, a row for all the types that share it.
Rows ==
    {[types |-> OutageTypes \union LinkTypes \union PowerTypes \union TransitTypes,
      row |-> Row("critical", TRUE, FALSE, TRUE)],
     [types |-> QualityTypes \union Af60QualityTypes, row |-> Row("warning", FALSE, TRUE, TRUE)],
     [types |-> {"radio_link_degraded"}, row |-> Row("dynamic", FALSE, TRUE, TRUE)],
     [types |-> {"battery_low_crit", "battery_internal_low", "battery_external_low", "security_anomaly"},
      row |-> Row("critical", TRUE, FALSE, FALSE)],
     [types |-> {"battery_low_warn", "lr_reassigned"}, row |-> Row("warning", TRUE, FALSE, FALSE)],
     [types |-> {"mains_power_lost"}, row |-> Row("warning", TRUE, FALSE, TRUE)],
     [types |-> {"lr_discovered"}, row |-> Row("info", FALSE, FALSE, FALSE)],
     [types |-> {"lr_ip_changed"}, row |-> Row("warning", FALSE, FALSE, FALSE)],
     [types |-> {"lr_bridge_mode_misconfig"}, row |-> Row("warning", FALSE, FALSE, TRUE)]}

ALERT_POLICIES ==
    [t \in UNION {shared.types : shared \in Rows} |-> (CHOOSE shared \in Rows : t \in shared.types).row]

FallbackPolicy == Row("warning", FALSE, FALSE, TRUE)

\* What is sent at all.
WHATSAPP_ALERT_TYPES ==
    {"switch_port_speed_low", "switch_port_down", "fiber_link_down", "device_flapping",
     "battery_internal_low", "battery_external_low",
     "af60_link_substandard", "af60_link_down", "p2p_link_substandard",
     "rocket_down", "switch_down", "device_unreachable", "airmax_down"}
-----------------------------------------------------------------------------
get_policy(type) == IF type \in DOMAIN ALERT_POLICIES THEN ALERT_POLICIES[type] ELSE FallbackPolicy

(* An override is a record of some of the four fields.  A list of channels *)
(* of which none is known does not silence the alert.                      *)
Overridable == {"notify_immediately", "channels", "groupable", "recovery_notification"}

MergedField(base, override, f) ==
    IF f \notin DOMAIN override \intersect Overridable THEN base[f]
    ELSE IF f = "channels" /\ override[f] \intersect Channels = {} THEN base[f]
    ELSE IF f = "channels" THEN override[f] \intersect Channels
    ELSE override[f]

merge_overrides(base, override) == [f \in DOMAIN base |-> MergedField(base, override, f)]

\* overrides: the column of a device, from some types to overrides.
get_policy_for_device(type, overrides) ==
    IF type \in DOMAIN overrides THEN merge_overrides(get_policy(type), overrides[type])
    ELSE get_policy(type)

effective_notify_immediately(policy, severity) == severity = "critical" \/ policy.notify_immediately

should_notify(channel, policy, severity, event) ==
    /\ channel \in policy.channels
    /\ event = "resolved" => policy.recovery_notification
    /\ severity = "info" => effective_notify_immediately(policy, severity)

\* An opening that is left to the digest.
Deferred(policy, severity, event) == event = "opened" /\ policy.groupable /\ severity # "critical"

\* What the digest takes in: the device may opt out of it, never into it.
Digestible(type, overrides) == get_policy(type).groupable /\ get_policy_for_device(type, overrides).groupable
=============================================================================
