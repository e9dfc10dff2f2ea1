----------------------------- MODULE AlertRules -----------------------------
(***************************************************************************)
(* The alert rules of src/backend/app/services/alert_rules.py: what one    *)
(* poll of one device says, as "skip" (the metric is not there: nothing is *)
(* asserted), "ok", "warning" or "critical".                               *)
(*                                                                         *)
(* A poll is a function from the names of the metrics that were read to    *)
(* integers: an absent metric is not in its domain.  The prev_* entries    *)
(* are the counters of the poll before.  Messages are left out.            *)
(***************************************************************************)
EXTENDS Integers, FiniteSets

CONSTANT Settings       \* the thresholds, a record like Defaults

\* The thresholds the service ships with.
Defaults ==
    [signal_warning_dbm |-> -75, signal_critical_dbm |-> -80, signal_tolerance_dbm |-> 0,
     ccq_warning_pct |-> 75, ccq_critical_pct |-> 50, ccq_tolerance_pct |-> 5,
     cinr_warning_db |-> 20, cinr_critical_db |-> 10, cinr_tolerance_db |-> 3,
     af60_signal_warning_dbm |-> -70, af60_signal_critical_dbm |-> -75,
     af60_signal_tolerance_dbm |-> 0,
     af60_snr_warning_db |-> 10, af60_snr_critical_db |-> 6, af60_snr_tolerance_db |-> 0,
     af60_link_potential_min_pct |-> 30, af60_total_capacity_min_mbps |-> 975,
     af60_occupancy_warning_pct |-> 75, af60_occupancy_critical_pct |-> 90,
     airmax_backhaul_capacity_min_mbps |-> 150,
     rx_tx_error_warning_pct |-> 1, rx_tx_error_critical_pct |-> 5,
     lr_link_potential_min_pct_airmax |-> 40, lr_link_potential_min_pct_ltu |-> 50,
     lr_total_capacity_min_mbps |-> 60,
     lr_rx_rate_critical_idx_airmax |-> 4, lr_rx_rate_warning_idx_airmax |-> 6,
     lr_rx_rate_critical_idx_ltu |-> 6]

Has(poll, names) == names \subseteq DOMAIN poll
Lowest(S) == CHOOSE x \in S : \A y \in S : x <= y
AtLeastZero(x) == IF x > 0 THEN x ELSE 0

\* The answer of a rule with two lines, the lower the worse.
Graded(value, crit_line, warn_line) ==
    IF value < crit_line THEN "critical"
    ELSE IF value < warn_line THEN "warning" ELSE "ok"

-----------------------------------------------------------------------------
(***************************************************************************)
(* Interfaces                                                              *)
(***************************************************************************)
UpRule(poll, name) ==
    IF ~Has(poll, {name}) THEN "skip" ELSE IF poll[name] = 0 THEN "critical" ELSE "ok"

RadioInterfaceDown(poll) == UpRule(poll, "radio_if_up")
Eth0Down(poll) == UpRule(poll, "eth_if_up")

-----------------------------------------------------------------------------
(***************************************************************************)
(* Radio quality, with a tolerance band: the line to open lies a margin    *)
(* below the nominal one, which is the line to resolve.                    *)
(***************************************************************************)
\* Mutant: the margin applies whether or not an incident is open.
LineMargin(is_open, nominal, margin) == nominal - margin

Line(is_open, nominal, margin) == IF is_open THEN nominal ELSE nominal - margin

Banded(poll, name, is_open, crit, warn, margin) ==
    IF ~Has(poll, {name}) THEN "skip"
    ELSE Graded(poll[name], Line(is_open, crit, margin), Line(is_open, warn, margin))

SignalLow(poll, is_open) ==
    Banded(poll, "signal_dbm", is_open, Settings.signal_critical_dbm,
           Settings.signal_warning_dbm, Settings.signal_tolerance_dbm)

CINRLow(poll, is_open) ==
    Banded(poll, "cinr_db", is_open, Settings.cinr_critical_db,
           Settings.cinr_warning_db, Settings.cinr_tolerance_db)

CCQLow(poll, is_open) ==
    Banded(poll, "ccq_pct", is_open, Settings.ccq_critical_pct,
           Settings.ccq_warning_pct, Settings.ccq_tolerance_pct)

CINRLowUL(poll, is_open) ==
    Banded(poll, "ul_cinr_db", is_open, Settings.cinr_critical_db,
           Settings.cinr_warning_db, Settings.cinr_tolerance_db)

CCQLowUL(poll, is_open) ==
    Banded(poll, "ul_ccq_pct", is_open, Settings.ccq_critical_pct,
           Settings.ccq_warning_pct, Settings.ccq_tolerance_pct)

Af60SignalLow(poll, is_open) ==
    Banded(poll, "signal_dbm", is_open, Settings.af60_signal_critical_dbm,
           Settings.af60_signal_warning_dbm, Settings.af60_signal_tolerance_dbm)

Af60SnrLow(poll, is_open) ==
    Banded(poll, "snr_db", is_open, Settings.af60_snr_critical_db,
           Settings.af60_snr_warning_db, Settings.af60_snr_tolerance_db)

\* Two of the three radio metrics at least are bad, on the nominal lines.
RadioLinkDegraded(poll) ==
    LET lines == [signal_dbm |-> <<Settings.signal_warning_dbm, Settings.signal_critical_dbm>>,
                  cinr_db |-> <<Settings.cinr_warning_db, Settings.cinr_critical_db>>,
                  ccq_pct |-> <<Settings.ccq_warning_pct, Settings.ccq_critical_pct>>]
        read == DOMAIN lines \cap DOMAIN poll
        below(n) == {metric \in read : poll[metric] < lines[metric][n]}
    IN  IF read = {} THEN "skip"
        ELSE IF Cardinality(below(1)) < 2 THEN "ok"
        ELSE IF below(2) # {} THEN "critical" ELSE "warning"

-----------------------------------------------------------------------------
(***************************************************************************)
(* Performance of the link                                                 *)
(***************************************************************************)
ErrorCounters == {"radio_in_errors", "radio_out_errors"}
ByteCounters == {"radio_rx_bytes", "radio_tx_bytes"}
Previous ==
    [radio_in_errors |-> "prev_in_errors", radio_out_errors |-> "prev_out_errors",
     radio_rx_bytes |-> "prev_rx_bytes", radio_tx_bytes |-> "prev_tx_bytes"]

\* Errors per byte since the poll before, in percent; an idle link is fine,
\* and so is one whose counters went back to zero.
HighRxTxErrors(poll) ==
    LET grown(a, b) == AtLeastZero((poll[a] - poll[Previous[a]]) + (poll[b] - poll[Previous[b]]))
        errors == grown("radio_in_errors", "radio_out_errors")
        bytes == grown("radio_rx_bytes", "radio_tx_bytes")
        reaches(pct) == errors * 100 >= pct * bytes
    IN  IF ~Has(poll, DOMAIN Previous \cup {Previous[k] : k \in DOMAIN Previous}) THEN "skip"
        ELSE IF bytes < 1000 THEN "ok"
        ELSE IF reaches(Settings.rx_tx_error_critical_pct) THEN "critical"
        ELSE IF reaches(Settings.rx_tx_error_warning_pct) THEN "warning" ELSE "ok"

\* The worst of the floors that were read.
Floors(poll, floors) ==
    LET read == DOMAIN floors \cap DOMAIN poll
        graded == {Graded(poll[metric], floors[metric][1], floors[metric][2]) : metric \in read}
    IN  IF read = {} THEN "skip"
        ELSE IF "critical" \in graded THEN "critical"
        ELSE IF "warning" \in graded THEN "warning" ELSE "ok"

\* The floors depend on the family of the radio, which the engine adds to the
\* poll (1, an airMAX LR).  An LTU one has no warning band.
LrLinkSubstandard(poll) ==
    LET airmax == Has(poll, {"airmax"}) /\ poll.airmax = 1
        sole(line) == <<line, line>>
        rate == IF airmax
                THEN <<Settings.lr_rx_rate_critical_idx_airmax, Settings.lr_rx_rate_warning_idx_airmax>>
                ELSE sole(Settings.lr_rx_rate_critical_idx_ltu)
    IN  Floors(poll,
               [link_potential_pct |->
                    sole(IF airmax THEN Settings.lr_link_potential_min_pct_airmax
                         ELSE Settings.lr_link_potential_min_pct_ltu),
                total_capacity_mbps |-> sole(Settings.lr_total_capacity_min_mbps),
                local_rx_rate_idx |-> rate, remote_rx_rate_idx |-> rate])

Af60LinkDown(poll) == UpRule(poll, "af60_link_up")

Af60LinkSubstandard(poll) ==
    LET sole(line) == <<line, line>>
    IN  Floors(poll, [link_potential_pct |-> sole(Settings.af60_link_potential_min_pct),
                      total_capacity_mbps |-> sole(Settings.af60_total_capacity_min_mbps)])

\* The fuller the worse.
Af60LinkSaturated(poll) ==
    IF ~Has(poll, {"link_occupancy_pct"}) THEN "skip"
    ELSE IF poll.link_occupancy_pct >= Settings.af60_occupancy_critical_pct THEN "critical"
    ELSE IF poll.link_occupancy_pct >= Settings.af60_occupancy_warning_pct THEN "warning" ELSE "ok"

P2pLinkSubstandard(poll) ==
    LET floor == Settings.airmax_backhaul_capacity_min_mbps
    IN  Floors(poll, [total_capacity_mbps |-> <<floor, floor>>])

-----------------------------------------------------------------------------
(***************************************************************************)
(* Which rules a device has, and how patient they are                      *)
(***************************************************************************)
RulesOf ==
    [ltu_rocket |-> <<"radio_interface_down", "eth0_down", "high_rx_tx_errors">>,
     lr |-> <<"signal_low", "cinr_low", "ccq_low", "cinr_ul_low", "ccq_ul_low",
              "radio_link_degraded", "lr_link_substandard">>,
     uisp_switch |-> <<"high_rx_tx_errors">>,
     uisp_power |-> <<>>,
     airmax_rocket |-> <<"radio_interface_down", "eth0_down", "signal_low", "cinr_low",
                         "ccq_low", "radio_link_degraded", "high_rx_tx_errors">>,
     airfiber |-> <<"af60_link_down", "af60_signal_low", "af60_snr_low",
                    "af60_link_substandard", "af60_link_saturated">>,
     ptp_litebeam |-> <<"signal_low", "cinr_low", "p2p_link_substandard">>]

Evaluate(alert_type, poll, is_open) ==
    CASE alert_type = "radio_interface_down" -> RadioInterfaceDown(poll)
      [] alert_type = "eth0_down" -> Eth0Down(poll)
      [] alert_type = "signal_low" -> SignalLow(poll, is_open)
      [] alert_type = "cinr_low" -> CINRLow(poll, is_open)
      [] alert_type = "ccq_low" -> CCQLow(poll, is_open)
      [] alert_type = "cinr_ul_low" -> CINRLowUL(poll, is_open)
      [] alert_type = "ccq_ul_low" -> CCQLowUL(poll, is_open)
      [] alert_type = "radio_link_degraded" -> RadioLinkDegraded(poll)
      [] alert_type = "high_rx_tx_errors" -> HighRxTxErrors(poll)
      [] alert_type = "lr_link_substandard" -> LrLinkSubstandard(poll)
      [] alert_type = "af60_link_down" -> Af60LinkDown(poll)
      [] alert_type = "af60_signal_low" -> Af60SignalLow(poll, is_open)
      [] alert_type = "af60_snr_low" -> Af60SnrLow(poll, is_open)
      [] alert_type = "af60_link_substandard" -> Af60LinkSubstandard(poll)
      [] alert_type = "af60_link_saturated" -> Af60LinkSaturated(poll)
      [] alert_type = "p2p_link_substandard" -> P2pLinkSubstandard(poll)

\* A rule that is not listed opens at its first bad cycle.
FailureThreshold(alert_type) ==
    CASE alert_type \in {"signal_low", "cinr_low", "ccq_low", "cinr_ul_low", "ccq_ul_low",
                         "high_rx_tx_errors", "radio_link_degraded", "af60_signal_low",
                         "af60_snr_low", "af60_link_down"} -> 2
      [] alert_type \in {"af60_link_substandard", "af60_link_saturated",
                         "p2p_link_substandard"} -> 3
      [] alert_type = "lr_link_substandard" -> 4
      [] OTHER -> 0
=============================================================================
