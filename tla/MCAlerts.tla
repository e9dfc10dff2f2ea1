------------------------------ MODULE MCAlerts ------------------------------
(* A few polls of each kind of device: around the lines, in the bands, far   *)
(* below, and with metrics missing.                                          *)
EXTENDS Alerts, TLC

MCKinds == {"ptp_litebeam", "airfiber", "uisp_switch", "airmax_rocket"}
MCLitebeam == {"ptp_litebeam"}
MCPorts == {"port_1", "port_2"}
MCPromoted == {"lr", "airmax_rocket"}

\* A critical line stored above the warning one (README, section 5).
MCUnordered == [Defaults EXCEPT !.cinr_critical_db = 22]

Radio(signal, cinr, capacity) ==
    [signal_dbm |-> signal, cinr_db |-> cinr, total_capacity_mbps |-> capacity]

Fibre(up, signal, capacity, occupancy) ==
    [af60_link_up |-> up, signal_dbm |-> signal, snr_db |-> 12,
     link_potential_pct |-> 60, total_capacity_mbps |-> capacity, link_occupancy_pct |-> occupancy]

Counts(errors, bytes) ==
    [radio_in_errors |-> errors, radio_out_errors |-> 0, radio_rx_bytes |-> bytes, radio_tx_bytes |-> 0]

Switch(one, two, counts) == counts @@ [port_1 |-> one] @@ [port_2 |-> two]

ClientLr(signal, cinr) ==
    Radio(signal, cinr, 80) @@
    [ccq_pct |-> 90, ul_cinr_db |-> cinr, ul_ccq_pct |-> 90, link_potential_pct |-> 70,
     local_rx_rate_idx |-> 6, remote_rx_rate_idx |-> 6, airmax |-> 1]

Rocket(up, ccq) == Radio(-60, 30, 200) @@ [radio_if_up |-> 1, eth_if_up |-> up, ccq_pct |-> ccq] @@ Counts(0, 0)

MCPolls ==
    [ptp_litebeam |-> {Radio(-60, 25, 200), Radio(-60, 18, 100), [cinr_db |-> 12]},
     airfiber |-> {Fibre(u, s, 1500, 20) : u \in {0, 1}, s \in {-60, -72}} \cup
                  {Fibre(1, -60, c, o) : c \in {900, 1500}, o \in {20, 80, 95}} \cup {<< >>},
     uisp_switch |-> {Switch(p, q, Counts(0, 0)) : p \in {0, 1000, 100}, q \in {0, 1000}} \cup
                     {Switch(1000, 1000, Counts(0, 0)) @@ [fiber |-> f] : f \in {0, 1}} \cup
                     {Counts(e, 4000) @@ [port_2 |-> 1000] : e \in {0, 200}} \cup {<< >>},
     lr |-> {ClientLr(-60, 25), ClientLr(-85, 12)},
     airmax_rocket |-> {Rocket(1, 90), Rocket(0, 72)}]
=============================================================================
