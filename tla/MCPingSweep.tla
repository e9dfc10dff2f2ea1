---------------------------- MODULE MCPingSweep ----------------------------
(* The instances of PingSweep that TLC checks. *)
EXTENDS PingSweep

CONSTANTS ip1, ip2

TwoDevices == {1, 2}
TwoIps == {ip1, ip2}

\* Two stations; only the first has an address yet.
BothLrs == [d \in TwoDevices |-> "lr"]
OneAddress == [d \in TwoDevices |-> IF d = 1 THEN ip1 ELSE NoIp]

\* One device, whatever it is taken for.
OneDevice == {1}
OneIp == {ip1}
ARocket == [d \in OneDevice |-> "rocket"]
ItsAddress == [d \in OneDevice |-> ip1]

ClientSweep == {"client"}
BothSweeps == {"infra", "client"}
BothKeepers == {"discovery", "hygiene"}
DiscoveryOnly == {"discovery"}
NoKeeper == {}
NoConversion == {}
Promotion == {<<"lr", "ptp_litebeam">>}
AllConversions ==
    {<<"rocket", "ptp_litebeam">>, <<"lr", "ptp_litebeam">>, <<"ptp_litebeam", "lr">>}
=============================================================================
