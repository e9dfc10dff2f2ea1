---------------------------- MODULE MCBroadcast ----------------------------
(* The instances of Broadcast that TLC checks. *)
EXTENDS Broadcast

CONSTANTS r1, r2

TwoBroadcasts == {1, 2}
TwoPhones == {1, 2}
OneOperator == {r1}
TwoOperators == {r1, r2}
=============================================================================
