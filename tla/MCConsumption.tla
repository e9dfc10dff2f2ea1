---------------------------- MODULE MCConsumption ----------------------------
(* Lives of one device: always polled; a reset; a night without a poll; a  *)
(* whole day without one; a device that goes away.                          *)
EXTENDS Consumption
MCLives == {[missed |-> {}, resets |-> {5}],
            [missed |-> {1, 2}, resets |-> {}],
            [missed |-> {4, 5}, resets |-> {7}],
            [missed |-> 3 .. 9, resets |-> {}]}
\* The supervisor is stopped for as many days as one night catches up.
MCStopped == {[missed |-> 2 .. 5, resets |-> {}]}
=============================================================================
