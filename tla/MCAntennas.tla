----------------------------- MODULE MCAntennas -----------------------------
(* One client whose antenna a is replaced by b, and another client.        *)
EXTENDS Antennas, TLC

CONSTANTS a, b, c1, c2, s1, s2

MCOwner == (s1 :> c1) @@ (s2 :> c2)
MCReplacements == {[client |-> c1, old |-> a, new |-> b, service |-> None, force |-> FALSE]}
MCRows ==
    (a :> {None, Discovered, [Discovered EXCEPT !.client = c1, !.synced = TRUE],
           [Discovered EXCEPT !.client = c1, !.synced = TRUE, !.blocked = TRUE]})
    @@ (b :> {None, Discovered})
=============================================================================
