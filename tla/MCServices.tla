----------------------------- MODULE MCServices -----------------------------
(* Three components that share no state: what clients consumed, who may    *)
(* enter the dashboard, what the WhatsApp group is told.  A behaviour is   *)
(* one of any of them; the others stand still at their beginning.          *)
EXTENDS Access, Notifications, Consumption, TLC

CONSTANTS agents, down, ccq, ping, poll

VARIABLE at

\* Lives of one device: always polled; a reset; a night without a poll; a
\* whole day without one; as many days as one night catches up; a device that
\* goes away.
MCLives == {[missed |-> {}, resets |-> {5}],
            [missed |-> {1, 2}, resets |-> {}],
            [missed |-> {4, 5}, resets |-> {7}],
            [missed |-> 2 .. 5, resets |-> {}],
            [missed |-> 3 .. 9, resets |-> {}]}

MCGrants == {{"admin.users", "fai.view"}, PERMISSION_KEYS}

\* A rocket that is pinged and its radio that is polled.  The types that are
\* sent are the shipped ones and one of the digest's, which as shipped
\* collects nothing.
MCType == (down :> "rocket_down") @@ (ccq :> "ccq_low")
MCOwner == (down :> ping) @@ (ccq :> poll)
MCOverrides ==
    (down :> ("rocket_down" :> [channels |-> {}]))
        @@ (ccq :> ("ccq_low" :> [recovery_notification |-> FALSE]))
MCLooks == (down :> {"fine", "critical"}) @@ (ccq :> {"fine", "warning", "critical"})
MCSent == WHATSAPP_ALERT_TYPES \union {"ccq_low"}

ServicesInit ==
    /\ at \in {"consumption", "access", "notifications"}
    /\ ConsumptionInit /\ AccessInit /\ Init
    /\ at # "consumption" => life = [missed |-> {}, resets |-> {5}]

ServicesNext ==
    \/ at = "consumption" /\ ConsumptionNext /\ UNCHANGED <<at, access, vars>>
    \/ at = "access" /\ AccessNext /\ UNCHANGED <<at, consumption, vars>>
    \/ at = "notifications" /\ Next /\ UNCHANGED <<at, consumption, access>>

ServicesSpec ==
    ServicesInit /\ [][ServicesNext]_<<at, consumption, access, vars>> /\ ConsumptionFairness
=============================================================================
