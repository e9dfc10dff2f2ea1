------------------------------- MODULE Alerts -------------------------------
(***************************************************************************)
(* The alert engine on one infrastructure device or LR: alert_engine.py,   *)
(* incident_service.py, manual_alert_service.py, the switch ports of       *)
(* _run_snmp_poll (tasks/jobs.py), and the conversions of                  *)
(* uisp_sync_service.py that change which rules the device has.            *)
(*                                                                         *)
(* A poll reads the device, then opens a session that loads its row, then  *)
(* evaluates every rule on that row and commits; the UISP sync settles the *)
(* incidents of the device it demotes long before it commits.  The two     *)
(* transactions share no lock but those of the incidents both write.  What *)
(* the ping sweeps do to incidents is in PingSweep.  An incident is its    *)
(* type and severity: one row per type, as open_incident looks it up.      *)
(***************************************************************************)
EXTENDS AlertRules, Functions

CONSTANTS
    Kinds,          \* the kinds of device to start from
    Polls,          \* Polls[k]: what a poll of a device of kind k may read
    WatchedPorts,   \* ports of a switch with a supervised device behind
    Promoted        \* the kinds that the UISP sync may turn into a ptp_litebeam

ASSUME PromotedAssumption == Promoted \subseteq DOMAIN Polls

VARIABLES
    kind,       \* the rule_category of the device
    fails,      \* fails[t]: AlertState.failure_count, up to where it matters
    counters,   \* the counters that the poll before left in AlertState
    open,       \* open[t]: the severity of the open incident of type t
    banner,     \* banner[t]: rows of manual_alerts that wait for a click
    tx,         \* the poll under way: what it read, the kind it loaded
    sync,       \* the demotion under way: the incidents it has settled
    ports       \* history: what each watched port was last seen doing

rows == <<fails, counters, open, banner>>
vars == <<kind, rows, tx, sync, ports>>

-----------------------------------------------------------------------------
PortTypes == {"switch_port_down", "switch_port_speed_low", "fiber_link_down"}
RuleTypes(k) == Range(RulesOf[k])
AlertTypes == (UNION {RuleTypes(k) : k \in DOMAIN RulesOf}) \cup PortTypes
Severities == {"no", "warning", "critical"}
Rank == [no |-> 0, warning |-> 1, critical |-> 2]

\* The types whose detections wait in the dashboard until somebody clicks.
ManualAckTypes == {"af60_link_substandard", "switch_port_speed_low"}

\* What the open incidents of a device of kind k can be resolved by.
Closable(k) == RuleTypes(k) \cup (IF k = "uisp_switch" THEN PortTypes ELSE {})

CounterNames == DOMAIN Previous
NoCounters == << >>
Idle == [pc |-> "idle"]
NoDemotion == [pc |-> "idle"]

\* Bounds: a counter matters until it passes its threshold, and at most one
\* row of a type waits in the banner.
CountCap(t) == FailureThreshold(t) + 1
BannerCap == 1

\* is_suppressed_incident: nothing is stored for a client.
Suppressed(k) == k = "lr"

-----------------------------------------------------------------------------
(***************************************************************************)
(* One poll                                                                *)
(***************************************************************************)
\* _inject_error_deltas: the counters of the poll before, under prev_*.
WithPrevious(poll, before) ==
    LET known == DOMAIN before \cap DOMAIN poll
        prev == {Previous[c] : c \in known}
    IN  [name \in DOMAIN poll \cup prev |->
            IF name \in DOMAIN poll THEN poll[name]
            ELSE before[CHOOSE c \in known : Previous[c] = name]]

Remembered(poll, before) ==
    LET read == CounterNames \cap DOMAIN poll
    IN  [c \in read \cup DOMAIN before |-> IF c \in read THEN poll[c] ELSE before[c]]

\* The counter of a rule after its answer.
Counted(t, answer, count) ==
    CASE answer = "skip" -> count
      [] answer = "ok" -> 0
      [] OTHER -> IF count < CountCap(t) THEN count + 1 ELSE count

\* Mutant: a re-triggered incident takes the severity of the last reading.
EscalatedToLast(old, new) == new

\* open_incident on an incident that is already there: it only gets worse.
Escalated(old, new) == IF Rank[new] > Rank[old] THEN new ELSE old

\* What a rule makes of the incident of its type.
Incident(k, t, answer, count, old) ==
    IF answer = "ok" THEN "no"
    ELSE IF answer # "skip" /\ Counted(t, answer, count) > FailureThreshold(t) /\ ~Suppressed(k)
         THEN Escalated(old, answer)
    ELSE old

\* _run_snmp_poll: one incident for all the ports of a switch.  A port reads
\* 0 down, -1 up at an unknown rate, else its rate.
Read(poll) == {p \in WatchedPorts : p \in DOMAIN poll}
DownPorts(poll) == {p \in Read(poll) : poll[p] = 0}
SlowPorts(poll) == {p \in Read(poll) : 0 < poll[p] /\ poll[p] < 1000}

\* The fibre has a port of its own, and its silence says nothing.
FiberIncident(poll, old) ==
    IF ~Has(poll, {"fiber"}) THEN old
    ELSE IF poll.fiber = 0 THEN "critical" ELSE "no"

\* Mutant: ports that work again leave the incident as it is.
PortIncidentKept(t, poll, old) ==
    LET faulty == IF t = "switch_port_down" THEN DownPorts(poll) ELSE SlowPorts(poll)
    IN  IF faulty # {} THEN "critical" ELSE old

PortIncident(t, poll, old) ==
    LET faulty == IF t = "switch_port_down" THEN DownPorts(poll) ELSE SlowPorts(poll)
    IN  IF t = "fiber_link_down" THEN FiberIncident(poll, old)
        ELSE IF faulty # {} THEN "critical" ELSE "no"

\* evaluate_device_metrics: one answer per rule of the kind that was loaded.
Answers(poll) ==
    LET seen == WithPrevious(poll, counters)
    IN  [t \in RuleTypes(tx.kind) |-> Evaluate(t, seen, open[t] # "no")]

Evaluated(poll, answers) ==
    [t \in AlertTypes |->
        IF t \in DOMAIN answers
        THEN Incident(tx.kind, t, answers[t], fails[t], open[t])
        ELSE IF tx.kind = "uisp_switch" /\ t \in PortTypes
        THEN PortIncident(t, poll, open[t])
        ELSE open[t]]

\* The incidents whose rows the poll writes.
Touched(answers) == {t \in DOMAIN answers : answers[t] # "skip" /\ open[t] # "no"}

\* record_detection: for the incidents this poll creates, and only those.
Signalled(was, is) == {t \in ManualAckTypes : was[t] = "no" /\ is[t] # "no"}

\* The bands of the rules with a margin, and those a reading falls into.
BandedMetric ==
    [signal_low |-> <<"signal_dbm", Settings.signal_warning_dbm, Settings.signal_tolerance_dbm>>,
     cinr_low |-> <<"cinr_db", Settings.cinr_warning_db, Settings.cinr_tolerance_db>>,
     ccq_low |-> <<"ccq_pct", Settings.ccq_warning_pct, Settings.ccq_tolerance_pct>>]

InBand(poll) ==
    {t \in DOMAIN BandedMetric :
        LET metric == BandedMetric[t]
        IN  /\ metric[1] \in DOMAIN poll
            /\ metric[2] - metric[3] <= poll[metric[1]]
            /\ poll[metric[1]] < metric[2]}

\* Phase 1: the device is read, outside any transaction; a reading with
\* nothing in it is dropped.
PollRead(poll) ==
    /\ tx.pc \notin {"read", "loaded"}
    /\ DOMAIN poll # {}
    /\ tx' = [pc |-> "read", poll |-> poll]
    /\ UNCHANGED <<kind, rows, sync, ports>>

\* Phase 2: a session loads the device's row.
PollLoad ==
    /\ tx.pc = "read"
    /\ tx' = [pc |-> "loaded", poll |-> tx.poll, kind |-> kind]
    /\ UNCHANGED <<kind, rows, sync, ports>>

\* It waits for the demotion before it writes a row that one has settled.
Writable ==
    tx.pc = "loaded" /\ sync.pc = "demoting"
        => Touched(Answers(tx.poll)) \cap sync.settled = {}

\* It reads the counters and the incidents that are committed by then, applies
\* the rules of the kind it loaded, and commits.
PollCommit ==
    /\ tx.pc = "loaded" /\ Writable
    /\ LET answers == Answers(tx.poll)
       IN  /\ open' = Evaluated(tx.poll, answers)
           /\ fails' = [t \in AlertTypes |->
                          IF t \in DOMAIN answers THEN Counted(t, answers[t], fails[t]) ELSE fails[t]]
    /\ counters' = IF RuleTypes(tx.kind) = {} THEN counters ELSE Remembered(tx.poll, counters)
    /\ banner' = [t \in ManualAckTypes |->
                    IF t \in Signalled(open, open') /\ banner[t] < BannerCap
                    THEN banner[t] + 1 ELSE banner[t]]
    /\ ports' = [p \in WatchedPorts |-> IF p \in Read(tx.poll) THEN tx.poll[p] ELSE ports[p]]
    /\ tx' = Idle
    /\ UNCHANGED <<kind, sync>>

\* A deadlock, a timeout, a row gone: the transaction is rolled back.
PollAbort ==
    /\ tx.pc \in {"read", "loaded"}
    /\ tx' = [pc |-> "failed"]
    /\ UNCHANGED <<kind, rows, sync, ports>>

-----------------------------------------------------------------------------
(***************************************************************************)
(* The other writers, and the device itself                                *)
(***************************************************************************)
\* _convert_to_ptp_litebeam touches no incident.
Promote ==
    /\ kind \in Promoted
    /\ kind' = "ptp_litebeam"
    /\ UNCHANGED <<rows, tx, sync, ports>>

\* Mutant: the demotion settles the incidents of availability only.
SettledNone(incidents) == {}

\* resolve_availability_incidents, then delete_open_incidents: what is open
\* and committed when they run.
Settled(incidents) == {t \in AlertTypes : incidents[t] # "no"}

\* _convert_ptp_litebeam_to_lr, early in the transaction of the sync.
Demote ==
    /\ kind = "ptp_litebeam" /\ sync = NoDemotion
    /\ sync' = [pc |-> "demoting", settled |-> Settled(open)]
    /\ UNCHANGED <<kind, rows, tx, ports>>

\* The sync commits: the new kind and the incidents gone are seen at once.
DemoteCommit ==
    /\ sync.pc = "demoting"
    /\ kind' = "lr"
    /\ open' = [t \in AlertTypes |-> IF t \in sync.settled THEN "no" ELSE open[t]]
    /\ sync' = NoDemotion
    /\ UNCHANGED <<fails, counters, banner, tx, ports>>

\* Or it fails further on, and nothing happened.
DemoteAbort ==
    /\ sync.pc = "demoting"
    /\ sync' = NoDemotion
    /\ UNCHANGED <<kind, rows, tx, ports>>

\* POST /manual-alerts/{id}/acknowledge: one row, for good.
Acknowledge(t) ==
    /\ banner[t] > 0
    /\ banner' = [banner EXCEPT ![t] = @ - 1]
    /\ UNCHANGED <<kind, fails, counters, open, tx, sync, ports>>

-----------------------------------------------------------------------------
Init ==
    /\ kind \in Kinds
    /\ fails = [t \in AlertTypes |-> 0]
    /\ counters = NoCounters
    /\ open = [t \in AlertTypes |-> "no"]
    /\ banner = [t \in ManualAckTypes |-> 0]
    /\ tx = Idle
    /\ sync = NoDemotion
    /\ ports = [p \in WatchedPorts |-> -1]

\* What a device of kind k in good health reads: every rule answers ok on
\* the stricter line, no errors, every watched port and the fibre at work.
Healthy(k) ==
    {poll \in Polls[k] :
        /\ \A t \in RuleTypes(k) \ {"high_rx_tx_errors"} : Evaluate(t, poll, TRUE) = "ok"
        /\ \A c \in ErrorCounters \cap DOMAIN poll : poll[c] = 0
        /\ k = "uisp_switch" =>
              /\ Read(poll) = WatchedPorts /\ DownPorts(poll) \cup SlowPorts(poll) = {}
              /\ Has(poll, {"fiber"}) /\ poll.fiber = 1}

HealthyPolls == [k \in DOMAIN Polls |-> Healthy(k)]

Poll == \E poll \in Polls[kind] : PollRead(poll)

Next ==
    \/ Poll
    \/ PollLoad
    \/ PollCommit
    \/ PollAbort
    \/ Promote
    \/ Demote
    \/ DemoteCommit
    \/ DemoteAbort
    \/ \E t \in ManualAckTypes : Acknowledge(t)

Spec == Init /\ [][Next]_vars

\* Polls come back at every cycle, and now and again one gets to its session
\* and commits: only PollCommit takes tx from "loaded" to Idle.
Commits == tx.pc = "loaded" /\ Writable /\ tx' = Idle
FairSpec == Spec /\ WF_tx(Poll) /\ SF_tx(PollLoad) /\ SF_tx(Commits)

-----------------------------------------------------------------------------
(***************************************************************************)
(* Properties                                                              *)
(***************************************************************************)
TypeOK ==
    /\ kind \in DOMAIN RulesOf
    /\ \A t \in AlertTypes : fails[t] \in 0..CountCap(t) /\ open[t] \in Severities
    /\ DOMAIN counters \subseteq CounterNames
    /\ banner \in [ManualAckTypes -> 0..BannerCap]
    /\ tx.pc \in {"idle", "failed", "read", "loaded"} /\ sync.pc \in {"idle", "demoting"}
    /\ DOMAIN ports = WatchedPorts

\* Anti-flapping ("no flapping in the margin band"): a reading between the
\* line to open and the nominal line neither opens nor closes an incident.
BandNeverFlips ==
    [][\A t \in DOMAIN BandedMetric :
          Commits /\ t \in InBand(tx.poll) => ((open[t] = "no") <=> (open'[t] = "no"))]_vars

\* "LR-side problems are never incidents": a device that is a subscriber's LR
\* has no open incident, wherever it comes from.  A poll that loaded the radio
\* before it was demoted leaves some (README).
ClientsHaveNone == kind = "lr" => \A t \in AlertTypes : open[t] = "no"

\* No poll has the device loaded while the sync demotes it.
Apart == ~(tx.pc = "loaded" /\ sync.pc = "demoting")

\* That is the only way: as long as no session of a poll overlaps a demotion,
\* a demoted radio takes nothing along, whatever it had open, even where the
\* poll was read before the demotion and is evaluated after it.
ApartClientsHaveNone == []Apart => []ClientsHaveNone

\* While an incident stays open its severity never falls.
OnlyGetsWorse ==
    [][\A t \in AlertTypes :
          open[t] # "no" /\ open'[t] # "no" => Rank[open'[t]] >= Rank[open[t]]]_vars

\* The device reads well, for what it is.
Well == tx.pc \in {"read", "loaded"} => tx.poll \in HealthyPolls[kind]

\* A device that is well again, and that is converted no more, loses every
\* incident that its present rules can close, under whichever kind it opened
\* and whatever polls and conversions crossed.  The others stay (OpenCanClose).
AllClears ==
    \A k \in DOMAIN RulesOf :
        <>[](Well /\ kind = k /\ sync = NoDemotion)
            => <>[](\A t \in Closable(k) : open[t] = "no")

\* Every open incident is of a type that the device's own rules can resolve:
\* otherwise it "resterait ouvert a vie sur /incidents".
OpenCanClose == \A t \in AlertTypes : open[t] # "no" => t \in Closable(kind)

\* "Nothing observed, so nothing asserted": a port last seen down keeps the
\* switch's incident open until it is seen up.
PortFaultShown ==
    kind = "uisp_switch" /\ (\E p \in WatchedPorts : ports[p] = 0)
        => open["switch_port_down"] # "no"
=============================================================================
