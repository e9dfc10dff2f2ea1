---------------------------- MODULE AlertsProofs ----------------------------
(***************************************************************************)
(* What TLAPS proves about Alerts, for any thresholds, any readings, any   *)
(* number of watched ports and any order of polls and conversions.         *)
(***************************************************************************)
EXTENDS Alerts, TLAPS

\* The devices are of kinds that have a list of rules, and are read by polls.
Sane ==
    /\ Kinds \cup {"lr", "ptp_litebeam"} \subseteq DOMAIN Polls
    /\ DOMAIN Polls \subseteq DOMAIN RulesOf

-----------------------------------------------------------------------------
(* What the rules answer.                                                  *)
Verdicts == {"skip", "ok", "warning", "critical"}

Listed ==
    {"radio_interface_down", "eth0_down", "signal_low", "cinr_low", "ccq_low", "cinr_ul_low",
     "ccq_ul_low", "radio_link_degraded", "high_rx_tx_errors", "lr_link_substandard",
     "af60_link_down", "af60_signal_low", "af60_snr_low", "af60_link_substandard",
     "af60_link_saturated", "p2p_link_substandard"}

\* Every rule of a kind of device is one that Evaluate knows.
LEMMA RulesAreListed ==
  ASSUME NEW k \in DOMAIN RulesOf
  PROVE  RuleTypes(k) \subseteq Listed /\ RuleTypes(k) \subseteq AlertTypes
  <1>1. RuleTypes(k) \subseteq Listed
    BY DEF RuleTypes, RulesOf, Range, Listed
  <1>2. RuleTypes(k) \subseteq AlertTypes
    BY DEF AlertTypes
  <1>3. QED
    BY <1>1, <1>2

\* A rule with two lines answers one of three things.
LEMMA GradedVerdict ==
  ASSUME NEW value, NEW crit, NEW warn
  PROVE  Graded(value, crit, warn) \in {"ok", "warning", "critical"}
  BY DEF Graded

\* And skips where its metric was not read.
LEMMA BandedVerdict ==
  ASSUME NEW poll, NEW name, NEW is_open, NEW crit, NEW warn, NEW margin
  PROVE  Banded(poll, name, is_open, crit, warn, margin) \in Verdicts
  BY GradedVerdict DEF Banded, Verdicts

\* So does the worst of several floors.
LEMMA FloorsVerdict ==
  ASSUME NEW poll, NEW floors
  PROVE  Floors(poll, floors) \in Verdicts
  BY DEF Floors, Verdicts

\* Every rule answers one of the four verdicts.
LEMMA EvaluateVerdict ==
  ASSUME NEW t \in Listed, NEW poll, NEW is_open
  PROVE  Evaluate(t, poll, is_open) \in Verdicts
  <1>1. CASE t \in {"radio_interface_down", "eth0_down", "af60_link_down"}
    BY <1>1 DEF Evaluate, RadioInterfaceDown, Eth0Down, Af60LinkDown, UpRule, Verdicts
  <1>2. CASE t \in {"signal_low", "cinr_low", "ccq_low", "cinr_ul_low", "ccq_ul_low",
                    "af60_signal_low", "af60_snr_low"}
    BY <1>2, BandedVerdict
    DEF Evaluate, SignalLow, CINRLow, CCQLow, CINRLowUL, CCQLowUL, Af60SignalLow, Af60SnrLow
  <1>3. CASE t = "radio_link_degraded"
    BY <1>3 DEF Evaluate, RadioLinkDegraded, Verdicts
  <1>4. CASE t = "high_rx_tx_errors"
    BY <1>4 DEF Evaluate, HighRxTxErrors, Verdicts
  <1>5. CASE t \in {"lr_link_substandard", "af60_link_substandard", "p2p_link_substandard"}
    BY <1>5, FloorsVerdict
    DEF Evaluate, LrLinkSubstandard, Af60LinkSubstandard, P2pLinkSubstandard
  <1>6. CASE t = "af60_link_saturated"
    BY <1>6 DEF Evaluate, Af60LinkSaturated, Verdicts
  <1>7. QED
    BY <1>1, <1>2, <1>3, <1>4, <1>5, <1>6 DEF Listed

-----------------------------------------------------------------------------
(* What a poll makes of the counters and of the incidents.                 *)
\* A counter stays below its cap.
LEMMA CountedBound ==
  ASSUME NEW t, NEW answer, NEW count \in 0..CountCap(t)
  PROVE  Counted(t, answer, count) \in 0..CountCap(t)
  <1>1. FailureThreshold(t) \in {0, 2, 3, 4}
    BY DEF FailureThreshold
  <1>2. CountCap(t) \in Nat
    BY <1>1 DEF CountCap
  <1>3. CASE answer = "skip" \/ answer = "ok"
    BY <1>2, <1>3 DEF Counted
  <1>4. CASE answer # "skip" /\ answer # "ok"
    BY <1>2, <1>4 DEF Counted
  <1>5. QED
    BY <1>3, <1>4

\* An incident that stays open only gets worse.
LEMMA IncidentGrows ==
  ASSUME NEW k, NEW t, NEW answer \in Verdicts, NEW count, NEW old \in Severities
  PROVE  /\ Incident(k, t, answer, count, old) \in Severities
         /\ old # "no" /\ Incident(k, t, answer, count, old) # "no"
              => Rank[Incident(k, t, answer, count, old)] >= Rank[old]
  <1>1. \A s \in Severities : Rank[s] \in 0..2
    BY DEF Severities, Rank
  <1>2. ASSUME NEW new \in {"warning", "critical"}
        PROVE  Escalated(old, new) \in Severities /\ Rank[Escalated(old, new)] >= Rank[old]
    BY <1>1 DEF Escalated, Severities
  <1>3. QED
    BY <1>1, <1>2 DEF Incident, Verdicts, Severities

\* The same of a switch's ports.
LEMMA PortIncidentGrows ==
  ASSUME NEW t, NEW poll, NEW old \in Severities
  PROVE  /\ PortIncident(t, poll, old) \in Severities
         /\ old # "no" /\ PortIncident(t, poll, old) # "no"
              => Rank[PortIncident(t, poll, old)] >= Rank[old]
  <1>1. PortIncident(t, poll, old) \in {"no", "critical", old}
    BY DEF PortIncident, FiberIncident
  <1>2. \A s \in Severities : Rank[s] \in 0..2 /\ Rank["critical"] = 2
    BY DEF Severities, Rank
  <1>3. QED
    BY <1>1, <1>2 DEF Severities

-----------------------------------------------------------------------------
(* Types.                                                                  *)
Shape ==
    /\ TypeOK /\ kind \in DOMAIN Polls
    /\ tx.pc = "loaded" => tx.kind \in DOMAIN RulesOf

\* What a commit leaves of an incident.
LEMMA CommitGrows ==
  ASSUME Sane, Shape, PollCommit, NEW t \in AlertTypes
  PROVE  /\ open'[t] \in Severities
         /\ open[t] # "no" /\ open'[t] # "no" => Rank[open'[t]] >= Rank[open[t]]
  <1> DEFINE answers == Answers(tx.poll)
  <1>1. open' = Evaluated(tx.poll, answers)
    BY DEF PollCommit
  <1>2. open[t] \in Severities
    BY DEF Shape, TypeOK
  <1>3. DOMAIN answers = RuleTypes(tx.kind) /\ tx.kind \in DOMAIN RulesOf
    BY DEF Answers, PollCommit, Shape
  <1>4. CASE t \in RuleTypes(tx.kind)
    <2>1. answers[t] \in Verdicts
      BY <1>3, <1>4, RulesAreListed, EvaluateVerdict DEF Answers
    <2>2. open'[t] = Incident(tx.kind, t, answers[t], fails[t], open[t])
      BY <1>1, <1>3, <1>4 DEF Evaluated
    <2> HIDE DEF answers
    <2>3. QED
      BY <1>2, <2>1, <2>2, IncidentGrows
  <1>5. CASE t \notin RuleTypes(tx.kind)
    <2>1. open'[t] = PortIncident(t, tx.poll, open[t]) \/ open'[t] = open[t]
      BY <1>1, <1>3, <1>5 DEF Evaluated
    <2>2. Rank[open[t]] \in 0..2
      BY <1>2 DEF Severities, Rank
    <2>3. QED
      BY <1>2, <2>1, <2>2, PortIncidentGrows
  <1>6. QED
    BY <1>4, <1>5

\* What a commit leaves of a counter.
LEMMA CommitCounts ==
  ASSUME Shape, PollCommit, NEW t \in AlertTypes
  PROVE  fails'[t] \in 0..CountCap(t)
  BY CountedBound DEF PollCommit, Shape, TypeOK

\* And of the rest.
LEMMA CommitRest ==
  ASSUME Shape, PollCommit
  PROVE  /\ DOMAIN counters' \subseteq CounterNames
         /\ banner' \in [ManualAckTypes -> 0..BannerCap]
         /\ DOMAIN ports' = WatchedPorts /\ tx'.pc = "idle"
         /\ kind' = kind /\ sync' = sync
  <1>1. DOMAIN counters' \subseteq CounterNames
    BY DEF PollCommit, Shape, TypeOK, Remembered
  <1>2. banner' \in [ManualAckTypes -> 0..BannerCap]
    BY DEF PollCommit, Shape, TypeOK, BannerCap
  <1>3. QED
    BY <1>1, <1>2 DEF PollCommit, Idle

\* Conversions and clicks.
LEMMA OthersShape ==
  ASSUME Sane, Shape,
         Poll \/ PollLoad \/ PollAbort \/ Promote \/ Demote \/ DemoteCommit \/ DemoteAbort
           \/ \E t \in ManualAckTypes : Acknowledge(t)
  PROVE  Shape'
  <1>1. CASE Poll
    <2>1. PICK poll : PollRead(poll)
      BY <1>1 DEF Poll
    <2>2. QED
      BY <2>1 DEF PollRead, rows, Shape, TypeOK
  <1>2. CASE PollLoad
    BY <1>2 DEF PollLoad, rows, Shape, TypeOK
  <1>3. CASE PollAbort
    BY <1>3 DEF PollAbort, rows, Shape, TypeOK
  <1>4. CASE Promote
    BY <1>4 DEF Promote, rows, Shape, TypeOK, Sane
  <1>5. CASE Demote \/ DemoteAbort
    BY <1>5 DEF Demote, DemoteAbort, NoDemotion, rows, Shape, TypeOK
  <1>6. CASE DemoteCommit
    <2>1. \A t \in AlertTypes : open'[t] \in Severities
      BY <1>6 DEF DemoteCommit, Shape, TypeOK, Severities
    <2>2. QED
      BY <1>6, <2>1 DEF DemoteCommit, NoDemotion, Shape, TypeOK, Sane
  <1>7. ASSUME NEW t \in ManualAckTypes, Acknowledge(t)
        PROVE  Shape'
    <2>1. banner' \in [ManualAckTypes -> 0..BannerCap]
      BY <1>7 DEF Acknowledge, Shape, TypeOK, BannerCap
    <2>2. QED
      BY <1>7, <2>1 DEF Acknowledge, Shape, TypeOK
  <1>8. QED
    BY <1>1, <1>2, <1>3, <1>4, <1>5, <1>6, <1>7

\* At first nothing is open and nothing was read.
LEMMA ShapeInit == Sane /\ Init => Shape
  <1> SUFFICES ASSUME Sane, Init PROVE Shape
    OBVIOUS
  <1>1. \A t \in AlertTypes : CountCap(t) \in Nat
    BY DEF CountCap, FailureThreshold
  <1>2. DOMAIN counters \subseteq CounterNames
    BY DEF Init, NoCounters
  <1>3. QED
    BY <1>1, <1>2 DEF Init, Sane, Shape, TypeOK, Severities, BannerCap, Idle, NoDemotion

\* One case per kind of step.
LEMMA ShapeNext == Sane /\ Shape /\ [Next]_vars => Shape'
  <1> SUFFICES ASSUME Sane, Shape, [Next]_vars PROVE Shape'
    OBVIOUS
  <1>1. CASE PollCommit
    BY <1>1, CommitGrows, CommitCounts, CommitRest DEF Shape, TypeOK
  <1>2. CASE UNCHANGED vars
    BY <1>2 DEF vars, rows, Shape, TypeOK
  <1>3. QED
    BY <1>1, <1>2, OthersShape DEF Next

\* Types and counters, in every state.
LEMMA ShapeAlways == ASSUME Sane PROVE Spec => []Shape
  BY ShapeInit, ShapeNext, PTL DEF Spec

\* Counters, incidents and banner keep their shape: a counter of failures
\* stops just above its threshold, a severity is one that Rank orders.
THEOREM TypeCorrect == ASSUME Sane PROVE Spec => []TypeOK
  <1>1. Shape => TypeOK
    BY DEF Shape
  <1>2. QED
    BY <1>1, ShapeAlways, PTL

-----------------------------------------------------------------------------
(* Incidents.                                                              *)
\* While an incident stays open its severity never falls, whatever the
\* readings say and whatever the device is converted to.
THEOREM SeverityOnlyRises == ASSUME Sane PROVE Spec => OnlyGetsWorse
  <1> DEFINE Rises == \A t \in AlertTypes :
                         open[t] # "no" /\ open'[t] # "no" => Rank[open'[t]] >= Rank[open[t]]
  <1>1. Shape /\ [Next]_vars => [Rises]_vars
    <2> SUFFICES ASSUME Shape, Next, NEW t \in AlertTypes,
                        open[t] # "no", open'[t] # "no"
                 PROVE  Rank[open'[t]] >= Rank[open[t]]
      OBVIOUS
    <2>1. CASE PollCommit
      BY <2>1, CommitGrows
    <2>2. CASE open' = open
      <3>1. Rank[open[t]] \in 0..2
        BY DEF Shape, TypeOK, Severities, Rank
      <3>2. QED
        BY <2>2, <3>1
    <2>3. CASE DemoteCommit
      <3>1. Rank[open[t]] \in 0..2
        BY DEF Shape, TypeOK, Severities, Rank
      <3>2. QED
        BY <2>3, <3>1 DEF DemoteCommit
    <2>4. QED
      BY <2>1, <2>2, <2>3
      DEF Next, Poll, PollRead, PollLoad, PollAbort, Promote, Demote, DemoteAbort, Acknowledge, rows
  <1> HIDE DEF Rises
  <1>2. Spec => [][Rises]_vars
    BY <1>1, ShapeAlways, PTL DEF Spec
  <1>3. QED
    BY <1>2 DEF OnlyGetsWorse, Rises

\* What keeps subscribers' LRs without incidents when no session of a poll
\* overlaps a demotion: a session over an LR loaded an LR, and the demotion
\* under way has settled all that is open.
Separate ==
    /\ ClientsHaveNone
    /\ kind = "lr" /\ tx.pc = "loaded" => tx.kind = "lr"
    /\ sync.pc = "demoting" => /\ kind = "ptp_litebeam"
                               /\ \A t \in AlertTypes \ sync.settled : open[t] = "no"

\* No step breaks it.
LEMMA SeparateNext == Separate /\ Apart /\ [Next]_vars => Separate'
  <1> SUFFICES ASSUME Separate, Apart, [Next]_vars PROVE Separate'
    OBVIOUS
  <1>1. CASE PollCommit
    <2>1. sync.pc # "demoting" /\ UNCHANGED <<kind, sync>> /\ tx'.pc # "loaded"
      BY <1>1 DEF PollCommit, Apart, Idle
    <2>2. ASSUME kind = "lr", NEW t \in AlertTypes PROVE open'[t] = "no"
      <3>1. tx.kind = "lr" /\ open[t] = "no"
        BY <1>1, <2>2 DEF PollCommit, Separate, ClientsHaveNone
      <3>2. open' = Evaluated(tx.poll, Answers(tx.poll))
        BY <1>1 DEF PollCommit
      <3>3. \A answer, count : Incident(tx.kind, t, answer, count, open[t]) = "no"
        BY <3>1 DEF Incident, Suppressed
      <3>4. QED
        BY <3>1, <3>2, <3>3 DEF Evaluated
    <2>3. QED
      BY <2>1, <2>2 DEF Separate, ClientsHaveNone
  <1>2. CASE PollLoad
    BY <1>2 DEF PollLoad, rows, Separate, ClientsHaveNone
  <1>3. CASE Promote
    BY <1>3 DEF Promote, rows, Separate, ClientsHaveNone
  <1>4. CASE Demote
    <2>1. \A t \in AlertTypes \ sync'.settled : open'[t] = "no"
      BY <1>4 DEF Demote, Settled, rows
    <2>2. QED
      BY <1>4, <2>1 DEF Demote, rows, Separate, ClientsHaveNone
  <1>5. CASE DemoteCommit
    <2>1. tx'.pc # "loaded" /\ sync'.pc # "demoting"
      BY <1>5 DEF DemoteCommit, Apart, NoDemotion
    <2>2. \A t \in AlertTypes : open'[t] = "no"
      BY <1>5 DEF DemoteCommit, Separate
    <2>3. QED
      BY <2>1, <2>2 DEF Separate, ClientsHaveNone
  <1>6. CASE DemoteAbort
    BY <1>6 DEF DemoteAbort, NoDemotion, rows, Separate, ClientsHaveNone
  <1>7. CASE Poll
    <2>1. PICK poll : PollRead(poll)
      BY <1>7 DEF Poll
    <2>2. QED
      BY <2>1 DEF PollRead, rows, Separate, ClientsHaveNone
  <1>8. CASE PollAbort
    BY <1>8 DEF PollAbort, rows, Separate, ClientsHaveNone
  <1>9. CASE UNCHANGED <<kind, open, tx, sync>>
    BY <1>9 DEF Separate, ClientsHaveNone
  <1>10. QED
    BY <1>1, <1>2, <1>3, <1>4, <1>5, <1>6, <1>7, <1>8, <1>9
    DEF Next, Acknowledge, vars, rows

\* A subscriber's LR has no open incident as long as no session of a poll
\* overlaps the demotion that makes it one; polls read before a demotion and
\* evaluated after it, or the other way round, do no harm.
THEOREM ClientsNeverHaveAny == Spec => ApartClientsHaveNone
  <1>1. Init => Separate
    BY DEF Init, Separate, ClientsHaveNone, Idle, NoDemotion
  <1>2. Separate /\ Apart /\ [Next]_vars => Separate'
    BY SeparateNext
  <1>3. Separate => ClientsHaveNone
    BY DEF Separate
  <1>4. Spec /\ []Apart => []ClientsHaveNone
    BY <1>1, <1>2, <1>3, PTL DEF Spec
  <1>5. QED
    BY <1>4, PTL DEF ApartClientsHaveNone

-----------------------------------------------------------------------------
(* The tolerance band.                                                     *)
\* Readings and thresholds are numbers, and the critical line is not above
\* the warning one.
Numbers ==
    /\ \A k \in DOMAIN Polls : \A poll \in Polls[k] : \A n \in DOMAIN poll : poll[n] \in Int
    /\ Settings.signal_warning_dbm \in Int /\ Settings.signal_critical_dbm \in Int
    /\ Settings.signal_tolerance_dbm \in Int
    /\ Settings.cinr_warning_db \in Int /\ Settings.cinr_critical_db \in Int
    /\ Settings.cinr_tolerance_db \in Int
    /\ Settings.ccq_warning_pct \in Int /\ Settings.ccq_critical_pct \in Int
    /\ Settings.ccq_tolerance_pct \in Int

Ordered ==
    /\ Settings.signal_critical_dbm <= Settings.signal_warning_dbm
    /\ Settings.cinr_critical_db <= Settings.cinr_warning_db
    /\ Settings.ccq_critical_pct <= Settings.ccq_warning_pct

\* What a poll has read and not yet evaluated are numbers.
ReadNumbers == tx.pc \in {"read", "loaded"} => \A n \in DOMAIN tx.poll : tx.poll[n] \in Int

\* Readings come from the polls of the device's kind at that time.
LEMMA ReadNumbersNext == Sane /\ Numbers /\ Shape /\ ReadNumbers /\ [Next]_vars => ReadNumbers'
  <1> SUFFICES ASSUME Sane, Numbers, Shape, ReadNumbers, [Next]_vars PROVE ReadNumbers'
    OBVIOUS
  <1>1. CASE Poll
    <2>1. PICK poll \in Polls[kind] : PollRead(poll)
      BY <1>1 DEF Poll
    <2>2. poll \in Polls[kind]
      BY <2>1
    <2>3. tx'.poll = poll
      BY <2>1 DEF PollRead
    <2>4. QED
      BY <2>2, <2>3 DEF ReadNumbers, Numbers, Shape
  <1>2. CASE PollCommit \/ PollAbort
    BY <1>2 DEF PollCommit, PollAbort, ReadNumbers, Idle
  <1>3. CASE PollLoad
    BY <1>3 DEF PollLoad, ReadNumbers
  <1>4. CASE tx' = tx
    BY <1>4 DEF ReadNumbers
  <1>5. QED
    BY <1>1, <1>2, <1>3, <1>4
    DEF Next, Promote, Demote, DemoteCommit, DemoteAbort, Acknowledge, vars

\* A verdict that leaves an incident as it is: bad if open, ok if not.
Agrees(is_open, answer) == IF is_open THEN answer \in {"warning", "critical"} ELSE answer = "ok"

\* A banded rule, on a reading in its band, agrees with the incident.
LEMMA BandHolds ==
  ASSUME NEW poll, NEW name \in DOMAIN poll, poll[name] \in Int, NEW is_open \in BOOLEAN,
         NEW crit \in Int, NEW warn \in Int, NEW margin \in Int,
         crit <= warn, warn - margin <= poll[name], poll[name] < warn
  PROVE  Agrees(is_open, Banded(poll, name, is_open, crit, warn, margin))
  <1>1. Has(poll, {name})
    BY DEF Has
  <1>2. CASE is_open
    BY <1>1, <1>2 DEF Agrees, Banded, Line, Graded
  <1>3. CASE ~is_open
    <2>1. ~(poll[name] < crit - margin)
      OBVIOUS
    <2>2. QED
      BY <1>1, <1>3, <2>1 DEF Agrees, Banded, Line, Graded
  <1>4. QED
    BY <1>2, <1>3

\* The readings of a poll are those its rules see, with the previous counters
\* beside them.
LEMMA SeenReadings ==
  ASSUME NEW poll, NEW before, NEW name \in DOMAIN poll
  PROVE  name \in DOMAIN WithPrevious(poll, before) /\ WithPrevious(poll, before)[name] = poll[name]
  BY DEF WithPrevious

\* The verdict of a rule whose reading is in its band.
LEMMA BandVerdict ==
  ASSUME Numbers, Ordered, NEW poll, \A n \in DOMAIN poll : poll[n] \in Int, NEW before,
         NEW t \in InBand(poll), NEW is_open \in BOOLEAN
  PROVE  Agrees(is_open, Evaluate(t, WithPrevious(poll, before), is_open))
  <1> DEFINE seen == WithPrevious(poll, before)
  <1>1. t \in {"signal_low", "cinr_low", "ccq_low"}
    BY DEF InBand, BandedMetric
  <1>2. CASE t = "signal_low"
    <2>1. /\ "signal_dbm" \in DOMAIN poll
          /\ Settings.signal_warning_dbm - Settings.signal_tolerance_dbm <= poll["signal_dbm"]
          /\ poll["signal_dbm"] < Settings.signal_warning_dbm
      BY <1>2 DEF InBand, BandedMetric
    <2>2. "signal_dbm" \in DOMAIN seen /\ seen["signal_dbm"] = poll["signal_dbm"]
      BY <2>1, SeenReadings
    <2>3. Evaluate(t, seen, is_open) = Banded(seen, "signal_dbm", is_open,
             Settings.signal_critical_dbm, Settings.signal_warning_dbm, Settings.signal_tolerance_dbm)
      BY <1>2 DEF Evaluate, SignalLow
    <2>4. Agrees(is_open, Evaluate(t, seen, is_open))
      <3> HIDE DEF seen
      <3>1. QED
        BY <2>1, <2>2, <2>3, BandHolds DEF Numbers, Ordered
    <2>5. QED
      BY <2>4
  <1>3. CASE t = "cinr_low"
    <2>1. /\ "cinr_db" \in DOMAIN poll
          /\ Settings.cinr_warning_db - Settings.cinr_tolerance_db <= poll["cinr_db"]
          /\ poll["cinr_db"] < Settings.cinr_warning_db
      BY <1>3 DEF InBand, BandedMetric
    <2>2. "cinr_db" \in DOMAIN seen /\ seen["cinr_db"] = poll["cinr_db"]
      BY <2>1, SeenReadings
    <2>3. Evaluate(t, seen, is_open) = Banded(seen, "cinr_db", is_open,
             Settings.cinr_critical_db, Settings.cinr_warning_db, Settings.cinr_tolerance_db)
      BY <1>3 DEF Evaluate, CINRLow
    <2>4. Agrees(is_open, Evaluate(t, seen, is_open))
      <3> HIDE DEF seen
      <3>1. QED
        BY <2>1, <2>2, <2>3, BandHolds DEF Numbers, Ordered
    <2>5. QED
      BY <2>4
  <1>4. CASE t = "ccq_low"
    <2>1. /\ "ccq_pct" \in DOMAIN poll
          /\ Settings.ccq_warning_pct - Settings.ccq_tolerance_pct <= poll["ccq_pct"]
          /\ poll["ccq_pct"] < Settings.ccq_warning_pct
      BY <1>4 DEF InBand, BandedMetric
    <2>2. "ccq_pct" \in DOMAIN seen /\ seen["ccq_pct"] = poll["ccq_pct"]
      BY <2>1, SeenReadings
    <2>3. Evaluate(t, seen, is_open) = Banded(seen, "ccq_pct", is_open,
             Settings.ccq_critical_pct, Settings.ccq_warning_pct, Settings.ccq_tolerance_pct)
      BY <1>4 DEF Evaluate, CCQLow
    <2>4. Agrees(is_open, Evaluate(t, seen, is_open))
      <3> HIDE DEF seen
      <3>1. QED
        BY <2>1, <2>2, <2>3, BandHolds DEF Numbers, Ordered
    <2>5. QED
      BY <2>4
  <1>5. QED
    BY <1>1, <1>2, <1>3, <1>4

\* What is open, or not, stays so when its reading is in the band.
LEMMA CommitHolds ==
  ASSUME Numbers, Ordered, ReadNumbers, Shape, PollCommit, NEW t \in InBand(tx.poll)
  PROVE  (open[t] = "no") <=> (open'[t] = "no")
  <1> DEFINE answers == Answers(tx.poll)
  <1>1. t \in {"signal_low", "cinr_low", "ccq_low"}
    BY DEF InBand, BandedMetric
  <1>2. t \in AlertTypes
    <2>1. \A k \in DOMAIN RulesOf : RuleTypes(k) \subseteq AlertTypes
      BY RulesAreListed
    <2>2. "airmax_rocket" \in DOMAIN RulesOf /\ DOMAIN RulesOf["airmax_rocket"] = 1..7
          /\ RulesOf["airmax_rocket"][3] = "signal_low" /\ RulesOf["airmax_rocket"][4] = "cinr_low"
          /\ RulesOf["airmax_rocket"][5] = "ccq_low"
      BY DEF RulesOf
    <2>3. {"signal_low", "cinr_low", "ccq_low"} \subseteq RuleTypes("airmax_rocket")
      BY <2>2 DEF RuleTypes, Range
    <2>4. QED
      BY <1>1, <2>1, <2>2, <2>3
  <1>3. open' = Evaluated(tx.poll, answers) /\ DOMAIN answers = RuleTypes(tx.kind)
    BY DEF PollCommit, Answers
  <1>4. open[t] \in Severities
    BY <1>2 DEF Shape, TypeOK
  <1>5. CASE t \in RuleTypes(tx.kind)
    <2>1. answers[t] = Evaluate(t, WithPrevious(tx.poll, counters), open[t] # "no")
      BY <1>5 DEF Answers
    <2>2. Agrees(open[t] # "no", answers[t])
      <3>1. \A n \in DOMAIN tx.poll : tx.poll[n] \in Int
        BY DEF PollCommit, ReadNumbers
      <3> DEFINE is_open == open[t] # "no"
      <3>2. is_open \in BOOLEAN
        OBVIOUS
      <3>3. answers[t] = Evaluate(t, WithPrevious(tx.poll, counters), is_open)
        BY <2>1
      <3> HIDE DEF is_open, answers
      <3>4. Agrees(is_open, answers[t])
        BY <3>1, <3>2, <3>3, BandVerdict
      <3>5. QED
        BY <3>4 DEF is_open
    <2>3. open'[t] = Incident(tx.kind, t, answers[t], fails[t], open[t])
      BY <1>2, <1>3, <1>5 DEF Evaluated
    <2> HIDE DEF answers
    <2>4. QED
      BY <1>4, <2>2, <2>3 DEF Agrees, Incident, Escalated, Severities
  <1>6. CASE t \notin RuleTypes(tx.kind)
    <2>1. t \notin PortTypes
      BY <1>1 DEF PortTypes
    <2>2. open'[t] = open[t]
      BY <1>2, <1>3, <1>6, <2>1 DEF Evaluated
    <2>3. QED
      BY <2>2
  <1>7. QED
    BY <1>5, <1>6

\* A reading between the line to open and the nominal line neither opens nor
\* closes an incident, whatever the counters and the kind of the device, when
\* the critical line is not above the warning one.
THEOREM BandIsQuiet ==
  ASSUME Sane, Numbers, Ordered
  PROVE  Spec => BandNeverFlips
  <1> DEFINE Quiet == \A t \in DOMAIN BandedMetric :
                        Commits /\ t \in InBand(tx.poll) => ((open[t] = "no") <=> (open'[t] = "no"))
  <1>1. Init => ReadNumbers
    BY DEF Init, Idle, ReadNumbers
  <1>2. Shape /\ ReadNumbers /\ [Next]_vars => ReadNumbers'
    BY ReadNumbersNext
  <1>3. Shape /\ ReadNumbers /\ [Next]_vars => [Quiet]_vars
    <2> SUFFICES ASSUME Shape, ReadNumbers, Next, Commits, NEW t \in InBand(tx.poll)
                 PROVE  (open[t] = "no") <=> (open'[t] = "no")
      OBVIOUS
    <2>1. PollCommit
      <3>1. tx.pc = "loaded" /\ tx'.pc = "idle"
        BY DEF Commits, Idle
      <3>2. QED
        BY <3>1 DEF Next, Poll, PollRead, PollLoad, PollAbort, Promote, Demote, DemoteCommit, DemoteAbort,
               Acknowledge
    <2>2. QED
      BY <2>1, CommitHolds
  <1> HIDE DEF Quiet
  <1>4. Spec => [][Quiet]_vars
    BY <1>1, <1>2, <1>3, ShapeAlways, PTL DEF Spec
  <1>5. QED
    BY <1>4 DEF BandNeverFlips, Quiet

\* The thresholds the service ships with are ordered, so its bands are quiet.
LEMMA DefaultsOrdered == Settings = Defaults => Ordered
  BY DEF Defaults, Ordered

=============================================================================
