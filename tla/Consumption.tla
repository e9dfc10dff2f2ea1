---------------------------- MODULE Consumption ----------------------------
(***************************************************************************)
(* What a client consumed.  Byte counters are sampled into device_metrics, *)
(* a nightly job adds a finished day up into client_consumption_daily, a   *)
(* retention job deletes samples that were added up, an operator fills the *)
(* past with scripts/backfill_consumption_daily.py, and the pages sew days *)
(* already added up to samples still there (consumption_service.py).       *)
(*                                                                         *)
(* One device and one of its four counters.  Time is counted in slots, the *)
(* polls of the day; the client downloads one unit per slot, so that the   *)
(* value of the counter at a slot says how far back its last reset is.     *)
(***************************************************************************)
EXTENDS Integers, FiniteSets, FiniteSetsExt, Functions

CONSTANTS
    SlotsPerDay,    \* polls of a day
    Lookback,       \* _ROLLUP_LOOKBACK, in slots
    MaxDelta,       \* _MAX_PLAUSIBLE_DELTA_BYTES
    DeepestDays,    \* deepest_raw_window_days: the longest moving window
    KeepDays,       \* device_metrics_retention_days
    MaxCatchup,     \* client_consumption_daily_max_catchup_days
    Batch,          \* rows of one DELETE of the purge
    LastDay,        \* bound on time
    MaxInterrupted, \* bound on passes that fail or are interrupted
    Lives,          \* polls that did not happen, and resets of the counter
    Careful         \* the operator backfills before the retention is enabled

ASSUME ConsumptionAssumption ==
    /\ SlotsPerDay \in Nat \ {0}
    /\ {Lookback, MaxDelta, DeepestDays, KeepDays, MaxCatchup, Batch, LastDay} \subseteq Nat

Days == 0 .. LastDay
Slots == 0 .. (LastDay + 1) * SlotsPerDay - 1

ASSUME LivesAssumption == Lives \subseteq [missed : SUBSET Slots, resets : SUBSET Slots]

Day(s) == s \div SlotsPerDay
Midnight(d) == d * SlotsPerDay
NoDay == -1
Counter == "peer_tx_bytes"
Signal == "signal_dbm"
COUNTER_METRICS == {Counter}
HISTORY_METRICS == {Counter}

VARIABLES
    life,       \* the polls missed and the resets of the device
    now,        \* the slot being lived: samples exist for earlier ones
    metrics,    \* rows of device_metrics: a metric and the slot it was read at
    daily,      \* client_consumption_daily: bytes of a day
    enabled,    \* device_metrics_retention_enabled
    rollup,     \* days a pass of the nightly job still has to add up
    purge,      \* cutoff of the purge under way
    backfill,   \* days a run of the script still has to add up
    interrupted
consumption == <<life, now, metrics, daily, enabled, rollup, purge, backfill, interrupted>>

Idle == {}
-----------------------------------------------------------------------------
(* The counter of the device, and what adding up its samples gives.        *)

Value(s) == s - Max({0} \union {r \in life.resets : r <= s})

\* What was ever sampled, whether or not its row is still there.
Sampled == {s \in Slots : s < now /\ s \notin life.missed}
Raw == {r.at : r \in {x \in metrics : x.metric = Counter}}

\* A counter that went back, or jumped too far, adds nothing.
Gain(p, s) == LET d == Value(s) - Value(p) IN IF d >= 0 /\ d <= MaxDelta THEN d ELSE 0

\* The gain on LAG() OVER the samples read, the first of which has none.
Added(seen, s) ==
    LET earlier == {p \in seen : p < s}
    IN IF earlier = {} THEN 0 ELSE Gain(Max(earlier), s)

\* SUM over [from, to) of what each sample adds to those of [since, to).
Read(samples, since, to) == {s \in samples : since <= s /\ s < to}
Summed(samples, since, from, to) ==
    LET seen == Read(samples, since, to)
    IN SumFunctionOnSet([s \in seen |-> Added(seen, s)], {s \in seen : from <= s})

Live(samples, from, to) == Summed(samples, from, from, to)
DayTotal(samples, d) == Summed(samples, Midnight(d) - Lookback, Midnight(d), Midnight(d + 1))
HasRows(samples, d) == \E s \in samples : Day(s) = d

RollupDay(d) ==
    IF ~HasRows(Raw, d) THEN daily
    ELSE [x \in DOMAIN daily \union {d} |-> IF x = d THEN DayTotal(Raw, d) ELSE daily[x]]

LastRolledDay == IF DOMAIN daily = {} THEN NoDay ELSE Max(DOMAIN daily)
Today == Day(now)
-----------------------------------------------------------------------------
(* The pages: [lower, upper) from the days already added up, and from the  *)
(* samples on both sides of them.                                          *)

\* Mutant: the day a window begins in is taken whole.
DayOfLower(lower) == Day(lower)
FirstFullDay(lower) == IF lower > Midnight(Day(lower)) THEN Day(lower) + 1 ELSE Day(lower)

AggregateViaDaily(lower, upper) ==
    LET rolled == LastRolledDay
        partialHead == lower > Midnight(Day(lower))
        firstFull == FirstFullDay(lower)
        toDay == Min({Day(upper - 1), rolled})
        whole == {d \in DOMAIN daily : firstFull <= d /\ d <= toDay}
    IN IF rolled = NoDay \/ toDay < firstFull
       THEN Live(Raw, lower, upper)
       ELSE SumFunctionOnSet(daily, whole)
            + (IF partialHead THEN Live(Raw, lower, Min({Midnight(firstFull), upper})) ELSE 0)
            + Live(Raw, Max({lower, Midnight(toDay + 1)}), upper)

\* The windows a page can ask for: moving ones, date ranges, "lifetime".
MovingWindows == {<<now - n * SlotsPerDay, now>> : n \in 1 .. DeepestDays}
DateRanges == {<<Midnight(a), Midnight(b + 1)>> : a, b \in Days}
Windows == {w \in MovingWindows \union DateRanges \union {<<0, now>>} : 0 <= w[1] /\ w[1] < w[2]}

Shown(w) ==
    IF w = <<now - SlotsPerDay, now>> THEN Live(Raw, w[1], w[2]) ELSE AggregateViaDaily(w[1], w[2])
-----------------------------------------------------------------------------
ConsumptionInit ==
    /\ life \in Lives
    /\ now = 0 /\ metrics = {} /\ daily = <<>>
    /\ enabled = FALSE
    /\ rollup = Idle /\ purge = Idle /\ backfill = Idle
    /\ interrupted = 0

(* A poll of the device, or a missed one: counters are appended, any other *)
(* metric replaces its row (persist_device_metrics).  A pass of the nightly *)
(* job takes minutes and the script some hours: neither sees a midnight.   *)
Persisted(read) ==
    {r \in metrics : r.metric \notin read \/ r.metric \in HISTORY_METRICS}
        \union {[metric |-> x, at |-> now] : x \in read}

Poll ==
    /\ now + 1 \in Slots
    /\ Day(now + 1) # Day(now) => rollup = Idle /\ backfill = Idle
    /\ now' = now + 1
    /\ metrics' = IF now \in life.missed THEN metrics ELSE Persisted({Counter, Signal})
    /\ UNCHANGED <<life, daily, enabled, rollup, purge, backfill, interrupted>>

(* client_consumption_daily_rollup_job: the days to add up are listed from *)
(* the last one in the summary, then each is added up and committed.       *)
\* Mutant: no catching up.
YesterdayOnly == {Today - 1} \intersect Days
DaysToRoll ==
    LET yesterday == Today - 1
    IN IF LastRolledDay = NoDay THEN {yesterday} \intersect Days
       ELSE LastRolledDay + 1 .. Min({yesterday, LastRolledDay + MaxCatchup})

RollupStart ==
    /\ rollup = Idle /\ DaysToRoll # {}
    /\ rollup' = DaysToRoll
    /\ UNCHANGED <<life, now, metrics, daily, enabled, purge, backfill, interrupted>>

RollupOneDay ==
    /\ rollup # Idle
    /\ daily' = RollupDay(Min(rollup))
    /\ rollup' = rollup \ {Min(rollup)}
    /\ UNCHANGED <<life, now, metrics, enabled, purge, backfill, interrupted>>

(* device_metrics_retention_job: a cutoff, never later than the end of the *)
(* last day in the summary; then batches of any older counter rows.        *)
KeptDays == Max({KeepDays, DeepestDays + 1, 2})
\* Mutant: age alone decides.
CutoffOfAgeOnly == now - KeptDays * SlotsPerDay
Cutoff == Min({now - KeptDays * SlotsPerDay, Midnight(LastRolledDay + 1)})

PurgeStart ==
    /\ enabled /\ purge = Idle /\ LastRolledDay # NoDay
    /\ purge' = {Cutoff}
    /\ UNCHANGED <<life, now, metrics, daily, enabled, rollup, backfill, interrupted>>

Purgeable ==
    {r \in metrics : r.metric \in COUNTER_METRICS /\ \E cutoff \in purge : r.at < cutoff}

PurgeBatch ==
    /\ purge # Idle
    /\ \E deleted \in SUBSET Purgeable :
          /\ Cardinality(deleted) = Min({Batch, Cardinality(Purgeable)})
          /\ metrics' = metrics \ deleted
          /\ purge' = IF Cardinality(deleted) < Batch THEN Idle ELSE purge
    /\ UNCHANGED <<life, now, daily, enabled, rollup, backfill, interrupted>>

(* scripts/backfill_consumption_daily.py --apply [--from] [--to] [--force]: *)
(* the days of the window the summary lacks (all of them if forced), never *)
(* today.  The whole of what is there, from the oldest sample to yesterday, *)
(* is one of the windows.                                                  *)
DaysToFill(from, to, force) ==
    (from .. Min({to, Today - 1})) \ (IF force THEN {} ELSE DOMAIN daily)

BackfillStart ==
    /\ backfill = Idle
    /\ (Careful => ~enabled)
    /\ \E from, to \in Days, force \in BOOLEAN :
          /\ DaysToFill(from, to, force) # {}
          /\ backfill' = DaysToFill(from, to, force)
    /\ UNCHANGED <<life, now, metrics, daily, enabled, rollup, purge, interrupted>>

BackfillOneDay ==
    /\ backfill # Idle
    /\ daily' = RollupDay(Max(backfill))
    /\ backfill' = backfill \ {Max(backfill)}
    /\ UNCHANGED <<life, now, metrics, enabled, rollup, purge, interrupted>>

(* The operator turns the retention on: after a complete backfill, as the  *)
(* script asks, or whenever the settings say so.  Settings are read when   *)
(* the container starts: a pass under way dies with the old one.           *)
Covered == \A s \in Raw : Day(s) < Today => Day(s) \in DOMAIN daily

EnableRetention ==
    /\ ~enabled
    /\ Careful => (backfill = Idle /\ LastRolledDay # NoDay /\ Covered)
    /\ enabled' = TRUE /\ rollup' = Idle
    /\ UNCHANGED <<life, now, metrics, daily, purge, backfill, interrupted>>

(* A pass fails or is interrupted: what it committed stays.                *)
Abort ==
    /\ interrupted < MaxInterrupted
    /\ \/ rollup # Idle /\ rollup' = Idle /\ UNCHANGED <<purge, backfill>>
       \/ purge # Idle /\ purge' = Idle /\ UNCHANGED <<rollup, backfill>>
       \/ backfill # Idle /\ backfill' = Idle /\ UNCHANGED <<rollup, purge>>
    /\ interrupted' = interrupted + 1
    /\ UNCHANGED <<life, now, metrics, daily, enabled>>

ConsumptionNext ==
    \/ Poll
    \/ RollupStart \/ RollupOneDay
    \/ PurgeStart \/ PurgeBatch
    \/ BackfillStart \/ BackfillOneDay \/ EnableRetention
    \/ Abort

ConsumptionFairness ==
    /\ WF_consumption(RollupStart) /\ WF_consumption(RollupOneDay)
    /\ WF_consumption(BackfillOneDay)
ConsumptionSpec == ConsumptionInit /\ [][ConsumptionNext]_consumption /\ ConsumptionFairness
-----------------------------------------------------------------------------
(* Days the pages pass over: before the last one of the summary, and not   *)
(* in it (a summary begun, a window of the script, a run of it cut short). *)
Holes == {d \in Days : d <= LastRolledDay /\ d \notin DOMAIN daily}

(* Bytes gained between two samples of one day, within a window: no way of *)
(* cutting time into days and edges may lose them.                         *)
WithinDays(w) ==
    LET from(d) == Max({w[1], Midnight(d)})
        to(d) == Min({w[2], Midnight(d + 1)})
    IN SumFunctionOnSet([d \in Days |-> Live(Sampled, from(d), to(d))], Days \ Holes)

\* Every byte of a window, those gained across its lower end included.
Ever(w) == Summed(Sampled, 0, w[1], w[2])

\* No sample is deleted before its day stands in the summary with at least
\* what the samples of that day gained (retention, client_consumption_daily).
NothingPurgedUncounted ==
    \A s \in Sampled \ Raw :
        /\ Day(s) \in DOMAIN daily
        /\ daily[Day(s)] >= Live(Sampled, Midnight(Day(s)), Midnight(Day(s) + 1))

\* Whatever was added up, purged or is still raw, a page never shows more
\* than the counter gained in its window, nor less than what was gained
\* within its days, holes of the summary apart (_aggregate_via_daily).
WindowsAddUp ==
    \A w \in Windows : WithinDays(w) <= Shown(w) /\ Shown(w) <= Ever(w)

\* No stretch of days between the last one of the summary and d is as long as
\* what one night catches up and without a sample.
GapsAreShort(d) ==
    \A first \in LastRolledDay + 1 .. d - MaxCatchup :
        \E e \in first .. first + MaxCatchup - 1 : HasRows(Raw, e)

Awaited(d) == LastRolledDay # NoDay /\ d > LastRolledDay /\ d < Today /\ HasRows(Raw, d)

\* Where the script does not run, a finished day with samples, later than the
\* last one of the summary, is added up in the end, whatever passes fail and
\* whatever days the device was silent, gaps as long as the catch-up apart.
EveryDayCounted ==
    [](backfill = Idle) => \A d \in Days : Awaited(d) /\ GapsAreShort(d) ~> d \in DOMAIN daily

\* "Rattrape les journees manquantes (conteneur arrete, job en echec) [...] et
\* la nuit suivante reprendra ou celle-ci s'est arretee": the promise of the
\* job itself, which knows of no such gap.
AnyDayCounted ==
    [](backfill = Idle) => \A d \in Days : Awaited(d) ~> d \in DOMAIN daily
=============================================================================
