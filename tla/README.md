# Network Supervisor: a verification project

TLA+ models of the parts of the supervisor whose correctness depends on the
order of events: who cuts a subscriber and who restores him, what he may reach,
who is up and at which address, which anomalies are open and who is told, whose
antenna is whose, what is counted before it is deleted, who may enter, and
whether the database survives its own migrations. TLC checks them on small
instances; TLAPS proves the safety properties of the passing runs (all but one)
and the refinement, for every instance.

## 1. The system

The supervisor (`src/backend/app`) watches a wireless operator's network: base
stations (Rockets), point-to-point links, switches, power supplies, and one LR
(subscriber radio) per client. It is a FastAPI service and a set of APScheduler
processes (`tasks/runner.py`, `tasks/collector_runner.py`) around one
PostgreSQL database. Nothing is shared in memory between the API and the jobs:
they meet in the rows of the tables, on the devices, on the core router, in
UISP and the CRM.

Facts of the code that shape every model:

- **One ORM session per handler, and its objects are never refreshed.**
  `db/session.py` sets `expire_on_commit=False`. A handler reads a row once,
  awaits network calls for seconds or minutes, and writes at its commits. A
  flush writes the attributes that differ from the values *loaded*, and only
  those. Most of what can go wrong here follows from these two sentences.
- **Jobs exclude themselves, not each other.** `max_instances=1` and `coalesce`
  (`tasks/jobs.py`, `register_jobs`) keep one copy of a job; API requests and
  other jobs, in other processes, run at the same time.
- **`_timed_job` replays a job** whose transaction met a deadlock, from its
  start, whatever it had committed, and whatever it had told the group.
- **The container upgrades the database before it serves**
  (`docker-entrypoint.sh`), is restarted for ever, and each upgrade is one
  transaction for all the files it applies (`alembic/env.py`).

### Components

| Component | State | Operations | What makes it correct |
|---|---|---|---|
| Client blocking (`client_block_service`, `mikrotik_service`, `ssh_service`, `fai`) | the order in `lrs` (blocked, flavour, stamps, pending unblock, abandon, router rule); the LR's port and filter; the router's drop rule | `block_client`, `unblock_client`, `enforce_blocked_clients` | nobody stays cut without an order in the job's hands; the last order prevails; the row does not claim a cut that is not there |
| Content filter (`client_block_service`, second half, and the script of `ssh_service`) | categories, direction of the list, adult filter; the LR's dnsmasq and DNS redirect | four orders, `enforce_content_blocks` | an order changes what it names and no more; the last one prevails; a filter left on an LR is in a job's hands |
| Ping sweeps (`jobs._ping_sweep`, `incident_service`) | `devices.status`, failure counters in `alert_states`, availability incidents | infra and client sweeps | a device is down only after enough real measures; outages open and end |
| Address binding (`discovery_service`, `ip_hygiene_service`, `uisp_sync_service`) | `devices.ip_address`, kind of a device | reconcile a peer, free an address, clear unconfirmed ones, convert a device | an LR without address is "unknown"; stations are followed |
| Alert engine, incidents, banner (`alert_engine`, `alert_rules`, `incident_service`, `manual_alert_service`) | counters per rule, previous readings, incidents, banner rows | evaluate a device's metrics, watched ports of a switch, conversions, acknowledge | no flapping inside a band; everything that opened can end; subscribers' LRs carry none |
| Notifications and digest (`notification_service`, `alert_policy`, `digest_service`) | cool-down and failure streak of the channel (in memory); the digest mark of an incident | open and tell, resolve and tell, digest | the group knows what the table holds; a dead channel does not stop a pass |
| Client broadcasts (`client_broadcast_service`) | broadcasts and recipients | create, retry failures, stop, empty the queue | one at a time; nobody twice; everybody served |
| Consumption (`consumption_service`, two jobs, a script) | byte counters in `device_metrics`, daily totals | sample, roll up, catch up, purge, backfill | nothing is purged before it is totalled; windows are neither short nor counted twice |
| Antennas (`antenna_lifecycle_service`, `uisp_assignment_service`, `uisp_enrollment_service`, `sync_uisp_stations`) | UISP's sites and roster, the rows of `lrs` | assign, delete, replace, enrol, import | a client keeps an antenna; a failed call can be finished; the rows follow UISP |
| Access (`auth_service`, `profile_service`, `permissions`, `deps`, routes) | accounts, profiles, sessions | log in and out, passwords, accounts, profiles | an administrator remains; no session outlives what it was opened with; every route can be reached by a granted right |
| Schema (`alembic/versions`, `models`, `docker-entrypoint.sh`) | tables, columns, keys, indexes, functions, the version row | upgrade at each start, downgrade by hand | nothing is refused; the head serves the ORM; functions find their columns |
| Pollers, topology, reports, traffic, settings, frontend | measures, views and logs | | see section 7 |

### Interactions

- The payment system calls `fai.py`; operators call `devices.py`; both write
  the row of one LR, talk SSH to it and the RouterOS API to the core router,
  then commit. The enforcement jobs do the same for every LR whose row asks.
- Block and filter share the LR, the DNS redirect and the abandon reason.
- Discovery, hygiene and the UISP sync change the addresses and kinds of the
  devices that the sweeps and the pollers are looking at; a sweep turns answers
  for *addresses* into statuses of *devices*, in a second session.
- Sweeps and pollers tell the group about incidents their transaction has not
  committed yet.
- A replacement writes UISP at once, the row when it ends; the nightly import
  rewrites the rows from a roster it read minutes before.
- The retention deletes what the roll-up has read and the pages may still read.

### Hard behaviours

Stale ORM objects that win or lose against other commits; a process restarted
between two commits; SSH sessions that fail after they took effect; calls whose
answer is lost; a router that obeys without an answer; LRs that forget
everything at a reboot; two requests that each check and then act; a command
killed between a block that commits on its own and the version row.
`PROJECT.json` lists every hazard at its line, with the properties that cover
it.

## 2. Modules

| Module | Models | Checked by | Proved in |
|---|---|---|---|
| `ClientBlock` | cutting and restoring one client | `MCClientBlock` | `ClientBlockProofs` |
| `ContentFilter` | filtering one client | `MCContentFilter` | `ContentFilterProofs` |
| `PingSweep` | sweeps, addresses, kinds, outages | `MCPingSweep` | `PingSweepProofs` |
| `Broadcast` | broadcasts, their requests and their job | `MCBroadcast` | `BroadcastProofs` |
| `AlertRules`, `Alerts` | the rules as functions of a reading; the engine, ports, banner and conversions | `MCAlerts` | `AlertsProofs` |
| `AlertPolicy`, `Notifications` | the table of policies; passes that tell, the channel, the digest | `MCServices` | `ServicesProofs` |
| `Consumption` | samples, totals, purge, backfill, pages | `MCServices`, `MCConsumption` | `ServicesProofs` |
| `Rights`, `Access` | the catalogue and the routes; accounts, profiles, sessions | `MCServices` | `ServicesProofs` |
| `Antennas` | UISP, rows, calls and the import | `MCAntennas` | `AntennasProofs` |
| `Migrations`, `Models`, `Versions`, `Schema`, `SchemaBounds` | every revision file; what the ORM believes; an abstract versioned database; running Alembic; what one reading of the files says of every run of them | `MCSchema` | `SchemaProofs` |

The MC modules only give constants their values; `MCServices` also composes
three components, by extending their modules. Operators whose comment starts with "Mutant" sit
before the definition they alter: each is a plausible bug of that code, used to
see that a property can fail. No behaviour of `Spec` uses them.

### ClientBlock

State. `row` is the committed row of `lrs`, with `unblock_pending`,
`block_mode` and the rest under their names; `lr[p]` is the ORM object of
process `p` and `seen[p]` its values when it was last in step with the row, so
that `Flushed` writes exactly the columns that a commit would. `pc[p]` is the
next await. `port_down`, `wa_filter` and `drop_rule` are the truth on the LR and
on the router. Timestamps are reduced to what is asked of them: null, set, or
old enough to retry; a stamp taken and not yet written ("now") differs from
every value loaded, as a real one does.

Actions. Each action runs from one await to the next: `BlockRequest`,
`BlockIntent`, `BlockNeutralize`, `BlockAssert`, then `BlockUncover` or
`BlockCover`, `Commit` are `block_client` in its order; `Unblock*` and
`Enforce*` likewise. A session on the LR comes to "ok", "transient" (it may
have taken effect or not) or "structural" (the LR refuses the login).
`LrReboot` empties the LR. `Abort(p)` kills a handler at any await.
`AccessChanges` is the operator who gives an LR an address or credentials or
takes them away, at any moment, also of an LR that is cut; a session goes where
the handler's own copy says. An unblock of an LR without credentials
(`UnblockWithoutSsh`) then leaves the cut where it is, keeps nothing pending
and says so in its answer: `told`.

One client is enough: the job gives each LR a session and a transaction of its
own and no invariant here relates two clients. Faults are a parameter:
`overlap` lets handlers interleave; `unrecorded` lets the router hold a rule
that the row ignores. Without `overlap` handlers run one at a time: an
assumption of a run on its environment, not a guarantee of the code. The proofs
do not make it.

### ContentFilter

Same discipline (`row`, `orm`, `seen`, `pc`), for the other half of the
service. `dns` is the block the script leaves in the LR's `dnsmasq.conf`, `dnat`
the rule that sends the client's DNS to the LR. `Order*` are the four kinds of
order with the first commit they make; `Session(p, outcome)` is the SSH session
with what the script does; `Record` the last commit; `Enforce` picks the row if
`Selected` does. The `[]` left in `blocked_categories` by a removal is the mark
that makes the job try again. The direction of the list (block these, or allow
only these) is part of the row and survives orders that do not name it. The
WhatsApp-only block acts on `dnat` from outside.

### PingSweep

State. `row`, `counter` and `outages` are the tables (a counter of -1 is a
missing `alert_states` row); `targets`, `heard`, `orm`, `todo` belong to the
sessions; `lease` and `powered` are the network. `silent` is a history
variable: how many times in a row the device was really pinged in vain.

Actions. A sweep is `SweepRead` (first session), `SweepPing` (fping, then the
isolated pings), `SweepLoad` (second session), and a `SweepCommit` per batch,
each followed by the next; `SweepClash` is a batch whose INSERT or UPDATE hits
the constraint because the counter's row came or went meanwhile; `SweepAbort`
any other failure. `DiscoveryPoll`, `DiscoveryRelease` (the holder of the address
is read) and `DiscoveryBind` (the assignment) are discovery: `ip_address` is
UNIQUE, so that an address given away in between is refused and the release
rolled back. `HygienePlan`/`HygieneClear`, `Convert` and `OperatorSets` (an address
typed for an LR that has none) are the other writers. An availability incident is the type it
was opened under. What is told of it is in `Notifications`.

### Broadcast

State. `status` and `rcpt` are the tables; a request is a transaction of a
check and an UPDATE, so `touched[r]` is what it holds locked. `current` is the
object that the pass's session holds in its identity map, from one turn to
the next.

Actions. `CreateCheck`/`CreateCommit`, `RetryCheck`/`RetryUpdate`/`RetryCommit`,
`CancelCheck`/`CancelUpdate`/`CancelCommit` are the endpoints;
`PassStart`, `PassSend`, `PassRecord`, `PassResume`, `PassEnd`, `PassDrained`
are `process_queue`; `PassDies` a restart. A request that fails is rolled back
and changes nothing, so it has no action. The service switch and the WhatsApp
credentials come from the environment and are constantly present.

### AlertRules and Alerts

`AlertRules` is pure: one operator per rule class of `alert_rules.py`, from a
poll (a record of the metrics that were read; a missing metric is a missing
field) to "ok", "warning", "critical" or "skip", with the margin that depends
on whether the incident is open, the list of rules of each kind of device and
the number of failures each type needs. `Settings` is a constant, given the
shipped values (`Defaults`).

`Alerts` runs them, with the transactions of the code. `PollRead` reads a device
(an empty reading is dropped), `PollLoad` loads its row in a session,
`PollCommit` reads counters and incidents as committed by then, evaluates the
rules of the kind it *loaded* with the open types read once, moves the
counters, opens, escalates and resolves, and keeps the counters of errors for
the next delta; `PollAbort` loses a pass. `PortIncident` and `FiberIncident` are the
incidents of a switch's watched ports. `Promote` is a conversion of the UISP
sync that leaves incidents alone. A demotion settles what is open early in the
sync's transaction (`Demote`) and shows at its commit (`DemoteCommit`), or
never (`DemoteAbort`). A poll that has to write a row the sync has settled
waits for it (`Writable`); one that opens an incident of another type does not,
since the sync does not take the poll's advisory lock. `banner` is `manual_alerts`.
What the sweeps write on incidents is in `PingSweep`.

### AlertPolicy and Notifications

`AlertPolicy` is the table of policies with its overrides, and the decision for
one event. In `Notifications` a key is a device and a type; a pass (`Start`,
`Look`, `Commit`, `Rollback`) decides on its keys one by one, and each message
is an action that may be accepted, refused, or cut off by the time-out while
the pass's transaction is open. `channel` is the cool-down and the streak of
failures, shared by all passes of the process, emptied by `Restart`.
`DigestStart`/`DigestEnd` collect, send and mark. `said`, `torn` and `hung` are
history variables.

### Consumption

One device and one of its four counters. Time is counted in slots, the polls of
a day; the client downloads one unit per slot, so a counter's value at a slot
tells how far back its last reset is. `life` says which polls did not happen
and when the counter was reset. `RollupStart` computes the days to add up
(yesterday at first, then a bounded catch-up from the last day of the summary),
`RollupOneDay` sums one, with the look-back sample and the cap on plausible
deltas; `PurgeStart` fixes the cutoff, `PurgeBatch` deletes a batch;
`Backfill*` is the script, for any `--from`, `--to` and `--force`, from the newest
day of the window backwards; `EnableRetention` the operator, `Abort` an interruption. `rollup`, `purge` and `backfill` are sets: the
days a pass has left, the cutoff of a purge under way, none when idle.
`Shown(w)` is what a page sews together.

### Rights and Access

`Rights` has the catalogue, the bundles of read rights, and one row per group
of routes with the dependencies `router.py` and the endpoints give it;
`OpenToRights` says who passes. In `Access` every request is decided
(`Login`, `ChangePassword`, `UpdateUser`...: who asks, the guards of the
service, what it reads), then committed; `Expire` and `Cleanup` are time. Hashes
and tokens are model values.

### Antennas

`uisp` is the site of each antenna in UISP (a site belongs to a client of the
CRM), `rows` its row in `lrs`, `rules` the router's, `keyed` and `on` what is
true of the antenna itself. `Replace` (and `Replay`, the same call for a
replacement that stopped half-way), `Delete` and `Assign` begin a call with the
guards of `antenna_lifecycle_service` in their order; then one action per
thing a call waits for: found or enrolled by key (`Found`, `InjectKey`,
`NotReached`), associated (`AlreadyThere`, `Associate`, `NotAssociated`), taken out
(`RemoveFromUisp`, `NotRemoved`), the row deleted or re-attributed (`RowLost`,
`Commit`). `NotAssociated` and `NotRemoved` leave it open whether UISP did it.
`SyncStart`/`SyncEnd` are the import, which writes what it read; when UISP did
not give its sites it leaves the clients of the rows alone. `Register`,
`Discover`, `Power`, `Block`, `Unblock`, `Enforce` are the world around, at any
moment of a call.

### Migrations, Models, Versions, Schema, SchemaBounds

A schema is a set of facts (a table, a column, NOT NULL, a default, a key, an
index, a trigger, a view, the body of a function). `Migrations` has one
definition per revision file: the statements of its upgrade and its downgrade,
each with what it needs, adds and takes away. `Models` is what each mapped
class writes. `Schema` executes the history one statement per action, as
PostgreSQL would: refuses what exists or is missing, a plain CREATE FUNCTION of
one that exists included (`newBody`), and a LANGUAGE sql body whose columns are
not there (`Readable`); commits once per command or at an autocommit block;
dies at any point (`Kill`, `KillBuild` leaves an invalid index). The rows may
refuse a NOT NULL (`RowsRefuse`), which ends the command. `Versions` is the abstract database: always exactly at one
revision. `AlwaysAtARevision` is the refinement: between commands `Schema`
implements `Versions`.

`SchemaBounds` runs every file once, on two sets of facts instead of one schema:
what must be there and what may be. `Rest[r]` bounds the committed schema of
revision `r`; `Stages` bounds the transaction of a command before each of its
statements. `Blur` forgets whether an index built CONCURRENTLY is valid, which a
kill decides. `HistoryIsSound` says the bounds are closed: each statement is
accepted on both sets and leads from one pair into the next, what an autocommit
block commits is within the revision it came from, and the last pair of a file
is within the next revision's, on the way up and on the way down. It is a
formula without variables: TLC evaluates it on the real files, as a part of
`WithinBounds`. Nothing in it depends on where databases start or how many commands are
killed.

## 3. Runs

| Run | Assumes | Shows | States |
|---|---|---|---|
| `ClientBlockSerial` | handlers one at a time, none dies; access edited at will | whatever cuts a client is in the job's hands, or the operator was told; the router is mirrored; "cut by the LR" means so; the last order prevails, block or unblock, through refusals and reboots | 31 626 |
| `ClientBlockRace` | free interleaving, one death, unrecorded rules | the job leaves orders alone; rules the row remembers leave the router; the last block prevails | 115 989 |
| `ContentFilterOrders` | handlers one at a time | a filter on the LR is in the job's hands; platform orders are exact; the last filter prevails | 74 520 |
| `PingSweepStations` | one job at a time, two leases move, an address is typed | statuses follow the stations; a down was measured | 43 776 |
| `PingSweepKinds` | free interleaving, kinds change, one death | outages end; downs are reported | 77 634 |
| `BroadcastQueue` | one operator, the job may die once | nobody waits under a closed broadcast; settled stays settled; everybody is served | 80 340 |
| `AlertsEngine` | polls around every line; conversions, rockets' included, as transactions of their own | no flapping in a band; a radio demoted apart from polls takes no incident along; what the rules of a device can close ends once all is well | 137 586 |
| `SchemaDeploys` | five starting revisions, one kill, one downgrade | no statement is refused for what the schema is; functions find their columns; the head serves the ORM; every schema is within the bounds of the files; `Schema` implements `Versions` | 79 222 |
| `Services` | one component per behaviour; one worker; a careful operator, any window of the backfill; one failed pass | nothing is purged uncounted, windows add up, days are counted; an administrator remains, sessions are of now, nothing is only for administrators; the group knows, a dead channel costs one wait per pass | 94 680 |
| `Antennas` | one call at a time, any call may fail or lose its answer; orders, power cuts and the import in the middle of it | the client keeps an antenna; replays finish; the rows follow UISP | 132 231 |

Runs that find the code at odds with its own documentation:

| Run | What happens | What the code says of itself |
|---|---|---|
| `ClientBlockStaleCut` | the job loads the row, an unblock restores the client, the job's SSH cuts him again; no column asks for a repair | `client_block_service.py:880-882, 927-928` |
| `ConsumptionHoles` | the cutoff of the purge is the *newest* day of the summary. The first nightly pass adds up yesterday only; with the retention on, an older day that was never added up is purged. A backfill of a window, or one stopped half-way, leaves such holes too | `jobs.py:3127`, `scripts/backfill_consumption_daily.py:20` |

The first is why `NothingForgotten` is checked for handlers that run one at a
time; it is proved for any that overlap, as long as no order is committed under
one at work and no unblock dies between its commits (section 4). The second is
why `Services` has an operator who backfills all there is before he enables the
retention (`Careful`). Five more disagreements have a cfg of their own,
section 5.

`Services` composes three components that share no state, to check each in one
exploration: the initial state chooses which one moves, and the others stay
where they begin. Nothing is said of their interaction, and nothing would be
gained by interleaving them.

### Bounds, and why they are enough

- `ClientBlock`, `ContentFilter`: one request slot, and the job. A slot serves
  any number of requests one after another, so every sequence of orders is
  covered; two is the smallest number of processes that interleave. `MaxAborts`
  1: one death is enough to lose a commit. Two categories, and the adult
  filter: one named by an order, one that must not move.
- `PingSweep`: two stations and two addresses, since a swap and a theft need
  both. `Threshold` 2 tells a first failure from a decisive one; `BatchSize` 1
  makes a sweep of two devices commit twice, so that it can die or clash in
  between. `MaxMoves` bounds the leases that move, `MaxEdits` the addresses
  that operators type.
- `Broadcast`: two broadcasts and two phones, the next broadcast and somebody
  before and after in the queue.
- `Alerts`: the polls of each kind, of a radio that has become an LR too, are
  readings above, inside and below every band, far below, and missing; counters are capped one above the threshold
  (`CountCap`), banner rows at `BannerCap`, which is all the code asks of them.
- `Schema`: databases start empty, at two revisions in the middle of the
  history, just before the table built with an autocommit block (87), and at
  the head;
  downgrades aim at any revision from `Floor` = 4 on. One kill and one
  downgrade give every pair "died there, came back from there". `Spared` is
  explained in section 5.
- `Consumption`: two slots a day, five days, a retention of one day, batches of
  two rows, a catch-up of two days, one pass that fails (`MaxInterrupted`);
  lives with a reset, a gap, a lost day, a
  gap as long as the catch-up, a client that leaves. Everything the code does
  at a day's seam needs two days and an edge. The days the summary passed over
  (`Holes`: a summary begun late, a window of the script, one stopped half-way) are
  set apart in `WindowsAddUp`. The look-back is one poll; the real one is six
  hours, many of them, and section 4 says what changes.
- `Access`: two accounts, one token, the system profile and another.
- `Notifications`: an outage sent at once and a quality alert left to the
  digest, each decided by a pass of its own; two failures reach the cool-down
  as five do in the code. A tick is half a cool-down, longer than a delivery.
- `Antennas`: the old antenna, the new one, its client and another client whose
  site it may be on. `MaxMoves` 1: besides the replacement, its replays and the
  imports, one thing happens (a deletion, an assignment, a power cut, an order
  to block), at any moment.

No cfg uses symmetry. `SchemaDeploys`, `Services`, `ConsumptionHoles` and
`Antennas` disable the deadlock check: a database at its head with no downgrade
left, time at its bound, and a call that can no longer be made are ends of the
model.

### Fairness

A handler that has begun goes on (weak fairness of its steps): its calls all
have timeouts (`ssh_service._start_session_watchdog`, `_DELIVERY_TIMEOUT_S`...).
Jobs start again at each interval (strong fairness of the start, because
another handler may be running whenever the guard is looked at). An SSH session,
a router call, a ping, a poll *may fail any number of times but not for ever*:
strong fairness of the successful outcome, without which no retry loop promises
anything. `BroadcastQueue` assumes nothing of WhatsApp's answers; it needs that
a pass ends within its budget. In `Consumption` the nightly roll-up comes back
and goes on (weak), and so does a backfill that was begun; the number of
interruptions is bounded. In `Alerts` polls come back (weak), and the session of
a poll that is read is opened and committed some time (strong: it may fail, and
a demotion may make it wait, but not for ever). In `PingSweep` a discovery that
has read a holder goes on to the assignment, which the database may refuse
(weak). In `Antennas` a caller told that his replacement stopped half-way
replays it, and stops once he is answered (strong fairness of `Replay`, which is
disabled by then); the calls a replacement makes do not fail for ever (strong);
the import runs every night and UISP gives its sites one of these nights; an
operator lifts a block some day (weak). The environment (reboots, power,
leases, requests, readings) is not fair: it may stop, or go on.

`LastBlockPrevails`, `LastUnblockPrevails`, `LastFilterPrevails`,
`StationFollowed`, `OutageEnds`, `AllClears` and `RowsFollowUisp` are
conditional on an environment that has settled (`<>[](...) =>`): they say what
must become true afterwards. `EveryDayCounted` is said of a summary that the
script does not touch, and of gaps shorter than one night's catch-up. `Schema`
has no liveness run: reaching the head is a matter of the restarts of the
container only.

## 4. Proofs

All of them hold for every value of the constants that satisfies the
assumptions of the modules and the hypotheses named here. A hypothesis that the
code does not give is never one on the constants ("no overlap", "no death"): it
is a formula about the execution, which excludes one order of events and leaves
every other overlap and death in. The theorem says that this order is the only
way the property can fail; the last column names what shows that it does fail
that way.

| Theorem | States | Under | Without it |
|---|---|---|---|
| `ClientBlockProofs!TypeCorrect` | `[]TypeOK` | | |
| `ClientBlockProofs!JobNeverGivesOrders` | `IntentIsTheOperators` | nothing: any overlap, any number of deaths | |
| `ClientBlockProofs!NobodyForgotten` | `[]NothingForgotten` | `[]OrdersFresh`: no commit changes the order, or the unblock pending, under a handler at work; `UnblocksSurvive`: no unblock dies between its two commits | `ClientBlockStaleCut`; `ClientBlockCrash` |
| `ClientBlockProofs!EnforcedAlwaysMeansCut` | `[]EnforcedMeansCut` | `[]StampsFresh`: no commit changes the order, or whether its cut is confirmed, under a handler at work; any deaths, any unrecorded rules | section 5 |
| `ContentFilterProofs!TypeCorrect` | `[]TypeOK` | | |
| `ContentFilterProofs!PlatformOrdersAreExact` | `PlatformOrdersExact` | nothing | |
| `ContentFilterProofs!FilterStaysInHand` | `[]FilterInHand` | `[]CopiesFresh`: no handler carries out or records a filter that the row no longer holds | section 5 |
| `PingSweepProofs!TypeCorrect` | `[]TypeOK` | | |
| `PingSweepProofs!UnpingedStaysUnknown` | `[]UnpingedIsUnknown` | `[]AddressesStay`: no device loses its address while a sweep has it in hand; `[][StatusesStay]_vars`: no status changes under a writer of addresses that has loaded it | section 5 |
| `PingSweepProofs!DownIsMeasured` | `DownWasMeasured` | `[][SweepsUndisturbed /\ SweepsSurvive]_vars`: nobody else writes or pings a device that a sweep has in hand, and no sweep dies between its pings and its last commit | a pass that dies before it recorded an answered ping leaves the old count standing |
| `BroadcastProofs!TypeCorrect` | `[]TypeOK` | | |
| `BroadcastProofs!SettledForGood` | `SettledStays` | nothing: any number of concurrent requests | |
| `BroadcastProofs!InVainOnlyAcross` | `[]Apart => []NobodyWaitsInVain` | nothing | a retry and a stop of one broadcast both about to commit |
| `BroadcastProofs!OneUnlessTwoOpen` | `[]OpenersApart => []OneAtATime` | nothing | two openings overlap: section 5 |
| `AlertsProofs!TypeCorrect` | `[]TypeOK` | `Sane` | |
| `AlertsProofs!SeverityOnlyRises` | `OnlyGetsWorse` | `Sane` | |
| `AlertsProofs!ClientsNeverHaveAny` | `ApartClientsHaveNone`: `[]Apart => []ClientsHaveNone` | nothing; `Apart`: no session of a poll has the device loaded while the sync demotes it | `AlertsDemotion` |
| `AlertsProofs!BandIsQuiet` | `BandNeverFlips` | `Sane`, `Numbers`, `Ordered` | unordered thresholds: section 5 |
| `ServicesProofs!HangsStayFew` | `[]HangsAreFew` | `PassesSane` | |
| `ServicesProofs!NobodyStaysInTheDark` | `[]NobodyInTheDark` | `PassesSane`, `NoneWidened` | a type the table leaves to no digest, made groupable by an override: told by nobody |
| `AntennasProofs!TypeCorrect` | `[]TypeOK` | `Sane` | |
| `AntennasProofs!ServiceIsKept` | `ServiceKept` | `Sane`: any failure, any overlap | |
| `AntennasProofs!BlocksOutliveCalls` | `NoBlockErased` | `Sane`; `[][OrdersWait]_vars`: no order to block the antenna that a call takes out, once the call has checked its row | `AntennasBlocked` |
| `ServicesProofs!AnAdminRemains` | `[]LastAdminStays` | `AccountsSane`; `[][DecisionsStand]_access`: no commit changes an account that another request has read and decided on; any number of workers | two administrators demote each other: section 5 |
| `ServicesProofs!SessionsFollowAccounts` | `[]SessionsAreOfNow` | the same | a log in decided before a change of password commits after it |
| `ServicesProofs!EveryRightOpensEveryRoute` | `[]NothingOnlyForAdmins` | nothing: any accounts, any profiles, any overlap | |
| `ServicesProofs!NothingIsLostToThePurge` | `[]NothingPurgedUncounted` | `Careful` | `ConsumptionHoles` |
| `ServicesProofs!PagesAddUp` | `[]PurgedInTime => []WindowsAddUp` | `Careful` | a purge inside the look-back of a day not yet added up: section 5 |
| `SchemaProofs!EverythingIsWithinBounds` | `[]WithinBounds` | the files: `HistoryIsSound`, `BodiesAreServed`, `ModelsAreServed` | `Spared = {}`: `SchemaKilled` |
| `SchemaProofs!NothingIsEverRefused` | `[]NothingRefused`, for what the schema is | `HistoryIsSound`; down to `Floor`, and outside of `Spared` | `SchemaKilled`; `Floor = 0`, section 5 |
| `SchemaProofs!FunctionsAlwaysRun` | `[]FunctionsRun` | `HistoryIsSound`, `BodiesAreServed` | |
| `SchemaProofs!HeadAlwaysServes` | `[]HeadServesModels` | `HistoryIsSound`, `ModelsAreServed` | |
| `SchemaProofs!DatabasesAreAtARevision` | `AlwaysAtARevision`: `Schema` implements `Versions` | `HistoryIsSound` | |

`Sane` (`PassesSane`, `AccountsSane`) says, in each module, that the constants
are what their comments say (`None` and `Absent` are no row, owners own, counts
are numbers). `Careful` is an operator who does what the script asks of him.

### Arguments

*JobNeverGivesOrders.* That the job's commit leaves the order alone is an
argument about `Flushed`: the job never assigns `client_blocked` or
`block_mode`, so its copy agrees on both with what it loaded (`JobKeepsIntent`,
inductive), and a column that agrees is not written, however old the copy.

*NobodyForgotten.* Between two commits the row is not expected to tell the
truth. `CutInHand` follows a cut instead: while one is on the LR, the row orders
it, or has an unblock pending, or the operator was told, or a request that
lifted the order has still to lift the cut or to leave it pending
(`RestoreInHand`). `InHandOf` is the other half: a handler that heard two
successes, or takes the pending unblock off its copy, has really lifted the
cut. `Copies` says what a copy may differ in from what its process loaded.
Under `OrdersFresh` a handler that asserts a cut has the row's order behind it
(`CutIsOrdered`), whoever else is at work; under `UnblocksSurvive` the request
that lifted the order comes to its last commit. Deaths of any other handler
roll back what nobody relies on. Access edits enter twice: a session without
address leaves the LR as it was, and an unblock without credentials is told.

*EnforcedAlwaysMeansCut.* `StampsAreTrue`: the stamp of the row, and the one
each copy would write, are there only since a cut that the LR confirmed. A
handler that lifts an order clears its copy's before it touches the LR, and
under `StampsFresh` a commit that lifts one leaves nobody behind who has seen
the order stand. Deaths leave the row as it was.

*FilterStaysInHand.* For the content filter: `Settled` (a handler at the LR has
flushed its copy), `Claimed` (whatever block is on the LR, the row is selected:
the first commit of an order makes it so before the LR is touched) and `Landed`
(what a session left is what the copy is about to record). `CopiesFresh` is used
where a session or a record meets a row that another handler may have written.
*PlatformOrdersAreExact* is set arithmetic on the two directions of the list,
one lemma per direction.

*UnpingedStaysUnknown.* `KeepersAreCurrent`: discovery and hygiene have no stale
copy of a status: they loaded the one in the row, or will read the row when
they free it, so that the reset to "unknown" is a difference and is flushed.
`StatusesStay` keeps that true of the devices they have loaded, `AddressesStay`
keeps a sweep from writing a status on a row without address.
*DownIsMeasured.* `SweepsAreCurrent`: a sweep knows the rows it has in hand as
they are. `Measured`: a failure counter is at most the number of real pings in
vain, counting the one of a sweep under way. Several sweeps and writers of
addresses may be at work, on other devices or on the same ones before and after.

*SettledForGood.* `sent` and `cancelled` are changed only through `Mark`, by a
request whose UPDATE selected `failed` or `pending` recipients some time
before. So the recipients a request has touched must still be as it found
them (`LocksHold`): two requests on one broadcast never touch the same one
(`LocksDisjoint`), the pass does not write a touched one, and a broadcast
under creation has no other request on it (`IdsAreOwn`, `AbsentIsEmpty`).
`InFlight` ties the pass to a recipient that exists. `IInv` is the conjunction;
TLC agrees with it on two concurrent operators.
*InVainOnlyAcross* adds `StopsHoldTheQueue`: a stop about to commit holds every
pending recipient locked, so nobody joins the queue it closes, except a retry
whose UPDATE had already moved recipients: `Apart` excludes just that.

*BandIsQuiet.* A rule reads the open types once per pass, so inside a band it
must answer "bad" if its incident is open and "ok" if not (`BandVerdict`, by
rule); the counters then cannot reach a decision. The proof needs the critical
line at or below the warning one; `DefaultsOrdered` shows that the shipped
thresholds are so. *ClientsNeverHaveAny*: `Separate` says that a session over an
LR loaded an LR (whose rules open nothing), and that a demotion under way has
settled all that is open, which stays so because a poll that would open more
has to have the device loaded.

*HangsStayFew.* `Waits`: nobody begins to send while the channel cools, so the
passes that hung since the last cool-down and those still sending are different
ones; together they are at most all the passes. It stands on `PassesShape` and
`DigestHolds` (a digest not told of a deletion has rows for all it took).

*NobodyStaysInTheDark.* `Known`, per key: the row of a running pass matches the
last word about the key, or the word under way; the table matches the last word
unless the pass has spoken and not committed. What the gates hold back needs no
word (`GatedMatches`, which rests on `NeverSilenced`: no override silences the
group), what they let through is the right one (`SaidMatches`). A key of which
an undone pass had told is in `torn`, and set apart by the property itself.

*ServiceIsKept.* A replacement is asked for two different antennas, and when it
comes to the removal the new one stands at the client's site (`Reached`): what
the call found or put there is moved by nothing else. *BlocksOutliveCalls* adds
`Spared`: the row that a call is about to delete is not blocked, since the call
checked it and `OrdersWait` lets no order for that antenna in between; orders for
other antennas, imports and failures may come at any moment.

*AnAdminRemains, SessionsFollowAccounts.* What a request was decided on still
holds when it commits (`Holds`, by kind of request): it rests on the accounts in
`ReadBy` only, and `DecisionsStand` lets no other worker commit a change of
those meanwhile. Requests on other accounts interleave freely. Each commit then
keeps both properties.
*EveryRightOpensEveryRoute.* One lemma per table of routes: each guard of a
route names at least one right of the catalogue (`Passable`), so a profile with
all of them passes; the accounts play no part.

*NothingIsLostToThePurge.* `Books` has four parts: the shape; nothing is purged
before the retention is on (`NothingPurgedYet`); from then on the summary has no
hole up to its last day, every later sample is there, and a nightly pass goes on
from that day (`NoHoleBehind`); a total is at least what the samples of its day
gained (`TotalsComplete`). `Careful` is used once, when the operator enables the
retention. The sums are the difficulty: that a sum grows with its terms, that
any term may be taken out first, that a sum over two parts is the sum of both.
Each is proved by looking at a least set among those that would contradict it,
in the well-founded order of strict inclusion.

*PagesAddUp.* Two more invariants. `TotalsFair`: a total is no more than what
was truly gained in its day, gains across its midnight included. `StillThere`:
what was purged is older than the longest moving window, and older than the
look-back of the next day to add up. With them a page is bounded on both sides:
the parts of its window read live are complete (`RecentIsThere`, `LaterIsThere`),
days are within the interval they are days of (`DaysWithin`), a gain is never
counted twice because the intervals are disjoint (`GainedSplits`), and with
fewer samples a sample adds no more as long as those left have no gap
(`AddedWithout`). That last condition is where `PurgedInTime` comes from: no
purge under way has its cutoff inside the look-back before the end of the last
day in the summary. The code does not check it, but a summary that is up to
date makes it true, since the cutoff is two days old at least and the look-back
is six hours. With the look-back of one poll that the run has, it is true by
itself.

*Schema.* `SchemaInv` places the committed schema between the bounds of its
revision (or, during a deployment past a spared file, of what that file
committed) and the transaction of a command between those of the statement it
has come to. That a statement keeps what it is given within the bounds
(`StaysBetween`, one case per kind of statement) and that one accepted on both
bounds is accepted between them are proved for every file and schema. What is
left of the history is `HistoryIsSound`, `BodiesAreServed` and
`ModelsAreServed`, three formulas without variables: the theorems assume them,
and the run `SchemaDeploys` has TLC evaluate them on the files of the
repository, for its `Floor` and its `Spared`. The theorems then hold for any
starts, kills and downgrades, where the run has one kill and one downgrade.
*DatabasesAreAtARevision* is the refinement: the two bounds of a revision agree
on what lasts (`Lasting`), so a committed schema shows exactly that of its
revision, every command that ends is a `Deploy` of `Versions`, and every other
step a stutter.

### Only model-checked

- Everything with fairness or leads-to (`LastUnblockPrevails`, `LastBlockPrevails`,
  `RecordedRuleWithdrawn`, `StationFollowed`, `OutageEnds`, `DownIsReported`,
  `EveryoneServed`, `LastFilterPrevails`, `AllClears`, `EveryDayCounted`,
  `RetryFinishes`, `RowsFollowUisp`): out of the prover's reach.
- `RouterMirrored`, with handlers one at a time: one that dies or overlaps leaves
  the rule and the row apart until a later pass, so a theorem would have to
  assume away both.
- The three formulas about the files that the theorems of `SchemaProofs`
  assume: a computation over every statement of the history, which TLC makes.
- That the properties of section 5 fail where it says so.

Every other safety property of a passing run has a theorem. The library's
induction theorems take an operator as a parameter, which the provers cannot
instantiate: where data of any size must be dealt with (sums, a history of any
length, the greatest of a set) the proofs take a least counterexample instead,
and no module declares a recursive operator.

## 5. Where the code stops short of its own words

Two disagreements have a run (section 3). Five more have a cfg of their own:

| Cfg | Property | What happens | What the code says of itself |
|---|---|---|---|
| `ClientBlockCrash` (`MCClientBlock`) | `NothingForgotten` | an unblock dies between its two commits (`client_block_service.py:769`): the LR stays cut, the row has no order, nothing is pending | `models/device.py:251-255`: a pending unblock is retried until the LR is restored |
| `AlertsDemotion` (`MCAlerts`) | `ClientsHaveNone` | the sync settles the incidents of a radio it demotes early in its transaction (`uisp_sync_service.py:265-268`); a poll that loaded the radio before (`jobs.py:2410`) opens another one and commits (`:2473`): the LR carries it | `incident_service.py:301`: problems of an LR are never incidents |
| `SchemaKilled` (`MCSchema`) | `StartsReachHead` | `h4c5d6e7f8a9` creates its table, then opens an autocommit block (`:76`), which commits it without its version row; a container killed there is refused "already exists" at every restart | `docs/backup-database.md:438`: the backend applies the missing migrations when it starts |
| `ConsumptionStopped` (`MCConsumption`) | `AnyDayCounted` | a gap as long as the catch-up (`jobs.py:3291`): each night tries the same empty days, and no later day is ever added up | `jobs.py:3259-3262`: the missing days are caught up, the next night goes on where this one stopped |
| `AntennasBlocked` (`MCAntennas`) | `NoBlockErased` | an order placed after `_assert_not_blocked` is deleted with the row (`antenna_lifecycle_service.py:281`) | `antenna_lifecycle_service.py:30-32`: a blocked antenna is never deleted |

The following were found the same way: each property is defined in its module,
and a change to the cfg named makes TLC find it violated (keep the cfg's other
properties out). `EnforcedMeansCut` and `NoOrphanRule` are limits of the models'
assumptions rather than broken promises: no line of the documentation claims
them there.

| Property | Change | What happens | Where |
|---|---|---|---|
| `EnforcedMeansCut` | `ClientBlockSerial`, `Faults <- Overlap` | a pass that ends after an unblock stamps a row without order | `client_block_service.py:989` |
| `ReportedIsReal` | add it to `ContentFilterOrders` | the adult filter alone, on a row whose stored direction is "allow only", makes the script refuse everything | `client_block_service.py:1413-1420` |
| `FilterInHand` | `ContentFilterOrders`, `Overlap = TRUE` | the pass that clears the `[]` mark erases a newer order | `client_block_service.py:1225` |
| `UnpingedIsUnknown` | `PingSweepStations`, `Overlap = TRUE`, `BatchSize = 2` | discovery frees an address with a copy that already said "unknown" while a sweep committed "up": the reset is not written | `discovery_service.py:289-310` |
| `OneAtATime` | add it to `BroadcastQueue`, `Requests <- TwoOperators` | two creations check before either commits | `client_broadcast_service.py:162-176` |
| `AttemptsRecorded` | add it to `BroadcastQueue` | a recipient retried during the pause after his own failure fails again: "failed" over "failed" is not written, he is sent the message again | `client_broadcast_service.py:296-299, 336` |
| `OpenCanClose` | add it to `AlertsEngine` | a rocket converted to a point-to-point radio keeps incidents its new rules never close | `uisp_sync_service.py:185-217` |
| `BandNeverFlips` | `AlertsEngine`, `Settings <- MCUnordered` | `set_thresholds` stores each line by itself: a critical line above the warning one makes readings inside the band open incidents | `threshold_service.py:478`; the comment at `:25` takes the order for granted |
| `PortFaultShown` | add it to `AlertsEngine` | a switch whose faulty port is not read closes the incident of the others | `jobs.py:1253-1258` |
| `NothingRefused` | `SchemaDeploys`, `Floor = 0` | the downgrade of `1ead65fa554c` drops a constraint whose name is `None`: it always fails, and no database goes back below that revision | `1ead65fa554c_add_parent_id_to_devices.py:30` |
| `OverviewKeepsBoth` | add it to `SchemaDeploys`, `Starts <- MCLateral`, `MaxKills = 0` | `c6d7e8f9a0b1` redefines `fn_site_overview` without what `c1d2e3f4a5b6` brought together | `c6d7e8f9a0b1_ptp_litebeam_infra_in_rpc.py:37` |
| `WindowsAddUp` | `Services`, `SlotsPerDay = 3`, `Lookback = 2`, this property | the summary is later than the kept days: a batch of the purge, which takes its rows in no order, deletes a sample inside the look-back of the next day to add up and leaves an older one; the gain across it is counted in both days | `consumption_service.py:206, 289`; `jobs.py:3207-3213` |
| `LastAdminStays` | `Services`, `Workers = {1, 2}`, `Bootstrapped = {u1, u2}` | two administrators demote each other | `profile_service.py:146-168` |
| `ReplayIsHarmless` | add it to `Services` | a pass tells before it commits; undone and replayed, it finds nothing to tell, or tells twice | `jobs.py:105-113, 904, 925` |
| `AnyRetryFinishes` | `Antennas`, this property | the answer of the removal is lost, the row names no client: every replay is refused "old_device_owner_unknown" | `antenna_lifecycle_service.py:326-330, 356-368` |
| `NoOrphanRule` | `Antennas`, this property | a row with a pending unblock is deleted; the router keeps its rule | `uisp_sync_service.py:1018` |

Seen while reading, without a property: `y6e7f8a9b0c1:36` says itself that its
downgrade fails on a NULL `ip_address`, which UISP's LRs without address have
(`RowsRefuse`); the live tail of a page drops a delta that crosses midnight; a
forced backfill of a half-purged day overwrites a right total; with the shipped whitelist of types the digest collects nothing (the run
adds `ccq_low`); an incident deferred to the digest that becomes critical is
never told; an override that makes an ungroupable type groupable falls between
both; the digest ignores the cool-down; two acknowledgements of one banner row
both write.

## 6. What is abstracted

- Messages, reasons, names, evidence, journal lines: no property reads them.
- The passwords and host keys that a successful session updates in the row.
- The router disabled by configuration is a router whose every call fails.
- The mechanics of the cut on the LR (interfaces, iptables): a session sets the
  port or the filter, or does not, or may have. For the content filter, what
  the script writes is kept, domain by domain for two services.
- `find_lr_by_mac` and the endpoints' 4xx before the service is called. A
  refusal by the balance check is `UnblockRefused`.
- Creation, deletion and re-parenting of devices, except in `Antennas`.
- In `Alerts`, several rows of one type on one device are one; a device is
  alone, and its polls are one after another.
- In `Schema`, column types, ON DELETE rules, comments, storage parameters and
  rows; defaults that a downgrade does not bring back (`e5f6`, `m1c2`) and the
  indexes built CONCURRENTLY are outside the refinement (`Lasting`). Downgrades
  stop at `Floor`. The rows are the choice of `RowsRefuse`: any NOT NULL may be
  refused, and the command is then rolled back.
- In `Consumption`, a pass does not see midnight; enabling the retention
  restarts the container, which ends a pass under way.
- In `Access`, the rate limit and the audit log; in `Antennas`, names, IP
  addresses and parents adopted from UISP.

## 7. Not modelled, and why

Pollers and protocol decoding (SNMP, LTU, airOS, AF60, NetFlow) are I/O and
parsing; of `persist_device_metrics` only what `Consumption` and `Alerts` read
is modelled. Topology, maps, capacity, uptime, reports and the frontend are
derived views: queries and layout over tables written elsewhere. Power states
and LR probes are measures by one job. Settings are constants. The semaphores
of the fan-out and the order of the advisory and row locks are each taken in one
function, in one order. `_claim_daily_run` is one atomic statement. Flap
detection and security events open no path that the models lack. The list in
`PROJECT.json` has a line for each.

## 8. Plan

1. `ClientBlock`: the repair that the next pass makes after a death; a statement
   of `RouterMirrored` that survives overlap; two concurrent requests, and the
   promotion of an LR that carries an order.
2. `Consumption`: the catch-up after a gap longer than itself, once the code has
   an answer for it (`AnyDayCounted`).
3. Models: power states and LR probes.

## 9. Running

    tlc -workers 2 -config ClientBlockSerial.cfg MCClientBlock
    tlc -workers 2 -config Services.cfg MCServices
    tlapm ClientBlockProofs.tla       # and the seven other *Proofs modules
