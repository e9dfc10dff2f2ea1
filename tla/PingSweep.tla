----------------------------- MODULE PingSweep -----------------------------
(***************************************************************************)
(* Who is up, who is down, and at which address                            *)
(* (src/backend/app/tasks/jobs.py, _ping_sweep).                           *)
(*                                                                         *)
(* Two sweeps, one over the infrastructure and one over the client LRs,    *)
(* ping the addresses they read, and only then, in a session of their own, *)
(* load the devices again and turn the answers into statuses, failure      *)
(* counters and outage incidents.  Meanwhile others write the same rows:   *)
(* discovery moves an LR to the address a radio reports and frees it from  *)
(* its former holder (discovery_service.py), the hygiene job takes away    *)
(* addresses that nobody confirms (ip_hygiene_service.py), and the UISP    *)
(* sync changes the kind of a device (uisp_sync_service.py).               *)
(*                                                                         *)
(* Devices are numbered: a sweep commits in batches, in the order of ids.  *)
(* Operators whose comment starts with "Mutant" change the definition that *)
(* follows the way a bug in its code would; no behaviour of Spec uses them.*)
(***************************************************************************)
EXTENDS Integers, FiniteSets

CONSTANTS
    Devices,         \* ids of the rows of table devices
    Ips,             \* management addresses
    NoIp,            \* the NULL of devices.ip_address
    NoDevice,        \* nobody holds this lease
    FirstKind,       \* FirstKind[d]: what the row of d is at first
    FirstIp,         \* FirstIp[d]: the address in the row of d at first
    Threshold,       \* ping_down_threshold
    BatchSize,       \* devices per transaction of a sweep (200 in the code)
    Sweeps,          \* which of the two sweeps run
    Keepers,         \* which of the writers of addresses run
    Conversions,     \* the changes of kind that the UISP sync makes
    Overlap,         \* whether a job may start while another is running
    MaxMoves,        \* bound: DHCP leases that move
    MaxEdits,        \* bound: addresses that operators type
    MaxAborts        \* bound: sweeps that die before their last commit

Kinds == {"rocket", "ptp_litebeam", "lr"}
Statuses == {"unknown", "up", "down"}
Procs == Sweeps \cup Keepers

\* The counter of a device without an AlertState row.
NoRow == -1
Counts == NoRow..Threshold

ASSUME DevicesAssumption == Devices \subseteq Nat /\ IsFiniteSet(Devices)
ASSUME NoIpAssumption == NoIp \notin Ips
ASSUME NoDeviceAssumption == NoDevice \notin Devices
ASSUME FirstKindAssumption == FirstKind \in [Devices -> Kinds]
ASSUME FirstIpAssumption ==
    /\ FirstIp \in [Devices -> Ips \cup {NoIp}]
    /\ \A d, e \in Devices : FirstIp[d] = FirstIp[e] /\ FirstIp[d] # NoIp => d = e
ASSUME ThresholdAssumption == Threshold \in Nat \ {0}
ASSUME BatchSizeAssumption == BatchSize \in Nat \ {0}
ASSUME SweepsAssumption == Sweeps \subseteq {"infra", "client"}
ASSUME KeepersAssumption == Keepers \subseteq {"discovery", "hygiene"}
ASSUME ConversionsAssumption ==
    Conversions \subseteq {<<"rocket", "ptp_litebeam">>, <<"lr", "ptp_litebeam">>,
                           <<"ptp_litebeam", "lr">>}
ASSUME OverlapAssumption == Overlap \in BOOLEAN
ASSUME BoundsAssumption == MaxMoves \in Nat /\ MaxEdits \in Nat /\ MaxAborts \in Nat

VARIABLES
    row,      \* row[d]: committed address, status and kind
    counter,  \* counter[d]: consecutive failures (AlertState _ping_failures)
    outages,  \* outages[d]: the types of the open availability incidents of d
    pc,       \* pc[p]: the next step of process p
    targets,  \* targets[p]: per device, the address that p deals with
    heard,    \* heard[s]: the addresses that answered sweep s
    orm,      \* orm[p]: what the session of p loaded of each device
    todo,     \* todo[s]: the devices whose batch is not committed yet;
              \* todo["discovery"]: the holders it takes the address from
    lease,    \* lease[ip]: the device that really sits behind the address
    powered,  \* the devices that answer when pinged
    silent,   \* history: unanswered pings of d since it last answered
    moves,    \* how many leases have moved
    edits,    \* how many addresses operators have typed
    aborts    \* how many sweeps have died

tables == <<row, counter, outages>>
sessions == <<targets, heard, orm, todo>>
network == <<lease, powered, moves, edits>>
vars == <<row, counter, outages, pc, targets, heard, orm, todo, lease, powered,
          silent, moves, edits, aborts>>

-----------------------------------------------------------------------------
(***************************************************************************)
(* Sessions                                                                *)
(***************************************************************************)
Loaded == [ip: Ips \cup {NoIp}, status: Statuses \cup {"unread"}, kind: Kinds,
           counter: Counts, in_outage: BOOLEAN]

\* Three bulk queries: the device, its counter, whether an outage is open.
Load(d) ==
    [ip |-> row[d].ip, status |-> row[d].status, kind |-> row[d].kind,
     counter |-> counter[d], in_outage |-> outages[d] # {}]

\* What stands for a device that a session has not loaded.  The query that
\* meets it later reads the row as it is then: any new status is a change.
Unloaded ==
    [ip |-> NoIp, status |-> "unread", kind |-> "lr", counter |-> NoRow,
     in_outage |-> FALSE]

LoadAll(ds) == [d \in Devices |-> IF d \in ds THEN Load(d) ELSE Unloaded]

\* An attribute is written only when it differs from the value loaded.
Written(new, loaded, stored) == IF new # loaded THEN new ELSE stored

MayStart(p) ==
    /\ pc[p] = "idle"
    /\ Overlap \/ \A q \in Procs : pc[q] = "idle"

Close(p) ==
    /\ pc' = [pc EXCEPT ![p] = "idle"]
    /\ targets' = [targets EXCEPT ![p] = [d \in Devices |-> NoIp]]
    /\ heard' = [heard EXCEPT ![p] = {}]
    /\ orm' = [orm EXCEPT ![p] = LoadAll({})]
    /\ todo' = [todo EXCEPT ![p] = {}]

Dealt(p) == {d \in Devices : targets[p][d] # NoIp}

-----------------------------------------------------------------------------
(***************************************************************************)
(* _ping_sweep                                                             *)
(***************************************************************************)
InScope(s, d) ==
    /\ row[d].ip # NoIp
    /\ s = "client" <=> row[d].kind = "lr"

\* A first session reads ids and addresses, and ends.
SweepRead(s) ==
    /\ MayStart(s)
    /\ \E d \in Devices : InScope(s, d)
    /\ targets' = [targets EXCEPT ![s] =
                    [d \in Devices |-> IF InScope(s, d) THEN row[d].ip ELSE NoIp]]
    /\ pc' = [pc EXCEPT ![s] = "ping"]
    /\ UNCHANGED <<tables, heard, orm, todo, network, silent, aborts>>

Pinged(s) == {targets[s][d] : d \in Dealt(s)}
Answering == {ip \in Ips : lease[ip] \in powered}

\* fping, then an isolated ping of every suspect.  Both may be lost: radios
\* limit the rate of ICMP.
SweepPing(s, answered) ==
    /\ pc[s] = "ping"
    /\ answered \subseteq Pinged(s) \cap Answering
    /\ heard' = [heard EXCEPT ![s] = answered]
    /\ todo' = [todo EXCEPT ![s] = Dealt(s)]
    /\ targets' = [targets EXCEPT ![s] = [d \in Devices |-> NoIp]]
    /\ silent' = [d \in Devices |->
                    IF d \notin Dealt(s) THEN silent[d]
                    ELSE IF targets[s][d] \in answered THEN 0
                    ELSE IF silent[d] < Threshold THEN silent[d] + 1 ELSE Threshold]
    /\ pc' = [pc EXCEPT ![s] = "load"]
    /\ UNCHANGED <<tables, orm, network, aborts>>

\* A second session loads the same ids, as they are now.
SweepLoad(s) ==
    /\ pc[s] = "load"
    /\ orm' = [orm EXCEPT ![s] = LoadAll(todo[s])]
    /\ pc' = [pc EXCEPT ![s] = "write"]
    /\ UNCHANGED <<tables, targets, heard, todo, network, silent, aborts>>

\* The ids of the next batch: the smallest of those left.
Batch(s) == {d \in todo[s] : Cardinality({e \in todo[s] : e < d}) < BatchSize}

\* The answer of the address that the device has NOW: none if it was not pinged.
Reachable(s, d) == orm[s][d].ip \in heard[s]

\* Mutant: an answer does not reset the counter.
CounterNeverReset(s, d) ==
    IF orm[s][d].counter = NoRow THEN IF Reachable(s, d) THEN 0 ELSE 1
    ELSE IF Reachable(s, d) \/ orm[s][d].counter = Threshold THEN orm[s][d].counter
    ELSE orm[s][d].counter + 1

\* The counter, capped at Threshold: the code only asks whether it is reached.
NewCounter(s, d) ==
    IF Reachable(s, d) THEN 0
    ELSE IF orm[s][d].counter = NoRow THEN 1
    ELSE IF orm[s][d].counter < Threshold THEN orm[s][d].counter + 1
    ELSE Threshold

\* A counter that was 0 and stays 0 is not written: the row keeps its own.
StoredCounter(s, d) ==
    IF Reachable(s, d) /\ orm[s][d].counter = 0 THEN counter[d] ELSE NewCounter(s, d)

Down(s, d) == ~Reachable(s, d) /\ NewCounter(s, d) >= Threshold

\* Mutant: the status of a device that answers again is left to others.
StatusNeverUp(s, d) ==
    IF Reachable(s, d) THEN orm[s][d].status
    ELSE IF Down(s, d) THEN "down"
    ELSE orm[s][d].status

NewStatus(s, d) ==
    IF Reachable(s, d) THEN "up"
    ELSE IF Down(s, d) THEN "down"
    ELSE orm[s][d].status

\* Mutant: an outage ends only under the type it would be opened with now.
OutagesOfThisType(s, d) ==
    IF Reachable(s, d)
    THEN IF orm[s][d].in_outage THEN outages[d] \ {orm[s][d].kind} ELSE outages[d]
    ELSE IF ~Down(s, d) THEN outages[d]
    ELSE IF orm[s][d].kind = "lr" THEN {}
    ELSE outages[d] \cup {orm[s][d].kind}

\* Mutant: an outage opens on the transition only.
OutagesOnTransition(s, d) ==
    IF Reachable(s, d)
    THEN IF orm[s][d].in_outage THEN {} ELSE outages[d]
    ELSE IF ~Down(s, d) \/ orm[s][d].status = "down" THEN outages[d]
    ELSE IF orm[s][d].kind = "lr" THEN {}
    ELSE outages[d] \cup {orm[s][d].kind}

(***************************************************************************)
(* An availability incident is known by its alert_type, which follows the  *)
(* kind of the device when it opens.  A recovery resolves every one of     *)
(* them, if the session saw one open when it loaded the device.  A device  *)
(* that is down opens one, unless one of its type is open; a client LR     *)
(* never does: its incidents are purged.                                   *)
(***************************************************************************)
NewOutages(s, d) ==
    IF Reachable(s, d)
    THEN IF orm[s][d].in_outage THEN {} ELSE outages[d]
    ELSE IF ~Down(s, d) THEN outages[d]
    ELSE IF orm[s][d].kind = "lr" THEN {}
    ELSE outages[d] \cup {orm[s][d].kind}

\* The AlertState row of d appeared or disappeared since it was loaded: the
\* INSERT breaks uq_alert_state, or the UPDATE matches no row.
Clash(s, d) == (orm[s][d].counter = NoRow) # (counter[d] = NoRow)

SweepCommit(s) ==
    /\ pc[s] = "write"
    /\ \A d \in Batch(s) : ~Clash(s, d)
    /\ row' = [d \in Devices |->
                IF d \in Batch(s)
                THEN [row[d] EXCEPT !.status =
                        Written(NewStatus(s, d), orm[s][d].status, @)]
                ELSE row[d]]
    /\ counter' = [d \in Devices |->
                    IF d \in Batch(s) THEN StoredCounter(s, d) ELSE counter[d]]
    /\ outages' = [d \in Devices |->
                    IF d \in Batch(s) THEN NewOutages(s, d) ELSE outages[d]]
    /\ IF todo[s] = Batch(s)
       THEN Close(s)
       ELSE /\ todo' = [todo EXCEPT ![s] = @ \ Batch(s)]
            /\ UNCHANGED <<pc, targets, heard, orm>>
    /\ UNCHANGED <<network, silent, aborts>>

\* The transaction of the batch is lost, and with it the rest of the sweep.
SweepClash(s) ==
    /\ pc[s] = "write"
    /\ \E d \in Batch(s) : Clash(s, d)
    /\ Close(s)
    /\ UNCHANGED <<tables, network, silent, aborts>>

\* The process dies, or the database gives up (a deadlock): what was not
\* committed is rolled back.  _timed_job then replays the job from the start.
SweepAbort(s) ==
    /\ pc[s] # "idle"
    /\ aborts < MaxAborts
    /\ aborts' = aborts + 1
    /\ Close(s)
    /\ UNCHANGED <<tables, network, silent>>

-----------------------------------------------------------------------------
(***************************************************************************)
(* The writers of addresses                                                *)
(***************************************************************************)
\* Mutant: an address is taken away and the status stays.
FreedStatusKept(p, d) == [row[d] EXCEPT !.ip = NoIp]

\* The row of an LR that loses its address: nothing pings it any more.
Freed(p, d) ==
    [row[d] EXCEPT !.ip = NoIp,
                   !.status = Written("unknown", orm[p][d].status, @)]

Lrs == {d \in Devices : row[d].kind = "lr"}

\* A radio reports station d at ip, and the row of d says otherwise.  The
\* session loads the rows of the stations as it goes through the report.
DiscoveryPoll(d, ip) ==
    /\ MayStart("discovery")
    /\ d \in Lrs \cap powered
    /\ lease[ip] = d
    /\ row[d].ip # ip
    /\ targets' = [targets EXCEPT !["discovery"][d] = ip]
    /\ orm' = [orm EXCEPT !["discovery"] = LoadAll(Lrs)]
    /\ pc' = [pc EXCEPT !["discovery"] = "release"]
    /\ UNCHANGED <<tables, heard, todo, network, silent, aborts>>

Holders(ip, d) == {e \in Devices \ {d} : row[e].ip = ip}

(***************************************************************************)
(* _release_ip_if_held: the holder of the address is read, and loses it if *)
(* it is an LR.  The address of anything else is left where it is.         *)
(***************************************************************************)
DiscoveryRelease(d) ==
    LET ip == targets["discovery"][d]
    IN  /\ pc["discovery"] = "release"
        /\ ip # NoIp
        /\ IF Holders(ip, d) \subseteq Lrs
           THEN /\ todo' = [todo EXCEPT !["discovery"] = Holders(ip, d)]
                /\ pc' = [pc EXCEPT !["discovery"] = "bind"]
                /\ UNCHANGED <<targets, heard, orm>>
           ELSE Close("discovery")
        /\ UNCHANGED <<tables, network, silent, aborts>>

(***************************************************************************)
(* The assignment, in the same transaction.  devices.ip_address is UNIQUE: *)
(* if another transaction has given the address away since the holder was  *)
(* read, the database refuses, and the release is rolled back too.         *)
(***************************************************************************)
DiscoveryBind(d) ==
    LET ip == targets["discovery"][d]
        freed == todo["discovery"]
    IN  /\ pc["discovery"] = "bind"
        /\ ip # NoIp
        /\ IF Holders(ip, d) \subseteq freed
           THEN /\ row' = [e \in Devices |->
                            IF e = d THEN [row[d] EXCEPT !.ip = ip]
                            ELSE IF e \in freed THEN Freed("discovery", e)
                            ELSE row[e]]
                /\ counter' = [e \in Devices |->
                                IF e \in freed THEN NoRow ELSE counter[e]]
                /\ silent' = [e \in Devices |->
                                IF e \in freed THEN 0 ELSE silent[e]]
           ELSE UNCHANGED <<row, counter, silent>>
        /\ Close("discovery")
        /\ UNCHANGED <<outages, network, aborts>>

\* An operator types an address for an LR that has none (update_device); the
\* database refuses one that a row has.
OperatorSets(d, ip) ==
    /\ edits < MaxEdits
    /\ d \in Lrs /\ row[d].ip = NoIp
    /\ Holders(ip, d) = {}
    /\ row' = [row EXCEPT ![d].ip = ip]
    /\ edits' = edits + 1
    /\ UNCHANGED <<counter, outages, pc, sessions, lease, powered, moves, silent, aborts>>

\* Neither a radio nor UISP sees the station at the address in its row.
Confirmed(d) == lease[row[d].ip] = d /\ d \in powered
Unconfirmed == {d \in Lrs : row[d].ip # NoIp /\ ~Confirmed(d)}

HygienePlan ==
    /\ MayStart("hygiene")
    /\ Unconfirmed # {}
    /\ targets' = [targets EXCEPT !["hygiene"] =
                    [d \in Devices |-> IF d \in Unconfirmed THEN row[d].ip ELSE NoIp]]
    /\ orm' = [orm EXCEPT !["hygiene"] = LoadAll(Unconfirmed)]
    /\ pc' = [pc EXCEPT !["hygiene"] = "clear"]
    /\ UNCHANGED <<tables, heard, todo, network, silent, aborts>>

HygieneClear ==
    LET cleared == Dealt("hygiene")
    IN  /\ pc["hygiene"] = "clear"
        /\ row' = [d \in Devices |->
                    IF d \in cleared THEN Freed("hygiene", d) ELSE row[d]]
        /\ counter' = [d \in Devices |-> IF d \in cleared THEN NoRow ELSE counter[d]]
        /\ silent' = [d \in Devices |-> IF d \in cleared THEN 0 ELSE silent[d]]
        /\ Close("hygiene")
        /\ UNCHANGED <<outages, network, aborts>>

(***************************************************************************)
(* uisp_sync_service: a device changes kind, and keeps its row.  Demoted   *)
(* to an LR, it leaves the infrastructure with its incidents settled.      *)
(***************************************************************************)
Convert(d, kind) ==
    /\ <<row[d].kind, kind>> \in Conversions
    /\ row' = [row EXCEPT ![d].kind = kind]
    /\ outages' = IF kind = "lr" THEN [outages EXCEPT ![d] = {}] ELSE outages
    /\ UNCHANGED <<counter, pc, sessions, network, silent, aborts>>

-----------------------------------------------------------------------------
(***************************************************************************)
(* The network                                                             *)
(***************************************************************************)
PowerChange(d) ==
    /\ powered' = IF d \in powered THEN powered \ {d} ELSE powered \cup {d}
    /\ UNCHANGED <<tables, pc, sessions, lease, silent, moves, edits, aborts>>

\* The addresses of the infrastructure are not in the DHCP pool.
Pool == {ip \in Ips : \A d \in Devices : FirstIp[d] = ip => FirstKind[d] = "lr"}

\* DHCP gives ip to an LR, which had another one or none.
LeaseMove(ip, d) ==
    /\ moves < MaxMoves
    /\ ip \in Pool
    /\ FirstKind[d] = "lr"
    /\ lease[ip] # d
    /\ lease' = [i \in Ips |-> IF i = ip THEN d
                               ELSE IF lease[i] = d THEN NoDevice
                               ELSE lease[i]]
    /\ moves' = moves + 1
    /\ UNCHANGED <<tables, pc, sessions, powered, edits, silent, aborts>>

-----------------------------------------------------------------------------
Init ==
    /\ row = [d \in Devices |->
                [ip |-> FirstIp[d], status |-> "unknown", kind |-> FirstKind[d]]]
    /\ counter = [d \in Devices |-> NoRow]
    /\ outages = [d \in Devices |-> {}]
    /\ pc = [p \in Procs |-> "idle"]
    /\ targets = [p \in Procs |-> [d \in Devices |-> NoIp]]
    /\ heard = [p \in Procs |-> {}]
    /\ orm = [p \in Procs |-> LoadAll({})]
    /\ todo = [p \in Procs |-> {}]
    /\ lease = [ip \in Ips |->
                 IF \E d \in Devices : FirstIp[d] = ip
                 THEN CHOOSE d \in Devices : FirstIp[d] = ip
                 ELSE NoDevice]
    /\ powered \in SUBSET Devices
    /\ silent = [d \in Devices |-> 0]
    /\ moves = 0
    /\ edits = 0
    /\ aborts = 0

SweepStep(s) ==
    \/ SweepRead(s)
    \/ \E answered \in SUBSET Ips : SweepPing(s, answered)
    \/ SweepLoad(s)
    \/ SweepCommit(s)
    \/ SweepClash(s)

DiscoveryStep ==
    /\ "discovery" \in Keepers
    /\ \E d \in Devices : \/ \E ip \in Ips : DiscoveryPoll(d, ip)
                          \/ DiscoveryRelease(d)
                          \/ DiscoveryBind(d)

HygieneStep == "hygiene" \in Keepers /\ (HygienePlan \/ HygieneClear)

Next ==
    \/ \E s \in Sweeps : SweepStep(s) \/ SweepAbort(s)
    \/ DiscoveryStep
    \/ HygieneStep
    \/ \E d \in Devices : \E kind \in Kinds : Convert(d, kind)
    \/ \E d \in Devices :
          PowerChange(d) \/ \E ip \in Ips : LeaseMove(ip, d) \/ OperatorSets(d, ip)

Spec == Init /\ [][Next]_vars

(***************************************************************************)
(* Every job runs again at each of its intervals and goes on once started. *)
(* Pings may be lost any number of times, but not for ever; a radio that   *)
(* sees a station reports it.                                              *)
(***************************************************************************)
Fairness ==
    /\ \A s \in Sweeps :
          /\ SF_vars(SweepRead(s))
          /\ WF_vars(SweepStep(s))
          /\ SF_vars(SweepPing(s, Pinged(s) \cap Answering))
    /\ "discovery" \in Keepers =>
          \A d \in Devices : /\ SF_vars(\E ip \in Ips : DiscoveryPoll(d, ip))
                             /\ WF_vars(DiscoveryRelease(d) \/ DiscoveryBind(d))
    /\ "hygiene" \in Keepers => SF_vars(HygienePlan) /\ WF_vars(HygieneClear)

FairSpec == Spec /\ Fairness

-----------------------------------------------------------------------------
(***************************************************************************)
(* Properties                                                              *)
(***************************************************************************)
Labels == {"idle", "ping", "load", "write", "release", "bind", "clear"}

\* The shape of the state.
TypeOK ==
    /\ row \in [Devices -> [ip: Ips \cup {NoIp}, status: Statuses, kind: Kinds]]
    /\ counter \in [Devices -> Counts]
    /\ outages \in [Devices -> SUBSET Kinds]
    /\ pc \in [Procs -> Labels]
    /\ targets \in [Procs -> [Devices -> Ips \cup {NoIp}]]
    /\ heard \in [Procs -> SUBSET Ips]
    /\ orm \in [Procs -> [Devices -> Loaded]]
    /\ todo \in [Procs -> SUBSET Devices]
    /\ lease \in [Ips -> Devices \cup {NoDevice}]
    /\ powered \subseteq Devices
    /\ silent \in [Devices -> 0..Threshold]
    /\ moves \in 0..MaxMoves
    /\ edits \in 0..MaxEdits
    /\ aborts \in 0..MaxAborts

\* An LR without an address is shown as "unknown": no sweep pings it any more,
\* so any other status would stay for ever (_release_ip_if_held, run_cleanup).
UnpingedIsUnknown ==
    \A d \in Devices : row[d].ip = NoIp => row[d].status = "unknown"

\* A device is declared down only after ping_down_threshold consecutive
\* sweeps that really pinged it, all in vain.
DownWasMeasured ==
    [][\A d \in Devices :
        row[d].status # "down" /\ row'[d].status = "down" => silent[d] >= Threshold]_vars

\* A station that stays powered at the address of its lease is shown there,
\* and up, again and again, unless the row of an infrastructure device has it.
StationFollowed ==
    \A d \in Devices, ip \in Ips :
        <>[](lease[ip] = d /\ d \in powered /\ {d} \cup Holders(ip, d) \subseteq Lrs)
            => <>[](row[d].ip = ip) /\ []<>(row[d].status = "up")

\* Every outage of a device that stays powered at its address ends.
OutageEnds ==
    \A d \in Devices :
        <>[](d \in powered /\ row[d].ip # NoIp /\ lease[row[d].ip] = d)
            => []<>(outages[d] = {})

\* An infrastructure device that is down does not stay without an incident.
DownIsReported ==
    \A d \in Devices :
        (row[d].kind # "lr" /\ row[d].status = "down" /\ outages[d] = {})
            ~> (row[d].kind = "lr" \/ row[d].status # "down" \/ outages[d] # {})
=============================================================================
