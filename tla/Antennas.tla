------------------------------ MODULE Antennas ------------------------------
(***************************************************************************)
(* The antennas of clients, in UISP and in table lrs: attaching one to a   *)
(* client, taking one out, replacing one (antenna_lifecycle_service.py,    *)
(* uisp_assignment_service.py, uisp_enrollment_service.py), and the        *)
(* nightly import of the roster (uisp_sync_service.sync_uisp_stations).    *)
(*                                                                         *)
(* UISP knows a site of each service of a client; the row knows a client.  *)
(* A call decides on what it read, then writes to UISP at once and to the  *)
(* row when it ends: anything may fail, or be heard of too late, between.  *)
(***************************************************************************)
EXTENDS Integers, FiniteSets

CONSTANTS
    Macs, Sites, Clients,
    Owner,          \* the client of a site, in the CRM
    Rows,           \* the rows an antenna may start with
    Replacements,   \* the replacements asked for: client, old, new, service, force
    None,
    MaxMoves        \* bound on what happens outside of the calls

VARIABLES
    uisp,           \* site of an antenna UISP knows, None if it has none, or "absent"
    rows,           \* row of an antenna, or None
    rules,          \* antennas the core router drops
    keyed,          \* antennas that carry the key of the controller
    on,             \* antennas under power
    call,           \* the call being served
    roster,         \* what a running import has read
    halfway,        \* history: replacements that attached and did not end
    moves
vars == <<uisp, rows, rules, keyed, on, call, roster, halfway, moves>>

Row == [client : Clients \union {None}, synced : BOOLEAN,
        blocked : BOOLEAN, filtered : BOOLEAN, pending : BOOLEAN, recorded : BOOLEAN]
Discovered == [client |-> None, synced |-> FALSE, blocked |-> FALSE,
               filtered |-> FALSE, pending |-> FALSE, recorded |-> FALSE]

InUisp(m) == uisp[m] # "absent"
ClientInUisp(m) == IF uisp[m] \in Sites THEN Owner[uisp[m]] ELSE None
SitesOf(c) == {s \in Sites : Owner[s] = c}

Init ==
    /\ uisp \in [Macs -> Sites \union {None, "absent"}]
    /\ rows \in {f \in [Macs -> UNION {Rows[m] : m \in Macs}] : \A m \in Macs : f[m] \in Rows[m]}
    /\ rules = {} /\ keyed = {m \in Macs : InUisp(m)}
    /\ on \in SUBSET {m \in Macs : rows[m] # None}
    /\ call = None /\ roster = None /\ halfway = {} /\ moves = 0

outside == <<rules, keyed, on, roster, moves>>
Ends == call' = None
Happens == moves < MaxMoves /\ moves' = moves + 1
-----------------------------------------------------------------------------
(* The checks of a replacement, on the devices, the sites and the rows as  *)
(* it reads them.                                                          *)
Online(m) == m \in on
NotBlocked(m) == rows[m] # None => ~rows[m].blocked
NotFiltered(m) == rows[m] # None => ~rows[m].filtered

\* Mutant: the row is not asked when UISP has no client.
OwnerInUisp(m) == ClientInUisp(m)
OwnerOf(m) ==
    IF ClientInUisp(m) # None THEN ClientInUisp(m)
    ELSE IF rows[m] # None THEN rows[m].client ELSE None

Gone(m) == ~InUisp(m) /\ rows[m] = None

\* Mutant: the old antenna is taken out before the new one is attached.
RemoveFirst == "remove"
FirstStep == "attach"

Called(op, client, old, new, site, force, step) ==
    [op |-> op, client |-> client, old |-> old, new |-> new, site |-> site, force |-> force,
     step |-> step, from |-> "absent", lost |-> {},
     inUisp |-> old # None /\ InUisp(old), inBase |-> old # None /\ rows[old] # None]

\* The service asked for, else that of the old antenna, else the only one.
TargetSites(r) ==
    LET service == IF r.service = None /\ uisp[r.old] \in Sites THEN uisp[r.old] ELSE r.service IN
    IF service # None THEN SitesOf(r.client) \intersect {service}
    ELSE IF Cardinality(SitesOf(r.client)) = 1 THEN SitesOf(r.client) ELSE {}

MayReplace(r) ==
    IF Gone(r.old) THEN ClientInUisp(r.new) = r.client
    ELSE /\ OwnerOf(r.old) = r.client
         /\ NotBlocked(r.old) /\ NotFiltered(r.old)
         /\ ~Online(r.old) \/ r.force

Replaces(r) ==
    /\ call = None /\ MayReplace(r)
    /\ \E site \in TargetSites(r) :
          call' = Called("replace", r.client, r.old, r.new, site, FALSE,
                         IF Gone(r.old) THEN "attach" ELSE FirstStep)
    /\ UNCHANGED <<uisp, rows, halfway, outside>>

Replace == \E r \in Replacements : Replaces(r)

\* The answer said that the old antenna is still there, "Rejouer l'appel".
IsHalfway(r) == [client |-> r.client, old |-> r.old, new |-> r.new] \in halfway
Replay == \E r \in Replacements : IsHalfway(r) /\ Replaces(r)

\* An antenna that answers is deleted too, with force; a blocked one never is.
Delete ==
    \E m \in Macs :
        /\ call = None /\ ~Gone(m) /\ NotBlocked(m) /\ Happens
        /\ call' = Called("delete", None, m, None, None, FALSE, "remove")
        /\ UNCHANGED <<uisp, rows, rules, keyed, on, roster, halfway>>

Assign ==
    \E m \in Macs, site \in Sites, force \in BOOLEAN :
        /\ call = None /\ Happens
        /\ call' = Called("assign", Owner[site], None, m, site, force, "attach")
        /\ UNCHANGED <<uisp, rows, rules, keyed, on, roster, halfway>>
-----------------------------------------------------------------------------
(* assign_device_to_crm_client: an antenna UISP does not know is given the *)
(* key and has a minute to appear.                                         *)
Found ==
    /\ call # None /\ call.step \in {"attach", "await"} /\ InUisp(call.new)
    /\ call' = [call EXCEPT !.step = "associate", !.from = uisp[call.new]]
    /\ UNCHANGED <<uisp, rows, halfway, outside>>

InjectKey ==
    /\ call # None /\ call.step = "attach" /\ ~InUisp(call.new)
    /\ rows[call.new] # None /\ Online(call.new)
    /\ keyed' = keyed \union {call.new}
    /\ call' = [call EXCEPT !.step = "await"]
    /\ UNCHANGED <<uisp, rows, rules, on, roster, halfway, moves>>

\* No row, no access, or not there in time: nothing was attached.
NotReached ==
    /\ call # None /\ call.step \in {"attach", "await"} /\ ~InUisp(call.new)
    /\ Ends
    /\ UNCHANGED <<uisp, rows, halfway, outside>>

\* The row of the new antenna is read again once it is attached.
Attached == [call EXCEPT !.step = IF call.op = "assign" THEN "commit" ELSE "remove", !.lost = @ \ {call.new}]
ThisReplacement == [client |-> call.client, old |-> call.old, new |-> call.new]
NowHalfway == IF call.op = "replace" THEN halfway \union {ThisReplacement} ELSE halfway

AlreadyThere ==
    /\ call # None /\ call.step = "associate" /\ call.from = call.site
    /\ call' = Attached
    /\ halfway' = NowHalfway
    /\ UNCHANGED <<uisp, rows, outside>>

MayMove == call.from = None \/ call.force

Associate ==
    \E heard \in BOOLEAN :
        /\ call # None /\ call.step = "associate" /\ call.from # call.site /\ MayMove
        /\ uisp' = [uisp EXCEPT ![call.new] = IF InUisp(call.new) THEN call.site ELSE @]
        /\ IF heard /\ InUisp(call.new)
           THEN call' = Attached /\ halfway' = NowHalfway
           ELSE Ends /\ UNCHANGED halfway
        /\ UNCHANGED <<rows, outside>>

NotAssociated ==
    /\ call # None /\ call.step = "associate" /\ call.from # call.site
    /\ Ends
    /\ UNCHANGED <<uisp, rows, halfway, outside>>
-----------------------------------------------------------------------------
(* _remove: UISP first, then the row.  A failure undoes what was to be     *)
(* written to the base, the client of the new antenna included.            *)
RemoveFromUisp ==
    \E heard \in BOOLEAN :
        /\ call # None /\ call.step = "remove"
        /\ uisp' = IF call.inUisp THEN [uisp EXCEPT ![call.old] = "absent"] ELSE uisp
        /\ IF heard \/ ~call.inUisp THEN call' = [call EXCEPT !.step = "commit"] ELSE Ends
        /\ UNCHANGED <<rows, halfway, outside>>

NotRemoved ==
    /\ call # None /\ call.step \in {"remove", "commit"}
    /\ Ends
    /\ UNCHANGED <<uisp, rows, halfway, outside>>

Written(row) == [row EXCEPT !.client = call.client]

RowsAfterCall ==
    [m \in Macs |->
        IF m = call.old /\ call.inBase /\ m \notin call.lost THEN None
        ELSE IF m = call.new /\ rows[m] # None THEN Written(rows[m])
        ELSE rows[m]]

\* A row that is gone by now cannot be updated; deleting one is no failure.
RowLost ==
    /\ call # None /\ call.step = "commit" /\ call.new \in call.lost
    /\ Ends
    /\ UNCHANGED <<uisp, rows, halfway, outside>>

Commit ==
    /\ call # None /\ call.step = "commit" /\ call.new \notin call.lost
    /\ rows' = RowsAfterCall
    /\ halfway' = halfway \ {ThisReplacement}
    /\ Ends
    /\ UNCHANGED <<uisp, outside>>
-----------------------------------------------------------------------------
(* The import reads the roster, then the links and the sites, then matches, *)
(* creates and deletes rows in one transaction.                            *)
SyncStart ==
    /\ roster = None
    /\ roster' = uisp
    /\ UNCHANGED <<uisp, rows, rules, keyed, on, call, halfway, moves>>

\* The client is read from the sites: without them it is left as it is.
\* Mutant: the client of a row is only written where there is none.
SyncedIfUnknown(row, site, sites) ==
    [row EXCEPT !.synced = TRUE,
                !.client = IF @ # None \/ ~sites THEN @
                           ELSE IF site \in Sites THEN Owner[site] ELSE None]
Synced(row, site, sites) ==
    [row EXCEPT !.synced = TRUE,
                !.client = IF ~sites THEN @ ELSE IF site \in Sites THEN Owner[site] ELSE None]

\* An empty roster is not believed.
RowAfterSync(m, sites) ==
    IF roster[m] # "absent"
    THEN Synced(IF rows[m] = None THEN Discovered ELSE rows[m], roster[m], sites)
    ELSE IF rows[m] # None /\ rows[m].synced /\ \E n \in Macs : roster[n] # "absent" THEN None
    ELSE rows[m]

\* sites: fetch_sites answered.
Imports(sites) ==
    /\ roster # None
    /\ rows' = [m \in Macs |-> RowAfterSync(m, sites)]
    /\ call' = IF call = None THEN None
               ELSE [call EXCEPT !.lost =
                        @ \union {m \in Macs : rows[m] # None /\ RowAfterSync(m, sites) = None}]
    /\ roster' = None
    /\ UNCHANGED <<uisp, rules, keyed, on, halfway, moves>>

SyncEnd == \E sites \in BOOLEAN : Imports(sites)
-----------------------------------------------------------------------------
(* The rest of the world.                                                  *)
\* An antenna with the key reports to UISP.
Register ==
    \E m \in keyed \intersect on :
        /\ ~InUisp(m)
        /\ uisp' = [uisp EXCEPT ![m] = None]
        /\ UNCHANGED <<rows, rules, keyed, on, call, roster, halfway, moves>>

\* The radio of its site sees an antenna that has no row.
Discover ==
    \E m \in on :
        /\ rows[m] = None
        /\ rows' = [rows EXCEPT ![m] = Discovered]
        /\ UNCHANGED <<uisp, rules, keyed, on, call, roster, halfway, moves>>

Power ==
    \E m \in Macs :
        /\ Happens
        /\ on' = IF m \in on THEN on \ {m} ELSE on \union {m}
        /\ UNCHANGED <<uisp, rows, rules, keyed, call, roster, halfway>>

\* block_client, with or without the fallback on the router.
Block ==
    \E m \in Macs, fallback \in BOOLEAN :
        /\ rows[m] # None /\ ~rows[m].blocked /\ Happens
        /\ rows' = [rows EXCEPT ![m].blocked = TRUE, ![m].pending = FALSE, ![m].recorded = @ \/ fallback]
        /\ rules' = IF fallback THEN rules \union {m} ELSE rules
        /\ UNCHANGED <<uisp, keyed, on, call, roster, halfway>>

\* unblock_client: what could not be lifted at once is left to the job.
Unblock ==
    \E m \in Macs, lifted \in BOOLEAN :
        /\ rows[m] # None /\ rows[m].blocked
        /\ rows' = [rows EXCEPT ![m].blocked = FALSE, ![m].pending = ~lifted, ![m].recorded = @ /\ ~lifted]
        /\ rules' = IF lifted THEN rules \ {m} ELSE rules
        /\ UNCHANGED <<uisp, keyed, on, call, roster, halfway, moves>>

\* client_block_enforcement: a pending unblock is carried out.
Enforce ==
    \E m \in Macs :
        /\ rows[m] # None /\ rows[m].pending
        /\ rows' = [rows EXCEPT ![m].pending = FALSE, ![m].recorded = FALSE]
        /\ rules' = rules \ {m}
        /\ UNCHANGED <<uisp, keyed, on, call, roster, halfway, moves>>

Next ==
    \/ Replace \/ Delete \/ Assign
    \/ Found \/ InjectKey \/ NotReached \/ AlreadyThere \/ Associate \/ NotAssociated
    \/ RemoveFromUisp \/ NotRemoved \/ RowLost \/ Commit
    \/ SyncStart \/ SyncEnd
    \/ Register \/ Discover \/ Power \/ Block \/ Unblock \/ Enforce

(* A caller told that its replacement stopped half-way replays it until it *)
(* is answered that it is done, and no call fails for ever; the import runs *)
(* every night, and UISP gives its sites one night; the operator lifts a   *)
(* block some day.                                                         *)
Fairness ==
    /\ SF_vars(Replay) /\ SF_vars(Found) /\ SF_vars(AlreadyThere)
    /\ SF_vars(RemoveFromUisp) /\ SF_vars(Commit)
    /\ WF_vars(NotReached) /\ WF_vars(NotAssociated) /\ WF_vars(RowLost)
    /\ WF_vars(SyncStart) /\ SF_vars(Imports(TRUE))
    /\ WF_vars(Unblock)

Spec == Init /\ [][Next]_vars /\ Fairness
-----------------------------------------------------------------------------
(* Properties.                                                             *)
TypeOK ==
    /\ uisp \in [Macs -> Sites \union {None, "absent"}]
    /\ rows \in [Macs -> Row \union {None}]
    /\ rules \subseteq Macs /\ keyed \subseteq Macs /\ on \subseteq Macs
    /\ roster \in [Macs -> Sites \union {None, "absent"}] \union {None}
    /\ moves \in 0..MaxMoves

(* A replacement that fails at whatever point never leaves its client with *)
(* no antenna in UISP (replace_antenna attaches first, removes after).     *)
ServiceKept ==
    [][call # None /\ call.op = "replace" /\ RemoveFromUisp
        => \E m \in Macs : uisp'[m] \in SitesOf(call.client)]_vars

\* What the caller is told to mend first, or what no longer is this replacement.
Hindered(r) ==
    \/ ClientInUisp(r.new) # r.client
    \/ rows[r.old] # None /\ (rows[r.old].filtered \/ rows[r.old].blocked)
    \/ Online(r.old) /\ ~r.force
    \/ r.service = None /\ Cardinality(SitesOf(r.client)) > 1

\* Neither UISP nor the row knows any more that the old antenna is the client's.
Unattributed(r) ==
    /\ InUisp(r.old) \/ rows[r.old] # None
    /\ ClientInUisp(r.old) # r.client
    /\ uisp[r.old] \in Sites \/ rows[r.old] = None \/ rows[r.old].client # r.client

(* Calling again ends a replacement that attached the new antenna and      *)
(* failed to take the old one out, whatever the import did between.        *)
RetryFinishes ==
    \A r \in Replacements :
        IsHalfway(r) ~> ~IsHalfway(r) \/ Hindered(r) \/ Unattributed(r)

(* The promise of the error message itself, "Rejouer l'appel pour          *)
(* terminer", with no such reservation on the row.                         *)
AnyRetryFinishes ==
    \A r \in Replacements : IsHalfway(r) ~> ~IsHalfway(r) \/ Hindered(r)

(* Once the calls end, every antenna UISP knows has a row with the client  *)
(* UISP gives it, whatever a stale import or a failed call left behind.    *)
RowsFollowUisp ==
    <>[](call = None) =>
        <>[](\A m \in Macs : InUisp(m) => rows[m] # None /\ rows[m].client = ClientInUisp(m))

(* A call never deletes the row of a client that is blocked: the order to  *)
(* block is on the row (only the import does, for an antenna UISP lost).   *)
(* "Un client BLOQUE est refuse, sans derogation : l'intention de coupure   *)
(* vit sur la ligne de l'antenne, la supprimer l'effacerait"               *)
(* (antenna_lifecycle_service.py:30-33).                                   *)
NoBlockErased ==
    [][\A m \in Macs : rows[m] # None /\ rows[m].blocked /\ rows'[m] = None => roster # None /\ roster' = None]_vars

(* A rule of the core router is never left behind by a row that is gone.   *)
NoOrphanRule == \A m \in rules : rows[m] # None
=============================================================================
