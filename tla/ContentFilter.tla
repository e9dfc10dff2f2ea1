--------------------------- MODULE ContentFilter ---------------------------
(***************************************************************************)
(* The content filter of ONE client: the second half of                    *)
(* src/backend/app/services/client_block_service.py, the API in front of   *)
(* it, and the script that ssh_service runs on the LR.                     *)
(*                                                                         *)
(* An order is written to the client's row of lrs, then carried out over   *)
(* SSH on the LR's dnsmasq; a job repeats it every cycle, because an LR    *)
(* forgets its dnsmasq.conf at each reboot.  The stored set of categories  *)
(* does not say what is cut: that depends on the DIRECTION of the filter.  *)
(* The rule that sends the client's DNS to the LR is shared with the       *)
(* WhatsApp-only block, which has a life of its own.                       *)
(*                                                                         *)
(* As in ClientBlock, each handler has an ORM copy that is loaded once, a  *)
(* flush writes the columns that differ from the values loaded, and        *)
(* operators whose comment starts with "Mutant" are not used by Spec.      *)
(***************************************************************************)
CONSTANTS
    Categories,     \* the catalogue of services with domains of their own
    Requests,       \* API request slots
    Job,            \* the task of the enforcement job for this client
    Overlap         \* handlers may run at the same time

Procs == Requests \cup {Job}
Null == {"null"}
Adult == "adult"

ASSUME JobAssumption == Job \notin Requests
ASSUME CategoriesAssumption == {"null", Adult} \cap Categories = {}
ASSUME OverlapAssumption == Overlap \in BOOLEAN

VARIABLES
    row,      \* the columns of lrs that the filter uses
    orm,      \* orm[p]: the copy of process p
    seen,     \* seen[p]: the values it was loaded or last flushed with
    pc,       \* pc[p]: the next await of process p
    heard,    \* heard[p]: what the SSH session of p came to
    dns,      \* the filter's block in the LR's dnsmasq.conf
    dnat      \* the LR redirects the client's DNS to itself

lrDevice == <<dns, dnat>>
vars == <<row, orm, seen, pc, heard, dns, dnat>>

-----------------------------------------------------------------------------
Directions == {"denylist", "allowlist"}
Platforms == Categories \cup {Adult}

\* blocked_categories: NULL, nothing to manage; {}, a removal not confirmed
\* yet; otherwise the selected categories.  "now" is a date not yet flushed.
RowsWith(abandons) ==
    [blocked_categories: {Null} \cup SUBSET Categories,
     content_block_mode: Directions, block_adult_content: BOOLEAN,
     unenforceable: abandons, wa_block: BOOLEAN]

NewRow ==
    [blocked_categories |-> Null, content_block_mode |-> "denylist",
     block_adult_content |-> FALSE, unenforceable |-> "no", wa_block |-> FALSE]

\* What a flush makes of a row: a stamp just taken becomes a date.
Stored(l) ==
    [l EXCEPT !.unenforceable = IF @ = "now" THEN "recent" ELSE @]

Flushed(l, s) ==
    [c \in DOMAIN row |-> IF l[c] # s[c] THEN Stored(l)[c] ELSE row[c]]

\* _normalize_categories: NULL and what is not in the catalogue drop out.
Known(categories) == categories \cap Categories

\* _content_active: categories or the adult filter.
Active(l) == Known(l.blocked_categories) # {} \/ l.block_adult_content

\* Mutant: the job's query without its second term.
SelectedByCategories(l) == l.blocked_categories # Null

\* What the job's query selects and its task re-checks.
Selected(l) == l.blocked_categories # Null \/ l.block_adult_content

-----------------------------------------------------------------------------
(***************************************************************************)
(* Orders                                                                  *)
(***************************************************************************)
\* Mutant: an order that clears the filter leaves nothing for the job to do.
OrderedForgetful(l, categories, direction, adult) ==
    [l EXCEPT !.blocked_categories = IF categories # {} THEN categories ELSE Null,
              !.content_block_mode = IF direction = "keep" THEN @ ELSE direction,
              !.block_adult_content = IF adult = "keep" THEN @ ELSE adult = "on"]

\* set_content_block, up to its first commit.
Ordered(l, categories, direction, adult) ==
    LET wants_adult == IF adult = "keep" THEN l.block_adult_content ELSE adult = "on"
    IN  [l EXCEPT !.blocked_categories =
                        IF categories # {} THEN categories
                        ELSE IF wants_adult THEN Null ELSE {},
                  !.content_block_mode = IF direction = "keep" THEN @ ELSE direction,
                  !.block_adult_content = wants_adult]

\* effective_blocked_platforms: what the row says is out of reach.
EffectiveBlocked(l) ==
    LET active == Known(l.blocked_categories)
        adult == IF l.block_adult_content THEN {Adult} ELSE {}
    IN  adult \cup (IF active = {} THEN {}
                    ELSE IF l.content_block_mode = "allowlist" THEN Categories \ active
                    ELSE active)

\* Mutant: the categories asked for are added to the stored set, or removed
\* from it, whatever its direction means.
TargetEditedRaw(l, requested, blocked) ==
    LET active == Known(l.blocked_categories)
    IN  [categories |-> IF blocked THEN active \cup requested ELSE active \ requested,
         direction |-> l.content_block_mode]

\* platform_target_categories: the set and the direction that make the
\* requested categories unreachable (or reachable) and change nothing else.
Target(l, requested, blocked) ==
    LET active == Known(l.blocked_categories)
        allows == active # {} /\ l.content_block_mode = "allowlist"
    IN  [categories |-> IF blocked = allows THEN active \ requested
                        ELSE active \cup requested,
         direction |-> IF allows THEN "allowlist" ELSE "denylist"]

\* ContentFilterConflictError: the last category still allowed is blocked.
Conflict(l, requested, blocked) ==
    /\ Known(l.blocked_categories) # {}
    /\ l.content_block_mode = "allowlist"
    /\ requested # {}
    /\ Target(l, requested, blocked).categories = {}

\* split_adult, then set_platform_block: the two dimensions are resolved
\* apart, and an order for adult content alone leaves the direction alone.
PlatformOrder(l, platforms, blocked) ==
    LET requested == platforms \cap Categories
        adult == IF Adult \notin platforms THEN "keep" ELSE IF blocked THEN "on" ELSE "off"
    IN  IF requested = {}
        THEN Ordered(l, Known(l.blocked_categories), "keep", adult)
        ELSE LET target == Target(l, requested, blocked)
             IN  Ordered(l, target.categories, target.direction, adult)

\* Lifting a filter that was never there: no session, no write.
NothingToLift(l, platforms, blocked) ==
    LET requested == platforms \cap Categories
    IN  /\ l.blocked_categories = Null
        /\ ~l.block_adult_content
        /\ requested = {} \/ Target(l, requested, blocked).categories = {}
        /\ ~(Adult \in platforms /\ blocked)

-----------------------------------------------------------------------------
(***************************************************************************)
(* The script on the LR                                                    *)
(***************************************************************************)
NoBlock == [on |-> FALSE, mode |-> "denylist", domains |-> {}, adult |-> FALSE]

DnsBlocks ==
    {NoBlock} \cup
    [on: {TRUE}, mode: Directions, domains: SUBSET Categories, adult: BOOLEAN]

\* The marked block that _apply_content_block asks for, stamped with
\* everything that distinguishes it.
WantedBlock(l) ==
    IF Active(l)
    THEN [on |-> TRUE, mode |-> l.content_block_mode,
          domains |-> Known(l.blocked_categories), adult |-> l.block_adult_content]
    ELSE NoBlock

\* The shared rule stays when the WhatsApp-only block still needs it.
WantedDnat(l) == Active(l) \/ (l.wa_block /\ dnat)

\* What the client cannot resolve.  An allowlist poisons every name first.
Unreachable ==
    (IF dns.adult THEN {Adult} ELSE {}) \cup
    (IF dns.on /\ dns.mode = "allowlist" THEN Categories \ dns.domains ELSE dns.domains)

\* A session that fails may have run the script, or its first half.
ApplyOnLr(l, outcome) ==
    \/ outcome = "ok" /\ dns' = WantedBlock(l) /\ dnat' = WantedDnat(l)
    \/ outcome = "transient" /\ dns' \in {dns, WantedBlock(l)} /\ dnat' \in {dnat, WantedDnat(l)}
    \/ outcome = "structural" /\ UNCHANGED <<dns, dnat>>

-----------------------------------------------------------------------------
MayStart(p) ==
    /\ pc[p] = "idle"
    /\ Overlap \/ \A q \in Procs : pc[q] = "idle"

Goto(p, label) == pc' = [pc EXCEPT ![p] = label]

Close(p) ==
    /\ orm' = [orm EXCEPT ![p] = NewRow]
    /\ seen' = [seen EXCEPT ![p] = NewRow]
    /\ heard' = [heard EXCEPT ![p] = "ok"]
    /\ Goto(p, "idle")

Load(p, label) ==
    /\ orm' = [orm EXCEPT ![p] = row]
    /\ seen' = [seen EXCEPT ![p] = row]
    /\ Goto(p, label)
    /\ UNCHANGED <<row, heard, lrDevice>>

Request(p) == MayStart(p) /\ Load(p, "order")

\* 400, 404, 409 (bridge mode), or no SSH credentials: nothing is written.
Refused(p) ==
    /\ pc[p] = "order"
    /\ Close(p)
    /\ UNCHANGED <<row, lrDevice>>

CommitOrder(p, l) ==
    /\ row' = Flushed(l, seen[p])
    /\ orm' = [orm EXCEPT ![p] = l]
    /\ seen' = [seen EXCEPT ![p] = l]
    /\ Goto(p, "session")
    /\ UNCHANGED <<heard, lrDevice>>

\* PUT /devices/{id}/content-block: the complete set, from the dashboard.
OrderFilter(p, categories, direction, adult) ==
    /\ pc[p] = "order"
    /\ CommitOrder(p, Ordered(orm[p], categories, direction, adult))

\* POST /content-filter/block and /unblock: platforms and a verb.
OrderPlatforms(p, platforms, blocked) ==
    /\ pc[p] = "order"
    /\ ~Conflict(orm[p], platforms \cap Categories, blocked)
    /\ ~NothingToLift(orm[p], platforms, blocked)
    /\ CommitOrder(p, PlatformOrder(orm[p], platforms, blocked))

\* The SSH session, of an order or of the job.
Session(p, outcome) ==
    /\ pc[p] = "session"
    /\ ApplyOnLr(orm[p], outcome)
    /\ heard' = [heard EXCEPT ![p] = outcome]
    /\ Goto(p, "record")
    /\ UNCHANGED <<row, orm, seen>>

\* What set_content_block and _enforce_one_content write of an answer.  A
\* success lifts the abandon, whoever had pronounced it; a failure that is
\* not a refusal clears the reason for an order and leaves it for the job.
Recorded(p) ==
    LET l == orm[p]
        known == Known(l.blocked_categories)
    IN  CASE heard[p] = "ok" ->
                [l EXCEPT !.blocked_categories = IF known = {} THEN Null ELSE known,
                          !.unenforceable = "no"]
          [] heard[p] = "structural" -> [l EXCEPT !.unenforceable = "now"]
          [] heard[p] = "transient" /\ p # Job -> [l EXCEPT !.unenforceable = "no"]
          [] OTHER -> l

Record(p) ==
    /\ pc[p] = "record"
    /\ row' = Flushed(Recorded(p), seen[p])
    /\ Close(p)
    /\ UNCHANGED <<lrDevice>>

\* enforce_content_blocks, then _enforce_one_content: an LR abandoned lately
\* is skipped.
Enforce ==
    /\ MayStart(Job)
    /\ Selected(row)
    /\ row.unenforceable \in {"no", "due"}
    /\ Load(Job, "session")

-----------------------------------------------------------------------------
(***************************************************************************)
(* The environment: the WhatsApp-only block of the same client, the clock, *)
(* reboots and deaths                                                      *)
(***************************************************************************)
WhatsappOrder(on) ==
    /\ row.wa_block # on
    /\ row' = [row EXCEPT !.wa_block = on]
    /\ UNCHANGED <<orm, seen, pc, heard, lrDevice>>

\* A session of the block: _set_whatsapp_only_sync installs the shared rule
\* with the filter, and removes both without asking who else needs it.  The
\* job, an unblock or a block of the other flavour may run it at any time.
WhatsappSession ==
    /\ dnat' = row.wa_block
    /\ UNCHANGED <<row, orm, seen, pc, heard, dns>>

\* The block job abandons the same LR.
BlockAbandons ==
    /\ row.unenforceable = "no"
    /\ row.wa_block
    /\ row' = [row EXCEPT !.unenforceable = "recent"]
    /\ UNCHANGED <<orm, seen, pc, heard, lrDevice>>

RetryDelayPasses ==
    /\ row.unenforceable = "recent"
    /\ row' = [row EXCEPT !.unenforceable = "due"]
    /\ UNCHANGED <<orm, seen, pc, heard, lrDevice>>

LrReboot ==
    /\ dns # NoBlock \/ dnat
    /\ dns' = NoBlock
    /\ dnat' = FALSE
    /\ UNCHANGED <<row, orm, seen, pc, heard>>

\* The process dies, any number of times.
Abort(p) ==
    /\ pc[p] # "idle"
    /\ Close(p)
    /\ UNCHANGED <<row, lrDevice>>

-----------------------------------------------------------------------------
Init ==
    /\ row = NewRow
    /\ orm = [p \in Procs |-> NewRow]
    /\ seen = [p \in Procs |-> NewRow]
    /\ pc = [p \in Procs |-> "idle"]
    /\ heard = [p \in Procs |-> "ok"]
    /\ dns = NoBlock
    /\ dnat = FALSE

Order(p) ==
    \/ \E categories \in SUBSET Categories, direction \in Directions \cup {"keep"},
          adult \in {"keep", "on", "off"} : OrderFilter(p, categories, direction, adult)
    \/ \E platforms \in (SUBSET Platforms) \ {{}}, blocked \in BOOLEAN :
          OrderPlatforms(p, platforms, blocked)

Sessions(p) == \E outcome \in {"ok", "transient", "structural"} : Session(p, outcome)

Next ==
    \/ \E p \in Requests : Request(p) \/ Refused(p) \/ Order(p)
    \/ \E p \in Procs : Sessions(p) \/ Record(p) \/ Abort(p)
    \/ Enforce
    \/ \E on \in BOOLEAN : WhatsappOrder(on)
    \/ WhatsappSession
    \/ BlockAbandons
    \/ RetryDelayPasses
    \/ LrReboot

Spec == Init /\ [][Next]_vars

\* Handlers go on, the job comes back every cycle, hours pass, and a session
\* that is tried again and again succeeds some time.
Fairness ==
    /\ \A p \in Requests : WF_vars(Refused(p) \/ Order(p))
    /\ \A p \in Procs : WF_vars(Sessions(p)) /\ WF_vars(Record(p))
    /\ SF_vars(Enforce)
    /\ SF_vars(Session(Job, "ok"))
    /\ WF_vars(RetryDelayPasses)

FairSpec == Spec /\ Fairness

-----------------------------------------------------------------------------
(***************************************************************************)
(* Properties                                                              *)
(***************************************************************************)
Abandons == {"no", "recent", "due"}

\* The shape of the state; in particular no unflushed stamp in the row.
TypeOK ==
    /\ row \in RowsWith(Abandons)
    /\ orm \in [Procs -> RowsWith(Abandons \cup {"now"})]
    /\ seen \in [Procs -> RowsWith(Abandons \cup {"now"})]
    /\ pc \in [Procs -> {"idle", "order", "session", "record"}]
    /\ heard \in [Procs -> {"ok", "transient", "structural"}]
    /\ dns \in DnsBlocks
    /\ dnat \in BOOLEAN

Quiet == \A p \in Procs : pc[p] = "idle"

\* A filter left on the LR is always in the job's hands: with no handler at
\* work, an LR that still poisons names belongs to a row the job selects.  It
\* is what the [] marker is for: a removal that failed is tried again.
FilterInHand == Quiet /\ dns # NoBlock => Selected(row)

\* "This is a cumulative edit, never a reset": an order for some platforms
\* changes what is out of reach by exactly these platforms, in either
\* direction of the filter and whatever an old filter left in the row.
PlatformOrdersExact ==
    [][\A p \in Requests :
          pc[p] = "order" /\ pc'[p] = "session" /\ orm[p] = row =>
              \A platforms \in (SUBSET Platforms) \ {{}}, blocked \in BOOLEAN :
                  OrderPlatforms(p, platforms, blocked) =>
                      EffectiveBlocked(row') =
                          IF blocked THEN EffectiveBlocked(row) \cup platforms
                          ELSE EffectiveBlocked(row) \ platforms]_vars

\* Once no order comes any more, the filter of the row is on the LR again and
\* again with the redirect it needs, whatever reboots and refusals come
\* between and whatever the WhatsApp-only block does to the shared rule.
LastFilterPrevails ==
    <>[](\A p \in Requests : pc[p] = "idle")
        => []<>(dns = WantedBlock(row) /\ (Active(row) => dnat))

\* The answer to "what is cut on this client?" (GET /status, "la question que
\* pose l'appelant") is true of an LR that carries the filter of its row.
ReportedIsReal ==
    Quiet /\ dns = WantedBlock(row) => Unreachable = EffectiveBlocked(row)
=============================================================================
