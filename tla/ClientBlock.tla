---------------------------- MODULE ClientBlock ----------------------------
(***************************************************************************)
(* Cutting and restoring ONE client's internet access                      *)
(* (src/backend/app/services/client_block_service.py).                     *)
(*                                                                         *)
(* The intent lives in the client's row of table lrs; the effect lives on  *)
(* the client's LR (LAN port, WhatsApp-only filter) and, as a fallback, on *)
(* the core router (a drop rule on the LR's MAC).  Two kinds of process    *)
(* act on the three: API requests (block_client, unblock_client) and the   *)
(* task that the enforcement job runs for this client on every pass.  Each *)
(* works on its own ORM copy of the row, loaded once and never refreshed   *)
(* (expire_on_commit=False), and every call to the LR or to the router is  *)
(* an await during which the others run.                                   *)
(*                                                                         *)
(* The job treats every LR in a session of its own and touches no other    *)
(* row, so one client is the whole story of these invariants.              *)
(*                                                                         *)
(* Operators whose comment starts with "Mutant" change the definition that *)
(* follows the way a bug in its code would; no behaviour of Spec uses them.*)
(***************************************************************************)
EXTENDS Naturals

CONSTANTS
    Requests,   \* API request slots; a slot serves one request after another
    Enforcer,   \* the enforcement job's task for this client (max_instances=1)
    Modes,      \* the flavours of block that requests ask for
    Reaches,    \* what the row may hold of the supervisor's access to the LR
    Outcomes,   \* what a session on the LR may come to: "ok" and failures
    Faults,     \* which of the circumstances below may happen
    MaxAborts   \* bound: how many handlers may die before their last commit

(***************************************************************************)
(* "overlap"    : a request or a pass may start while another is running.  *)
(*                Nothing in the code prevents it; without this fault the  *)
(*                model only lets them run one at a time.                  *)
(* "unrecorded" : the router carries a rule that the row does not know: a  *)
(*                rule of the legacy system, or a reply lost after the     *)
(*                router had obeyed.                                       *)
(***************************************************************************)
FaultKinds == {"overlap", "unrecorded"}

Procs == Requests \cup {Enforcer}

ASSUME ProcsAssumption == Enforcer \notin Requests
ASSUME ModesAssumption == Modes \subseteq {"full", "whatsapp_only"}
ASSUME ReachesAssumption == Reaches \subseteq {"ssh", "no_ip", "no_credentials"}
ASSUME OutcomesAssumption ==
    /\ {"ok"} \subseteq Outcomes
    /\ Outcomes \subseteq {"ok", "transient", "structural"}
ASSUME FaultsAssumption == Faults \subseteq FaultKinds
ASSUME MaxAbortsAssumption == MaxAborts \in Nat

VARIABLES
    row,        \* the committed row of table lrs
    lr,         \* lr[p]: the ORM object of process p
    seen,       \* seen[p]: the values lr[p] had when last in step with the row
    pc,         \* pc[p]: the next await of process p
    heard,      \* heard[p]: the outcome of the first of two SSH sessions
    port_down,  \* the LR's LAN port is shut
    wa_filter,  \* the WhatsApp-only filter is installed on the LR
    drop_rule,  \* the core router drops this MAC
    cut_done,   \* history: a cut was confirmed since the last lifted order
    told,       \* history: the last unblock answered "the LR may still be cut"
    aborts      \* how many handlers have died so far

dbVars == <<row, lr, seen>>
lrDevice == <<port_down, wa_filter>>
history == <<cut_done, told>>
vars == <<row, lr, seen, pc, heard, port_down, wa_filter, drop_rule, cut_done,
          told, aborts>>

-----------------------------------------------------------------------------
(***************************************************************************)
(* Rows.  A timestamp is abstracted to what the code asks of it.  "now" is *)
(* a stamp taken but not yet flushed: unlike a flag, it always differs     *)
(* from the value loaded, so it is always written.                         *)
(***************************************************************************)
BlockModes == {"full", "whatsapp_only"}
Accesses == {"ssh", "no_ip", "no_credentials"}
EnforcedStamps == {"null", "set"}
AbandonStamps == {"null", "recent", "due"}

RowsWith(enforced, abandoned) ==
    [client_blocked: BOOLEAN, block_mode: BlockModes, enforced_at: enforced,
     unblock_pending: BOOLEAN, unenforceable: BOOLEAN,
     unenforceable_since: abandoned, router_blocked: BOOLEAN, reach: Accesses]

Rows == RowsWith(EnforcedStamps, AbandonStamps)
OrmObjects == RowsWith(EnforcedStamps \cup {"now"}, AbandonStamps \cup {"now"})

NewRow ==
    [client_blocked |-> FALSE, block_mode |-> "full", enforced_at |-> "null",
     unblock_pending |-> FALSE, unenforceable |-> FALSE,
     unenforceable_since |-> "null", router_blocked |-> FALSE, reach |-> "ssh"]

\* Mutant: the stamps go to the row as the ORM object holds them.
StoredAsIs(l) == l

\* What the database keeps of an ORM object.
Stored(l) ==
    [l EXCEPT !.enforced_at = IF @ = "now" THEN "set" ELSE @,
              !.unenforceable_since = IF @ = "now" THEN "recent" ELSE @]

\* Mutant: a flush writes every column, stale ones included.
FlushedWhole(l, s) == Stored(l)

\* A flush writes the attributes that differ from the values loaded, and
\* only those: the other columns keep what other transactions put there.
Flushed(l, s) ==
    LET column(c) == IF l[c] # s[c] THEN Stored(l)[c] ELSE row[c]
    IN  [client_blocked      |-> column("client_blocked"),
         block_mode          |-> column("block_mode"),
         enforced_at         |-> column("enforced_at"),
         unblock_pending     |-> column("unblock_pending"),
         unenforceable       |-> column("unenforceable"),
         unenforceable_since |-> column("unenforceable_since"),
         router_blocked      |-> column("router_blocked"),
         reach               |-> row.reach]

SetUnenforceable(l, refused) ==
    [l EXCEPT !.unenforceable = refused,
              !.unenforceable_since = IF refused THEN "now" ELSE "null"]

\* Mutant: an abandoned LR is never tried again.
AbandonRetryNever(l) == l.unenforceable /\ l.unenforceable_since = "null"

AbandonRetryDue(l) ==
    l.unenforceable /\ l.unenforceable_since \in {"null", "due"}

DesiredRouterBlock(l) ==
    l.client_blocked /\ (l.enforced_at = "null" \/ l.unenforceable)

\* By what mechanism the row says that the client is cut.
EnforcementState(l) ==
    IF ~l.client_blocked THEN "none"
    ELSE IF l.enforced_at # "null" /\ ~l.unenforceable THEN "lr"
    ELSE IF l.router_blocked THEN "router"
    ELSE "none"

\* Mutant: the query without its third term.
SelectedByOrder(l) == l.client_blocked \/ l.unblock_pending

\* The rows the job's query selects, and its task re-checks.
Selected(l) == l.client_blocked \/ l.unblock_pending \/ l.router_blocked

-----------------------------------------------------------------------------
(***************************************************************************)
(* The LR, over SSH.  "structural": the LR answers and refuses the login   *)
(* (password, host key, identity).  "transient": everything else, a        *)
(* command that took effect but was never confirmed included.              *)
(***************************************************************************)
SshOutcomes == {"ok", "transient", "structural"}

HasSsh(l) == l.reach # "no_credentials"

\* A session goes to the address, with the credentials, of the caller's copy.
Answers(l, outcome) == l.reach = "ssh" \/ outcome = "transient"

Left(l, was, wanted, outcome) ==
    CASE outcome = "ok" -> {wanted}
      [] outcome = "transient" /\ l.reach = "ssh" -> {was, wanted}
      [] OTHER -> {was}

SetFull(l, cut, outcome) ==
    /\ Answers(l, outcome)
    /\ port_down' \in Left(l, port_down, cut, outcome)
    /\ UNCHANGED wa_filter

SetWhatsapp(l, on, outcome) ==
    /\ Answers(l, outcome)
    /\ wa_filter' \in Left(l, wa_filter, on, outcome)
    /\ UNCHANGED port_down

AssertBlock(l, outcome) ==
    /\ \/ l.block_mode = "whatsapp_only" /\ SetWhatsapp(l, TRUE, outcome)
       \/ l.block_mode = "full" /\ SetFull(l, TRUE, outcome)
    /\ cut_done' = (cut_done \/ outcome = "ok")
    /\ UNCHANGED told

\* _clear_block runs two sessions and reports one message: a refusal in
\* either is a refusal, and it succeeds only when both do.
Worst(first, second) ==
    CASE {first, second} = {"ok"} -> "ok"
      [] "structural" \in {first, second} -> "structural"
      [] OTHER -> "transient"

(***************************************************************************)
(* The core router.  With the fallback disabled every call fails, which is *)
(* what the callers then do: nothing.                                      *)
(***************************************************************************)
RouterSets(wanted, ok) ==
    drop_rule' \in IF ok THEN {wanted}
                   ELSE IF "unrecorded" \in Faults THEN {drop_rule, wanted}
                   ELSE {drop_rule}

\* Mutant: the rule is remembered before the router has acknowledged it.
ReconcileRouterBlindly(p, ok) ==
    /\ RouterSets(DesiredRouterBlock(lr[p]), ok)
    /\ lr' = [lr EXCEPT ![p].router_blocked = DesiredRouterBlock(lr[p])]

\* _reconcile_router: calls the router only when the desire and the row's
\* memory of the rule disagree, and remembers only what was acknowledged.
ReconcileRouter(p, ok) ==
    LET wanted == DesiredRouterBlock(lr[p])
    IN  \/ /\ wanted = lr[p].router_blocked
           /\ UNCHANGED <<lr, drop_rule>>
        \/ /\ wanted # lr[p].router_blocked
           /\ RouterSets(wanted, ok)
           /\ lr' = IF ok THEN [lr EXCEPT ![p].router_blocked = wanted] ELSE lr

\* _clear_router_block: asks in every case, a rule may exist that is not ours.
ClearRouterBlock(p, ok) ==
    /\ RouterSets(FALSE, ok)
    /\ lr' = IF ok THEN [lr EXCEPT ![p].router_blocked = FALSE] ELSE lr

-----------------------------------------------------------------------------
(***************************************************************************)
(* Steps every handler is made of.                                         *)
(***************************************************************************)
MayStart(p) ==
    /\ pc[p] = "idle"
    /\ "overlap" \in Faults \/ \A q \in Procs : pc[q] = "idle"

Goto(p, label) == pc' = [pc EXCEPT ![p] = label]

Load(p, label) ==
    /\ lr' = [lr EXCEPT ![p] = row]
    /\ seen' = [seen EXCEPT ![p] = row]
    /\ Goto(p, label)
    /\ UNCHANGED <<row, heard, aborts, lrDevice, drop_rule, history>>

\* The session ends and its objects are gone.
Close(p) ==
    /\ lr' = [lr EXCEPT ![p] = NewRow]
    /\ seen' = [seen EXCEPT ![p] = NewRow]
    /\ heard' = [heard EXCEPT ![p] = "ok"]
    /\ Goto(p, "idle")

\* The commit of a handler's intent, before its first network call.
CommitIntent(p, l, label) ==
    /\ row' = Flushed(l, seen[p])
    /\ lr' = [lr EXCEPT ![p] = l]
    /\ seen' = [seen EXCEPT ![p] = l]
    /\ Goto(p, label)
    /\ UNCHANGED <<heard, aborts, lrDevice, drop_rule>>

\* The last commit of a handler.
Commit(p) ==
    /\ pc[p] = "commit"
    /\ row' = Flushed(lr[p], seen[p])
    /\ Close(p)
    /\ UNCHANGED <<aborts, lrDevice, drop_rule, history>>

-----------------------------------------------------------------------------
(***************************************************************************)
(* block_client                                                            *)
(***************************************************************************)
BlockRequest(p) == MayStart(p) /\ Load(p, "block_intent")

\* No credentials, or 409 from the endpoint: the LR is in bridge mode.
BlockRefused(p) ==
    /\ pc[p] = "block_intent"
    /\ Close(p)
    /\ UNCHANGED <<row, aborts, lrDevice, drop_rule, history>>

BlockIntent(p, mode) ==
    /\ pc[p] = "block_intent"
    /\ HasSsh(lr[p])
    /\ CommitIntent(p, [lr[p] EXCEPT !.client_blocked = TRUE,
                                     !.block_mode = mode,
                                     !.unblock_pending = FALSE],
                    "block_neutralize")
    /\ told' = FALSE
    /\ UNCHANGED cut_done

\* _neutralize_other: best effort, its outcome is only logged.
BlockNeutralize(p, outcome) ==
    /\ pc[p] = "block_neutralize"
    /\ \/ lr[p].block_mode = "whatsapp_only" /\ SetFull(lr[p], FALSE, outcome)
       \/ lr[p].block_mode = "full" /\ SetWhatsapp(lr[p], FALSE, outcome)
    /\ Goto(p, "block_assert")
    /\ UNCHANGED <<dbVars, heard, aborts, drop_rule, history>>

BlockAssert(p, outcome) ==
    /\ pc[p] = "block_assert"
    /\ AssertBlock(lr[p], outcome)
    /\ lr' = [lr EXCEPT ![p] =
                IF outcome = "ok"
                THEN SetUnenforceable([@ EXCEPT !.enforced_at = "now"], FALSE)
                ELSE SetUnenforceable(@, outcome = "structural")]
    /\ Goto(p, IF outcome = "ok" THEN "block_uncover" ELSE "block_cover")
    /\ UNCHANGED <<row, seen, heard, aborts, drop_rule>>

\* The LR cuts: any rule on the router is now useless.
BlockUncover(p, ok) ==
    /\ pc[p] = "block_uncover"
    /\ ClearRouterBlock(p, ok)
    /\ Goto(p, "commit")
    /\ UNCHANGED <<row, seen, heard, aborts, lrDevice, history>>

\* The LR does not cut: the router takes over.
BlockCover(p, ok) ==
    /\ pc[p] = "block_cover"
    /\ ReconcileRouter(p, ok)
    /\ Goto(p, "commit")
    /\ UNCHANGED <<row, seen, heard, aborts, lrDevice, history>>

(***************************************************************************)
(* unblock_client, behind the balance check of the FAI endpoint            *)
(***************************************************************************)
UnblockRequest(p) == MayStart(p) /\ Load(p, "unblock_intent")

\* 409 outstanding_balance or 503 crm_unavailable: nothing is touched.
UnblockRefused(p) ==
    /\ pc[p] = "unblock_intent"
    /\ Close(p)
    /\ UNCHANGED <<row, aborts, lrDevice, drop_rule, history>>

\* Mutant: the lifted order leaves the stamp of its cut.
LiftedKeepingStamp(l) == [l EXCEPT !.client_blocked = FALSE]

Lifted(l) == [l EXCEPT !.client_blocked = FALSE, !.enforced_at = "null"]

UnblockIntent(p) ==
    /\ pc[p] = "unblock_intent"
    /\ HasSsh(lr[p])
    /\ CommitIntent(p, Lifted(lr[p]), "unblock_router")
    /\ cut_done' = FALSE
    /\ told' = FALSE

\* Without credentials the intent is only committed after the router's answer.
UnblockWithoutSsh(p, ok) ==
    /\ pc[p] = "unblock_intent"
    /\ ~HasSsh(lr[p])
    /\ RouterSets(FALSE, ok)
    /\ lr' = [lr EXCEPT ![p] =
                IF ok THEN [Lifted(@) EXCEPT !.router_blocked = FALSE] ELSE Lifted(@)]
    /\ Goto(p, "unblock_handed")
    /\ UNCHANGED <<row, seen, heard, aborts, lrDevice, history>>

\* The answer hands the LR over to the operator: "une éventuelle coupure
\* locale n'a pas pu être levée", with nothing pending.
UnblockHandedOver(p) ==
    /\ pc[p] = "unblock_handed"
    /\ row' = Flushed(lr[p], seen[p])
    /\ Close(p)
    /\ cut_done' = FALSE
    /\ told' = TRUE
    /\ UNCHANGED <<aborts, lrDevice, drop_rule>>

UnblockRouter(p, ok) ==
    /\ pc[p] = "unblock_router"
    /\ ClearRouterBlock(p, ok)
    /\ Goto(p, "unblock_port")
    /\ UNCHANGED <<row, seen, heard, aborts, lrDevice, history>>

UnblockPort(p, outcome) ==
    /\ pc[p] = "unblock_port"
    /\ SetFull(lr[p], FALSE, outcome)
    /\ heard' = [heard EXCEPT ![p] = outcome]
    /\ Goto(p, "unblock_filter")
    /\ UNCHANGED <<dbVars, aborts, drop_rule, history>>

UnblockFilter(p, outcome) ==
    /\ pc[p] = "unblock_filter"
    /\ SetWhatsapp(lr[p], FALSE, outcome)
    /\ LET cleared == Worst(heard[p], outcome)
       IN  lr' = [lr EXCEPT ![p] =
                    SetUnenforceable(
                        [@ EXCEPT !.unblock_pending = cleared # "ok"],
                        cleared = "structural")]
    /\ Goto(p, "commit")
    /\ UNCHANGED <<row, seen, heard, aborts, drop_rule, history>>

-----------------------------------------------------------------------------
(***************************************************************************)
(* _enforce_one_block: the job's task.  The query that selects the row and *)
(* the re-read that starts the task apply the same condition; a row that   *)
(* stops satisfying it in between is left alone.                           *)
(***************************************************************************)
EnforceStart ==
    /\ MayStart(Enforcer)
    /\ Selected(row)
    /\ Load(Enforcer, "enforce_router")

\* Mutant: a cut once confirmed is not asserted again.
AfterRouterOnce(l) ==
    IF \/ l.unenforceable /\ ~AbandonRetryDue(l)
       \/ l.reach # "ssh"
       \/ ~l.client_blocked /\ ~l.unblock_pending
       \/ l.client_blocked /\ l.enforced_at = "set"
    THEN "commit"
    ELSE IF l.client_blocked THEN "enforce_assert" ELSE "enforce_port"

\* Where the task goes once the router is reconciled: it leaves an abandoned
\* LR to the router, and has nothing to send to a row without an order.
AfterRouter(l) ==
    IF \/ l.unenforceable /\ ~AbandonRetryDue(l)
       \/ l.reach # "ssh"
       \/ ~l.client_blocked /\ ~l.unblock_pending
    THEN "commit"
    ELSE IF l.client_blocked THEN "enforce_assert" ELSE "enforce_port"

EnforceRouter(ok) ==
    /\ pc[Enforcer] = "enforce_router"
    /\ ReconcileRouter(Enforcer, ok)
    /\ Goto(Enforcer, AfterRouter(lr[Enforcer]))
    /\ UNCHANGED <<row, seen, heard, aborts, lrDevice, history>>

\* Mutant: whatever is abandoned leaves the loop.
AbandonOutright(l, unblocking) ==
    [SetUnenforceable(l, TRUE) EXCEPT !.unblock_pending = FALSE]

\* _abandon keeps a pending unblock in the loop, and drops it for a cut.
Abandon(l, unblocking) ==
    [SetUnenforceable(l, TRUE) EXCEPT !.unblock_pending = unblocking]

EnforceAssert(outcome) ==
    /\ pc[Enforcer] = "enforce_assert"
    /\ AssertBlock(lr[Enforcer], outcome)
    /\ lr' = [lr EXCEPT ![Enforcer] =
                CASE outcome = "ok" ->
                        [SetUnenforceable(@, FALSE) EXCEPT !.enforced_at = "now"]
                  [] outcome = "structural" -> Abandon(@, FALSE)
                  [] OTHER -> @]
    /\ Goto(Enforcer, "enforce_realign")
    /\ UNCHANGED <<row, seen, heard, aborts, drop_rule>>

EnforcePort(outcome) ==
    /\ pc[Enforcer] = "enforce_port"
    /\ SetFull(lr[Enforcer], FALSE, outcome)
    /\ heard' = [heard EXCEPT ![Enforcer] = outcome]
    /\ Goto(Enforcer, "enforce_filter")
    /\ UNCHANGED <<dbVars, aborts, drop_rule, history>>

EnforceFilter(outcome) ==
    /\ pc[Enforcer] = "enforce_filter"
    /\ SetWhatsapp(lr[Enforcer], FALSE, outcome)
    /\ LET cleared == Worst(heard[Enforcer], outcome)
       IN  lr' = [lr EXCEPT ![Enforcer] =
                    CASE cleared = "ok" ->
                            [SetUnenforceable(@, FALSE)
                                EXCEPT !.unblock_pending = FALSE]
                      [] cleared = "structural" -> Abandon(@, TRUE)
                      [] OTHER -> @]
    /\ Goto(Enforcer, "enforce_realign")
    /\ UNCHANGED <<row, seen, heard, aborts, drop_rule, history>>

EnforceRealign(ok) ==
    /\ pc[Enforcer] = "enforce_realign"
    /\ ReconcileRouter(Enforcer, ok)
    /\ Goto(Enforcer, "commit")
    /\ UNCHANGED <<row, seen, heard, aborts, lrDevice, history>>

-----------------------------------------------------------------------------
(***************************************************************************)
(* The environment                                                         *)
(***************************************************************************)
\* A rebooted LR comes back with its port up and its iptables flushed.
LrReboot ==
    /\ port_down \/ wa_filter
    /\ port_down' = FALSE
    /\ wa_filter' = FALSE
    /\ UNCHANGED <<dbVars, pc, heard, aborts, drop_rule, history>>

\* client_block_abandon_retry_hours have passed since the LR was abandoned.
\* A copy already loaded keeps the age it had: the delay is hours, a pass
\* over one LR minutes.
RetryDelayPasses ==
    /\ row.unenforceable_since = "recent"
    /\ row' = [row EXCEPT !.unenforceable_since = "due"]
    /\ UNCHANGED <<lr, seen, pc, heard, aborts, lrDevice, drop_rule, history>>

\* An operator edits the credentials of the LR, the jobs that follow addresses
\* give it one or take it away.  A handler at work keeps what it loaded.
AccessChanges ==
    /\ \E reach \in Reaches \ {row.reach} : row' = [row EXCEPT !.reach = reach]
    /\ UNCHANGED <<lr, seen, pc, heard, aborts, lrDevice, drop_rule, history>>

\* A handler dies before its last commit: the container is restarted, or the
\* SSH session raises (ssh_service raises again whatever its watchdog did not
\* provoke).  What it had not committed is rolled back.
Abort(p) ==
    /\ aborts < MaxAborts
    /\ pc[p] # "idle"
    /\ aborts' = aborts + 1
    /\ Close(p)
    /\ UNCHANGED <<row, lrDevice, drop_rule, history>>

-----------------------------------------------------------------------------
Init ==
    /\ \E reach \in Reaches : row = [NewRow EXCEPT !.reach = reach]
    /\ lr = [p \in Procs |-> NewRow]
    /\ seen = [p \in Procs |-> NewRow]
    /\ pc = [p \in Procs |-> "idle"]
    /\ heard = [p \in Procs |-> "ok"]
    /\ port_down = FALSE
    /\ wa_filter = FALSE
    /\ drop_rule \in IF "unrecorded" \in Faults THEN BOOLEAN ELSE {FALSE}
    /\ cut_done = FALSE
    /\ told = FALSE
    /\ aborts = 0

BlockStep(p) ==
    \/ BlockRefused(p)
    \/ \E mode \in Modes : BlockIntent(p, mode)
    \/ \E outcome \in Outcomes : BlockNeutralize(p, outcome) \/ BlockAssert(p, outcome)
    \/ \E ok \in BOOLEAN : BlockUncover(p, ok) \/ BlockCover(p, ok)

UnblockStep(p) ==
    \/ UnblockIntent(p) \/ UnblockHandedOver(p)
    \/ \E ok \in BOOLEAN : UnblockWithoutSsh(p, ok) \/ UnblockRouter(p, ok)
    \/ \E outcome \in Outcomes : UnblockPort(p, outcome) \/ UnblockFilter(p, outcome)

EnforceStep ==
    \/ \E ok \in BOOLEAN : EnforceRouter(ok) \/ EnforceRealign(ok)
    \/ \E outcome \in Outcomes :
          EnforceAssert(outcome) \/ EnforcePort(outcome) \/ EnforceFilter(outcome)

Next ==
    \/ \E p \in Requests :
          \/ BlockRequest(p) \/ UnblockRequest(p) \/ UnblockRefused(p)
          \/ BlockStep(p) \/ UnblockStep(p)
    \/ EnforceStart
    \/ EnforceStep
    \/ \E p \in Procs : Commit(p) \/ Abort(p)
    \/ LrReboot
    \/ RetryDelayPasses
    \/ AccessChanges

Spec == Init /\ [][Next]_vars

(***************************************************************************)
(* A handler that has started goes on; the scheduler starts a pass every   *)
(* client_block_enforce_interval seconds; time passes.  The LR and the     *)
(* router may fail any number of times, but not for ever: an attempt that  *)
(* is repeated without end succeeds some time.                             *)
(***************************************************************************)
Fairness ==
    /\ \A p \in Requests : WF_vars(BlockStep(p) \/ UnblockStep(p))
    /\ \A p \in Procs : WF_vars(Commit(p))
    /\ SF_vars(EnforceStart)
    /\ WF_vars(EnforceStep)
    /\ WF_vars(RetryDelayPasses)
    /\ SF_vars(EnforceRouter(TRUE))
    /\ SF_vars(EnforceRealign(TRUE))
    /\ SF_vars(EnforceAssert("ok"))
    /\ SF_vars(EnforcePort("ok"))
    /\ SF_vars(heard[Enforcer] = "ok" /\ EnforceFilter("ok"))

FairSpec == Spec /\ Fairness

-----------------------------------------------------------------------------
(***************************************************************************)
(* Properties                                                              *)
(***************************************************************************)
RequestLabels ==
    {"idle", "block_intent", "block_neutralize", "block_assert", "block_uncover",
     "block_cover", "unblock_intent", "unblock_router", "unblock_port",
     "unblock_filter", "unblock_handed", "commit"}
EnforcerLabels ==
    {"idle", "enforce_router", "enforce_assert", "enforce_port",
     "enforce_filter", "enforce_realign", "commit"}

\* The shape of the state: rows keep flushed stamps only, every process is at
\* one of its own awaits.
TypeOK ==
    /\ row \in Rows
    /\ lr \in [Procs -> OrmObjects]
    /\ seen \in [Procs -> OrmObjects]
    /\ pc \in [Procs -> RequestLabels \cup EnforcerLabels]
    /\ \A p \in Requests : pc[p] \in RequestLabels
    /\ pc[Enforcer] \in EnforcerLabels
    /\ heard \in [Procs -> SshOutcomes]
    /\ port_down \in BOOLEAN
    /\ wa_filter \in BOOLEAN
    /\ drop_rule \in BOOLEAN
    /\ cut_done \in BOOLEAN
    /\ told \in BOOLEAN
    /\ aborts \in 0..MaxAborts

Quiet == \A p \in Procs : pc[p] = "idle"
OnLr == port_down \/ wa_filter
Cut == OnLr \/ drop_rule

\* A client whose LR is still cut is always in somebody's hands: when no handler
\* is at work, either enforce_blocked_clients selects his row, or the operator
\* has been told that the LR may still be cut, because the row had no
\* credentials when he lifted the order.  Otherwise nobody would ever lift it.
NothingForgotten == Quiet /\ OnLr => Selected(row) \/ told

\* When no handler is at work the row knows exactly whether the router cuts
\* this client: no orphan rule, no phantom one.  _reconcile_router relies on
\* it to call the router on transitions only.
RouterMirrored == Quiet => (row.router_blocked = drop_rule)

\* The row says "cut by the LR" (enforcement_state, shown to the payment
\* system) only if the LR confirmed a cut since the last lifted order.  It is
\* on this that desired_router_block withholds the router's cover.
EnforcedMeansCut == EnforcementState(row) = "lr" => cut_done

\* An order and the order it cancels are never both pending.
OneOrderAtATime == ~(row.client_blocked /\ row.unblock_pending)

\* _set_unenforceable: "Reason and timestamp must always move as a pair", the
\* row has an abandon date exactly when it has an abandon reason.
AbandonPaired == row.unenforceable <=> row.unenforceable_since # "null"

\* The job carries orders out and never gives any: whatever copy it works on,
\* its commits leave the operator's intent (and its flavour) as they find it.
IntentIsTheOperators ==
    [][pc[Enforcer] = "commit" /\ pc'[Enforcer] = "idle"
        => /\ row'.client_blocked = row.client_blocked
           /\ row'.block_mode = row.block_mode]_vars

\* A rule that the row still knows of when no handler is at work, and that no
\* order justifies any more, leaves the router, not only the row (the third
\* term of the job's query), unless the client is blocked again first.  A rule
\* that a handler posted before it died is not of those: no row knows it.
RecordedRuleWithdrawn ==
    (Quiet /\ row.router_blocked /\ ~row.client_blocked)
        ~> (~drop_rule \/ row.client_blocked)

NoMoreRequests == \A p \in Requests : pc[p] = "idle"

\* Once the last order has been to block and the LR can be reached, the client is
\* cut again and again, whatever the LR's reboots and refusals.
LastBlockPrevails ==
    <>[](NoMoreRequests /\ row.client_blocked /\ row.reach = "ssh") => []<>Cut

\* Once the last order has been to unblock, the client is restored for good,
\* provided his LR can be reached and the operator was not told to lift the
\* order again once it can.
LastUnblockPrevails ==
    <>[](NoMoreRequests /\ ~row.client_blocked /\ row.reach = "ssh" /\ ~told)
        => <>[]~Cut
=============================================================================
