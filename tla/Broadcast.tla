----------------------------- MODULE Broadcast -----------------------------
(***************************************************************************)
(* One WhatsApp message to many subscribers                                *)
(* (src/backend/app/services/client_broadcast_service.py).                 *)
(*                                                                         *)
(* A request of the API creates a broadcast with its recipients, stops it, *)
(* or puts its failures back in the queue.  One job empties the queue, one *)
(* recipient at a time, in passes that each have a session and a budget.   *)
(* A request is a transaction of several statements: what it has updated   *)
(* is locked until it commits, and what it has read may have changed.      *)
(*                                                                         *)
(* Operators whose comment starts with "Mutant" change the definition that *)
(* follows the way a bug in its code would; no behaviour of Spec uses them.*)
(***************************************************************************)
EXTENDS Integers

CONSTANTS
    Broadcasts,   \* ids of the rows of client_broadcasts
    Phones,       \* the subscribers' numbers, in the order of their LRs
    NoBroadcast,  \* stands for no row
    Requests,     \* API requests that may be under way at the same time
    MaxAborts     \* bound: passes of the job that die

ASSUME IdsAssumption == Broadcasts \subseteq Nat /\ Phones \subseteq Nat
ASSUME NoBroadcastAssumption == NoBroadcast \notin Broadcasts
ASSUME MaxAbortsAssumption == MaxAborts \in Nat

VARIABLES
    status,   \* status[b]: what the row of b says
    rcpt,     \* rcpt[b][ph]: what the row of recipient ph of b says
    pc,       \* pc[r]: the next step of request r
    target,   \* target[r]: the broadcast that r works on
    touched,  \* touched[r]: recipients that r has updated and not committed
    pass,     \* where the pass of the job is
    current,  \* the recipient that the session of the pass loaded last
    aborts    \* how many passes have died

tables == <<status, rcpt>>
requests == <<pc, target, touched>>
job == <<pass, current>>
vars == <<status, rcpt, pc, target, touched, pass, current, aborts>>

BroadcastStatuses == {"absent", "running", "done", "cancelled"}
RecipientStatuses == {"none", "pending", "sent", "failed", "cancelled"}

Running == {b \in Broadcasts : status[b] = "running"}
Marked(b, s) == {ph \in Phones : rcpt[b][ph] = s}

\* The recipients phs of b, and no others, become s.
Mark(b, phs, s) ==
    rcpt' = [rcpt EXCEPT ![b] = [ph \in Phones |-> IF ph \in phs THEN s ELSE rcpt[b][ph]]]

-----------------------------------------------------------------------------
(***************************************************************************)
(* Requests                                                                *)
(***************************************************************************)
Start(r, label, b) ==
    /\ pc[r] = "idle"
    /\ pc' = [pc EXCEPT ![r] = label]
    /\ target' = [target EXCEPT ![r] = b]
    /\ UNCHANGED <<tables, touched, job, aborts>>

Finish(r) ==
    /\ pc' = [pc EXCEPT ![r] = "idle"]
    /\ target' = [target EXCEPT ![r] = NoBroadcast]
    /\ touched' = [touched EXCEPT ![r] = {}]

\* An UPDATE waits for the rows it selects that another transaction holds.
Unlocked(r, b, phs) ==
    \A q \in Requests \ {r} : target[q] = b => touched[q] \cap phs = {}

\* Ids that no broadcast has and no request under way has been given.
Fresh == {b \in Broadcasts : status[b] = "absent" /\ \A q \in Requests : target[q] # b}

\* create_broadcast refuses while a broadcast is running.
CreateCheck(r, b) ==
    /\ Running = {}
    /\ b \in Fresh /\ \A c \in Fresh : b <= c
    /\ Start(r, "create_commit", b)

\* The audience is what the categories and the names of the LRs make of it;
\* it is never empty.
CreateCommit(r, audience) ==
    /\ pc[r] = "create_commit"
    /\ audience # {}
    /\ status' = [status EXCEPT ![target[r]] = "running"]
    /\ Mark(target[r], audience, "pending")
    /\ Finish(r)
    /\ UNCHANGED <<job, aborts>>

\* retry_failed refuses while any broadcast is running.
RetryCheck(r, b) ==
    /\ status[b] # "absent"
    /\ Running = {}
    /\ Start(r, "retry_update", b)

\* Mutant: what a stop has cancelled is put back in the queue as well.
RetriedStopped(b) == Marked(b, "failed") \cup Marked(b, "cancelled")

Retried(b) == Marked(b, "failed")

RetryUpdate(r) ==
    LET phs == Retried(target[r])
    IN  /\ pc[r] = "retry_update"
        /\ IF phs = {}
           THEN Finish(r)
           ELSE /\ Unlocked(r, target[r], phs)
                /\ touched' = [touched EXCEPT ![r] = phs]
                /\ pc' = [pc EXCEPT ![r] = "retry_commit"]
                /\ UNCHANGED target
        /\ UNCHANGED <<tables, job, aborts>>

RetryCommit(r) ==
    /\ pc[r] = "retry_commit"
    /\ status' = [status EXCEPT ![target[r]] = "running"]
    /\ Mark(target[r], touched[r], "pending")
    /\ Finish(r)
    /\ UNCHANGED <<job, aborts>>

\* cancel refuses a broadcast that is not running.
CancelCheck(r, b) ==
    /\ status[b] = "running"
    /\ Start(r, "cancel_update", b)

CancelUpdate(r) ==
    LET phs == Marked(target[r], "pending")
    IN  /\ pc[r] = "cancel_update"
        /\ Unlocked(r, target[r], phs)
        /\ touched' = [touched EXCEPT ![r] = phs]
        /\ pc' = [pc EXCEPT ![r] = "cancel_commit"]
        /\ UNCHANGED <<tables, target, job, aborts>>

\* Mutant: only the broadcast is stopped.
CancelStatusOnly(r) ==
    /\ pc[r] = "cancel_commit"
    /\ status' = [status EXCEPT ![target[r]] = "cancelled"]
    /\ Finish(r)
    /\ UNCHANGED <<rcpt, job, aborts>>

CancelCommit(r) ==
    /\ pc[r] = "cancel_commit"
    /\ status' = [status EXCEPT ![target[r]] = "cancelled"]
    /\ Mark(target[r], touched[r], "cancelled")
    /\ Finish(r)
    /\ UNCHANGED <<job, aborts>>

-----------------------------------------------------------------------------
(***************************************************************************)
(* process_queue, run by client_broadcast_job (max_instances=1)            *)
(***************************************************************************)
Nobody == [b |-> NoBroadcast, ph |-> 0, status |-> "none"]

\* _finish_drained
FinishDrained ==
    status' = [b \in Broadcasts |->
                IF b \in Running /\ Marked(b, "pending") = {} THEN "done" ELSE status[b]]

EndPass ==
    /\ pass' = "idle"
    /\ current' = Nobody

PassStart ==
    /\ pass = "idle"
    /\ FinishDrained
    /\ pass' = "select"
    /\ UNCHANGED <<rcpt, requests, current, aborts>>

\* The queue, over all the broadcasts that are running.
Queue == {e \in Broadcasts \X Phones : e[1] \in Running /\ rcpt[e[1]][e[2]] = "pending"}
Before(e, f) == e[1] < f[1] \/ (e[1] = f[1] /\ e[2] <= f[2])

(***************************************************************************)
(* The SELECT of the loop finds the row by its state in the database.  But *)
(* a session that still holds the object of that row returns this object   *)
(* as it is (no populate_existing): so it does when the recipient is the   *)
(* one of the previous turn, which the loop's variable still refers to.    *)
(***************************************************************************)
Loaded(b, ph) ==
    IF current.b = b /\ current.ph = ph THEN current
    ELSE [b |-> b, ph |-> ph, status |-> "pending"]

PassSend(b, ph) ==
    /\ pass = "select"
    /\ <<b, ph>> \in Queue /\ \A e \in Queue : Before(<<b, ph>>, e)
    /\ pass' = "sending"
    /\ current' = Loaded(b, ph)
    /\ UNCHANGED <<tables, requests, aborts>>

PassDrained ==
    /\ pass = "select"
    /\ Queue = {}
    /\ FinishDrained
    /\ EndPass
    /\ UNCHANGED <<rcpt, requests, aborts>>

\* Mutant: a failure waits for the next turn.
ResultOrWait(ok) == IF ok THEN "sent" ELSE "pending"

Result(ok) == IF ok THEN "sent" ELSE "failed"

\* The answer of Ultramsg.  A failure may be a lost answer.  The status goes
\* to the row only if it differs from the one that was loaded.
PassRecord(ok) ==
    LET b == current.b
        ph == current.ph
    IN  /\ pass = "sending"
        /\ \A q \in Requests : target[q] = b => ph \notin touched[q]
        /\ rcpt' = IF Result(ok) # current.status
                   THEN [rcpt EXCEPT ![b][ph] = Result(ok)]
                   ELSE rcpt
        /\ current' = [current EXCEPT !.status = Result(ok)]
        /\ pass' = "pause"
        /\ UNCHANGED <<status, requests, aborts>>

\* Within the budget: a pause, then the next turn.
PassResume ==
    /\ pass = "pause"
    /\ pass' = "select"
    /\ UNCHANGED <<tables, requests, current, aborts>>

\* Past the budget.
PassEnd ==
    /\ pass = "pause"
    /\ FinishDrained
    /\ EndPass
    /\ UNCHANGED <<rcpt, requests, aborts>>

\* The scheduler is restarted, or the pass raises.  The message in flight, if
\* there is one, has left or has not.
PassDies ==
    /\ aborts < MaxAborts
    /\ pass # "idle"
    /\ aborts' = aborts + 1
    /\ EndPass
    /\ UNCHANGED <<tables, requests>>

-----------------------------------------------------------------------------
Init ==
    /\ status = [b \in Broadcasts |-> "absent"]
    /\ rcpt = [b \in Broadcasts |-> [ph \in Phones |-> "none"]]
    /\ pc = [r \in Requests |-> "idle"]
    /\ target = [r \in Requests |-> NoBroadcast]
    /\ touched = [r \in Requests |-> {}]
    /\ pass = "idle"
    /\ current = Nobody
    /\ aborts = 0

RequestStep(r) ==
    \/ \E audience \in SUBSET Phones : CreateCommit(r, audience)
    \/ RetryUpdate(r) \/ RetryCommit(r)
    \/ CancelUpdate(r) \/ CancelCommit(r)

PassStep ==
    \/ PassStart
    \/ \E b \in Broadcasts, ph \in Phones : PassSend(b, ph)
    \/ PassDrained
    \/ \E ok \in BOOLEAN : PassRecord(ok)
    \/ PassResume
    \/ PassEnd

Next ==
    \/ \E r \in Requests :
          \/ RequestStep(r)
          \/ \E b \in Broadcasts : CreateCheck(r, b) \/ RetryCheck(r, b) \/ CancelCheck(r, b)
    \/ PassStep
    \/ PassDies

Spec == Init /\ [][Next]_vars

\* A request that has begun ends; the job runs again at each interval, and no
\* pass outlives its budget.  Nothing is assumed of WhatsApp's answers.
Fairness ==
    /\ \A r \in Requests : WF_vars(RequestStep(r))
    /\ WF_vars(PassStep)
    /\ SF_vars(PassEnd)

FairSpec == Spec /\ Fairness

-----------------------------------------------------------------------------
(***************************************************************************)
(* Properties                                                              *)
(***************************************************************************)
RequestLabels ==
    {"idle", "create_commit", "retry_update", "retry_commit", "cancel_update",
     "cancel_commit"}

\* The shape of the state.
TypeOK ==
    /\ status \in [Broadcasts -> BroadcastStatuses]
    /\ rcpt \in [Broadcasts -> [Phones -> RecipientStatuses]]
    /\ pc \in [Requests -> RequestLabels]
    /\ target \in [Requests -> Broadcasts \cup {NoBroadcast}]
    /\ touched \in [Requests -> SUBSET Phones]
    /\ pass \in {"idle", "select", "sending", "pause"}
    /\ current \in [b: Broadcasts, ph: Phones, status: RecipientStatuses] \cup {Nobody}
    /\ aborts \in 0..MaxAborts

\* One broadcast at a time: a double click, or two operators at the same
\* moment, would send two messages to each client (create_broadcast).
OneAtATime == \A b, c \in Running : b = c

\* A broadcast that is over has nobody left in its queue: process_queue only
\* looks at those that are running, nobody else would ever be served.
NobodyWaitsInVain ==
    \A b \in Broadcasts : status[b] # "running" => Marked(b, "pending") = {}

\* What is sent stays sent, and what a stop has cancelled stays cancelled,
\* except for the message that was in flight: a retry is for failures only.
SettledStays ==
    [][\A b \in Broadcasts, ph \in Phones :
        /\ rcpt[b][ph] = "sent" => rcpt'[b][ph] = "sent"
        /\ rcpt[b][ph] = "cancelled" /\ rcpt'[b][ph] # "cancelled"
              => pass = "sending" /\ current.b = b /\ current.ph = ph]_vars

\* Every attempt leaves its result in the row of its recipient before the next
\* one: nobody is sent the same message again until he is retried on purpose.
AttemptsRecorded ==
    [][pass = "sending" /\ pass' = "pause"
        => rcpt'[current.b][current.ph] \in {"sent", "failed"}]_vars

\* Whoever is in the queue of a broadcast gets his turn, whatever becomes of
\* the messages before his.
EveryoneServed ==
    \A b \in Broadcasts, ph \in Phones :
        rcpt[b][ph] = "pending" ~> rcpt[b][ph] # "pending"
=============================================================================
