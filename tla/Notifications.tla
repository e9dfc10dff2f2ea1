--------------------------- MODULE Notifications ---------------------------
(***************************************************************************)
(* Telling the WhatsApp group of incidents (notification_service.py,       *)
(* digest_service.py) from the passes that open and close them             *)
(* (_open_and_notify and _resolve_and_notify of jobs.py, the ping sweep,   *)
(* the alert engine).  A message leaves while the transaction of the pass  *)
(* is still open; the state of the channel lives in the process.           *)
(***************************************************************************)
EXTENDS AlertPolicy, Integers, FiniteSets

CONSTANTS
    Jobs,           \* passes that run side by side in one process
    Keys,           \* a device and a type of alert each
    Type,           \* the type of a key
    Owner,          \* the job that decides on a key
    Overrides,      \* the policy_overrides of the device of a key
    Looks,          \* what a pass may find: "fine", "warning", "critical"
    Sent,           \* the types that are sent
    None,
    MaxFailures,    \* _MAX_CONSECUTIVE_FAILURES
    Cooldown,       \* _CHANNEL_COOLDOWN_S, in ticks
    MaxAborts       \* bound on rolled back passes and restarts

VARIABLES
    incidents,      \* committed open incident of a key, or None
    pass,           \* what a running pass has left, written and is sending
    digest,         \* what the digest has collected, or None
    channel,        \* ticks of cool-down left, failures in a row
    said,           \* history: the last message tried about a key
    torn,           \* history: keys told of by a pass that was then undone
    hung,           \* history: deliveries cut off since the last cool-down
    aborts
vars == <<incidents, pass, digest, channel, said, torn, hung, aborts>>

Policy(k) == get_policy_for_device(Type[k], Overrides[k])

Init ==
    /\ incidents = [k \in Keys |-> None]
    /\ pass = [j \in Jobs |-> None]
    /\ digest = None
    /\ channel = [cooling |-> 0, streak |-> 0]
    /\ said = [k \in Keys |-> None]
    /\ torn = {}
    /\ hung = 0
    /\ aborts = 0
-----------------------------------------------------------------------------
Mine(j) == {k \in Keys : Owner[k] = j}

Start(j) ==
    /\ pass[j] = None
    /\ pass' = [pass EXCEPT ![j] = [left |-> Mine(j), rows |-> [k \in Mine(j) |-> incidents[k]],
                                  told |-> {}, sending |-> None]]
    /\ UNCHANGED <<incidents, digest, channel, said, torn, hung, aborts>>

\* open_incident and resolve_incidents: the row a finding leaves.
Fresh(severity) == [opened |-> severity, severity |-> severity, digested |-> FALSE]
RowAfter(row, seen) ==
    IF seen = "fine" THEN None
    ELSE IF row = None THEN Fresh(seen)
    ELSE IF seen = "critical" THEN [row EXCEPT !.severity = "critical"]
    ELSE row

\* Mutant: the end of an incident is not announced.
EventOfOpening(row, seen) == IF row = None /\ seen # "fine" THEN "opened" ELSE None
\* Only a new incident and the end of one are told.
EventOf(row, seen) ==
    IF row = None /\ seen # "fine" THEN "opened"
    ELSE IF row # None /\ seen = "fine" THEN "resolved"
    ELSE None

\* The gates of _dispatch before the channel.
Gated(k, event, severity) ==
    \/ Type[k] \notin Sent
    \/ Deferred(Policy(k), severity, event)
    \/ ~should_notify("whatsapp", Policy(k), severity, event)

\* Mutant: a channel that just hung is tried again at once.
CoolingNever == FALSE
Cooling == channel.cooling > 0

\* One key of the pass: its row, and the fate of its message up to the wait.
Look(j, k, seen) ==
    LET p == pass[j]  row == p.rows[k]  event == EventOf(row, seen)
        severity == IF seen = "fine" THEN row.severity ELSE seen
        quiet == event = None \/ Gated(k, event, severity)
    IN  /\ p # None /\ p.sending = None /\ k \in p.left
        /\ pass' = [pass EXCEPT ![j].left = @ \ {k},
                                ![j].rows[k] = RowAfter(row, seen),
                                ![j].told = IF quiet THEN @ ELSE @ \union {k},
                                ![j].sending = IF quiet \/ Cooling THEN None ELSE <<k, event>>]
        /\ said' = IF ~quiet /\ Cooling THEN [said EXCEPT ![k] = event] ELSE said
        /\ UNCHANGED <<incidents, digest, channel, torn, hung, aborts>>

(* The end of a delivery: a failed one, cut off or refused, lengthens the  *)
(* streak.  Neither is tried again.                                        *)
Streaked(ok, cutOff) ==
    IF ok THEN [channel EXCEPT !.streak = 0]
    ELSE IF channel.streak + 1 >= MaxFailures THEN [cooling |-> Cooldown, streak |-> 0]
    ELSE [cooling |-> IF cutOff THEN Cooldown ELSE channel.cooling, streak |-> channel.streak + 1]

Delivered(j, outcome) ==
    /\ pass[j] # None /\ pass[j].sending # None
    /\ pass' = [pass EXCEPT ![j].sending = None]
    /\ said' = [said EXCEPT ![pass[j].sending[1]] = pass[j].sending[2]]
    /\ channel' = Streaked(outcome = "ok", outcome = "hang")
    /\ hung' = IF outcome = "hang" THEN hung + 1 ELSE hung
    /\ UNCHANGED <<incidents, digest, torn, aborts>>

Accepted(j) == Delivered(j, "ok")
Refused(j) == Delivered(j, "no")
CutOff(j) == Delivered(j, "hang")

\* The rows of the pass are written; a mark of the digest stays.
Kept(row, current) ==
    IF row = None \/ current = None THEN row ELSE [row EXCEPT !.digested = current.digested]

Commit(j) ==
    /\ pass[j] # None /\ pass[j].left = {} /\ pass[j].sending = None
    /\ incidents' = [k \in Keys |-> IF k \in Mine(j) THEN Kept(pass[j].rows[k], incidents[k]) ELSE incidents[k]]
    /\ digest' = IF digest = None THEN None
                 ELSE [digest EXCEPT !.gone = @ \/ \E k \in digest.items \intersect Mine(j) : pass[j].rows[k] = None]
    /\ pass' = [pass EXCEPT ![j] = None]
    /\ UNCHANGED <<channel, said, torn, hung, aborts>>

\* The transaction is rolled back, as by a deadlock; the replay looks anew.
Rollback(j) ==
    /\ pass[j] # None /\ pass[j].sending = None /\ aborts < MaxAborts
    /\ aborts' = aborts + 1
    /\ pass' = [pass EXCEPT ![j] = None]
    /\ torn' = torn \union pass[j].told
    /\ UNCHANGED <<incidents, digest, channel, said, hung>>

\* The process is killed: its passes, its digest and its cool-down are gone.
Restart ==
    /\ aborts < MaxAborts
    /\ aborts' = aborts + 1
    /\ pass' = [j \in Jobs |-> None] /\ digest' = None
    /\ channel' = [cooling |-> 0, streak |-> 0] /\ hung' = 0
    /\ torn' = torn \union UNION {pass[j].told : j \in {i \in Jobs : pass[i] # None}}
    /\ UNCHANGED <<incidents, said>>
-----------------------------------------------------------------------------
Collected(k, row) ==
    /\ row.severity = "warning" /\ ~row.digested
    /\ Type[k] \in Sent /\ Digestible(Type[k], Overrides[k])

Items == {k \in Keys : incidents[k] # None /\ Collected(k, incidents[k])}

DigestStart ==
    /\ digest = None /\ Items # {}
    /\ "whatsapp" \in UNION {Policy(k).channels : k \in Items}
    /\ digest' = [items |-> Items, gone |-> FALSE]
    /\ UNCHANGED <<incidents, pass, channel, said, torn, hung, aborts>>

(* The mark is set on all or on none: a row deleted meanwhile makes the    *)
(* update of the others fail.  The channel's cool-down is not asked.       *)
DigestEnd ==
    \E ok \in BOOLEAN :
        /\ digest # None
        /\ incidents' = [k \in Keys |->
               IF ok /\ ~digest.gone /\ k \in digest.items
               THEN [incidents[k] EXCEPT !.digested = TRUE] ELSE incidents[k]]
        /\ digest' = None
        /\ UNCHANGED <<pass, channel, said, torn, hung, aborts>>

(* Time.  A delivery is cut off long before the cool-down it fell in ends. *)
Tick ==
    /\ channel.cooling > 0
    /\ channel.cooling = 1 => {j \in Jobs : pass[j] # None /\ pass[j].sending # None} = {}
    /\ channel' = [channel EXCEPT !.cooling = @ - 1]
    /\ hung' = IF channel.cooling = 1 THEN 0 ELSE hung
    /\ UNCHANGED <<incidents, pass, digest, said, torn, aborts>>

Next ==
    \/ \E j \in Jobs :
          \/ Start(j)
          \/ \E k \in Keys, seen \in {"fine", "warning", "critical"} : seen \in Looks[k] /\ Look(j, k, seen)
          \/ Accepted(j) \/ Refused(j) \/ CutOff(j)
          \/ Commit(j) \/ Rollback(j)
    \/ DigestStart \/ DigestEnd
    \/ Tick \/ Restart

Spec == Init /\ [][Next]_vars
-----------------------------------------------------------------------------
Told(k, event) == said[k] = event

\* What the table and the group know of a key agree, but for what the
\* channel lost: an open incident of a type that is sent was announced, or is
\* the digest's, and no closed one is the last thing said, unless its policy
\* says nothing of ends.
Agreed(k) ==
    IF incidents[k] = None
    THEN Told(k, "opened") => ~Policy(k).recovery_notification
    ELSE LET row == incidents[k] IN
         IF Deferred(Policy(k), row.opened, "opened")
         THEN row.severity = "critical" \/ row.digested \/ k \in Items
         ELSE Told(k, "opened")

\* Between passes the group knows what the table holds, unless a pass that
\* had told of a key was undone (is_new, the gates of _dispatch, the digest).
NobodyInTheDark ==
    \A k \in Keys \ torn : pass[Owner[k]] = None /\ Type[k] \in Sent => Agreed(k)

\* The same after every pass that ends, whatever passes were undone before:
\* replaying a pass is meant to leave what the pass would have left.
ReplayIsHarmless ==
    [][\A j \in Jobs : pass[j] # None /\ pass'[j] = None /\ aborts' = aborts =>
          \A k \in Mine(j) : Type[k] \in Sent => Agreed(k)']_vars

\* A dead channel costs each pass at most one wait until it has cooled
\* down, however many incidents open in one loop (_dispatch's cool-down).
HangsAreFew == hung <= Cardinality(Jobs)

=============================================================================
