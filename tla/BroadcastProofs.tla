-------------------------- MODULE BroadcastProofs --------------------------
(***************************************************************************)
(* What holds of the queue of messages for every set of broadcasts, of     *)
(* numbers and of concurrent requests, and any number of dying passes.     *)
(***************************************************************************)
EXTENDS Broadcast, TLAPS

(***************************************************************************)
(* What makes SettledStays inductive, for any number of requests           *)
(***************************************************************************)
\* A broadcast that is not created has no recipient.
AbsentIsEmpty ==
    \A b \in Broadcasts : status[b] = "absent" => \A ph \in Phones : rcpt[b][ph] = "none"

\* A request about to create has an id of its own; the others have a broadcast.
IdsAreOwn ==
    \A r \in Requests :
        /\ pc[r] # "idle" => target[r] \in Broadcasts
        /\ pc[r] = "create_commit" =>
              /\ status[target[r]] = "absent"
              /\ \A q \in Requests \ {r} : target[q] # target[r]
        /\ pc[r] \in RequestLabels \ {"idle", "create_commit"} => status[target[r]] # "absent"

\* What a request has updated stays, until it commits, what it was then.
LocksHold ==
    \A r \in Requests :
        /\ pc[r] = "retry_commit" => touched[r] \subseteq Marked(target[r], "failed")
        /\ pc[r] = "cancel_commit" => touched[r] \subseteq Marked(target[r], "pending")

\* And two requests do not hold the same row.
LocksDisjoint ==
    \A r, q \in Requests :
        r # q /\ target[r] = target[q] => touched[r] \cap touched[q] = {}

\* Only a request about to commit an update holds rows.
OnlyWritersLock ==
    \A r \in Requests : pc[r] \notin {"retry_commit", "cancel_commit"} => touched[r] = {}

\* The recipient of the message in flight is in the queue, or was stopped.
InFlight ==
    pass = "sending" =>
        /\ current.b \in Broadcasts /\ current.ph \in Phones
        /\ status[current.b] # "absent"
        /\ rcpt[current.b][current.ph] \in {"pending", "cancelled"}

IInv ==
    /\ TypeOK
    /\ AbsentIsEmpty
    /\ IdsAreOwn
    /\ LocksHold
    /\ LocksDisjoint
    /\ OnlyWritersLock
    /\ InFlight

-----------------------------------------------------------------------------
\* Marking recipients of a broadcast keeps the table well-formed.
LEMMA MarkTyped ==
  ASSUME TypeOK, NEW b, NEW phs, NEW s \in RecipientStatuses, Mark(b, phs, s)
  PROVE  rcpt' \in [Broadcasts -> [Phones -> RecipientStatuses]]
<1>1. ASSUME b \in Broadcasts
      PROVE  [ph \in Phones |-> IF ph \in phs THEN s ELSE rcpt[b][ph]]
                \in [Phones -> RecipientStatuses]
  BY <1>1 DEF TypeOK
<1>2. QED
  BY <1>1 DEF TypeOK, Mark

\* The shape of the state survives every step.
LEMMA TypeKept == IInv /\ [Next]_vars => TypeOK'
<1> SUFFICES ASSUME IInv, [Next]_vars PROVE TypeOK'
    OBVIOUS
<1> USE IdsAssumption, NoBroadcastAssumption, MaxAbortsAssumption
<1> USE DEF IInv, TypeOK, BroadcastStatuses, RecipientStatuses, RequestLabels
<1>1. ASSUME NEW r \in Requests, NEW b \in Broadcasts, CreateCheck(r, b) PROVE TypeOK'
    BY <1>1 DEF CreateCheck, Start, tables, job
<1>2. ASSUME NEW r \in Requests, NEW audience \in SUBSET Phones, CreateCommit(r, audience)
      PROVE  TypeOK'
    BY MarkTyped, <1>2 DEF CreateCommit, Finish, job
<1>3. ASSUME NEW r \in Requests, NEW b \in Broadcasts, RetryCheck(r, b) PROVE TypeOK'
    BY <1>3 DEF RetryCheck, Start, tables, job
<1>4. ASSUME NEW r \in Requests, RetryUpdate(r) PROVE TypeOK'
    BY <1>4 DEF RetryUpdate, Retried, Finish, Marked, tables, job
<1>5. ASSUME NEW r \in Requests, RetryCommit(r) PROVE TypeOK'
    BY MarkTyped, <1>5 DEF RetryCommit, Finish, job
<1>6. ASSUME NEW r \in Requests, NEW b \in Broadcasts, CancelCheck(r, b) PROVE TypeOK'
    BY <1>6 DEF CancelCheck, Start, tables, job
<1>7. ASSUME NEW r \in Requests, CancelUpdate(r) PROVE TypeOK'
    BY <1>7 DEF CancelUpdate, Marked, tables, job
<1>8. ASSUME NEW r \in Requests, CancelCommit(r) PROVE TypeOK'
    BY MarkTyped, <1>8 DEF CancelCommit, Finish, job
<1>9. ASSUME PassStart PROVE TypeOK'
    BY <1>9 DEF PassStart, FinishDrained, requests
<1>10. ASSUME NEW b \in Broadcasts, NEW ph \in Phones, PassSend(b, ph) PROVE TypeOK'
    BY <1>10 DEF PassSend, Loaded, tables, requests
<1>11. ASSUME PassDrained PROVE TypeOK'
    BY <1>11 DEF PassDrained, FinishDrained, EndPass, requests
<1>12. ASSUME NEW ok \in BOOLEAN, PassRecord(ok) PROVE TypeOK'
    BY <1>12 DEF PassRecord, Result, InFlight, Nobody, requests
<1>13. ASSUME PassResume PROVE TypeOK'
    BY <1>13 DEF PassResume, tables, requests
<1>14. ASSUME PassEnd PROVE TypeOK'
    BY <1>14 DEF PassEnd, FinishDrained, EndPass, requests
<1>15. ASSUME PassDies PROVE TypeOK'
    BY <1>15 DEF PassDies, EndPass, tables, requests
<1>16. CASE UNCHANGED vars
    BY <1>16 DEF vars
<1> QED
    BY <1>1, <1>2, <1>3, <1>4, <1>5, <1>6, <1>7, <1>8, <1>9, <1>10, <1>11,
       <1>12, <1>13, <1>14, <1>15, <1>16 DEF Next, RequestStep, PassStep

\* Recipients come with their broadcast, in one commit.
LEMMA AbsentKept == IInv /\ [Next]_vars => AbsentIsEmpty'
<1> SUFFICES ASSUME IInv, [Next]_vars PROVE AbsentIsEmpty'
    OBVIOUS
<1> USE IdsAssumption, NoBroadcastAssumption, MaxAbortsAssumption
<1> USE DEF IInv, TypeOK, BroadcastStatuses, RecipientStatuses, RequestLabels
<1>1. ASSUME NEW r \in Requests, NEW b \in Broadcasts, CreateCheck(r, b)
      PROVE  AbsentIsEmpty'
    BY <1>1 DEF CreateCheck, Start, AbsentIsEmpty, tables
<1>2. ASSUME NEW r \in Requests, NEW audience \in SUBSET Phones, CreateCommit(r, audience)
      PROVE  AbsentIsEmpty'
    BY <1>2 DEF CreateCommit, Mark, AbsentIsEmpty
<1>3. ASSUME NEW r \in Requests, NEW b \in Broadcasts, RetryCheck(r, b) PROVE AbsentIsEmpty'
    BY <1>3 DEF RetryCheck, Start, AbsentIsEmpty, tables
<1>4. ASSUME NEW r \in Requests, RetryUpdate(r) PROVE AbsentIsEmpty'
    BY <1>4 DEF RetryUpdate, AbsentIsEmpty, tables
<1>5. ASSUME NEW r \in Requests, RetryCommit(r) PROVE AbsentIsEmpty'
    BY <1>5 DEF RetryCommit, Mark, AbsentIsEmpty
<1>6. ASSUME NEW r \in Requests, NEW b \in Broadcasts, CancelCheck(r, b)
      PROVE  AbsentIsEmpty'
    BY <1>6 DEF CancelCheck, Start, AbsentIsEmpty, tables
<1>7. ASSUME NEW r \in Requests, CancelUpdate(r) PROVE AbsentIsEmpty'
    BY <1>7 DEF CancelUpdate, AbsentIsEmpty, tables
<1>8. ASSUME NEW r \in Requests, CancelCommit(r) PROVE AbsentIsEmpty'
    BY <1>8 DEF CancelCommit, Mark, AbsentIsEmpty
<1>9. ASSUME PassStart PROVE AbsentIsEmpty'
    BY <1>9 DEF PassStart, FinishDrained, AbsentIsEmpty
<1>10. ASSUME NEW b \in Broadcasts, NEW ph \in Phones, PassSend(b, ph) PROVE AbsentIsEmpty'
    BY <1>10 DEF PassSend, AbsentIsEmpty, tables
<1>11. ASSUME PassDrained PROVE AbsentIsEmpty'
    BY <1>11 DEF PassDrained, FinishDrained, AbsentIsEmpty
<1>12. ASSUME NEW ok \in BOOLEAN, PassRecord(ok) PROVE AbsentIsEmpty'
    BY <1>12 DEF PassRecord, AbsentIsEmpty, InFlight
<1>13. ASSUME PassResume PROVE AbsentIsEmpty'
    BY <1>13 DEF PassResume, AbsentIsEmpty, tables
<1>14. ASSUME PassEnd PROVE AbsentIsEmpty'
    BY <1>14 DEF PassEnd, FinishDrained, AbsentIsEmpty
<1>15. ASSUME PassDies PROVE AbsentIsEmpty'
    BY <1>15 DEF PassDies, AbsentIsEmpty, tables
<1>16. CASE UNCHANGED vars
    BY <1>16 DEF vars, AbsentIsEmpty
<1> QED
    BY <1>1, <1>2, <1>3, <1>4, <1>5, <1>6, <1>7, <1>8, <1>9, <1>10, <1>11,
       <1>12, <1>13, <1>14, <1>15, <1>16 DEF Next, RequestStep, PassStep

\* A check reserves its id; other requests work on broadcasts that exist.
LEMMA IdsKept == IInv /\ [Next]_vars => IdsAreOwn'
<1> SUFFICES ASSUME IInv, [Next]_vars PROVE IdsAreOwn'
    OBVIOUS
<1> USE IdsAssumption, NoBroadcastAssumption, MaxAbortsAssumption
<1> USE DEF IInv, TypeOK, BroadcastStatuses, RecipientStatuses, RequestLabels
<1>1. ASSUME NEW r \in Requests, NEW b \in Broadcasts, CreateCheck(r, b) PROVE IdsAreOwn'
    BY <1>1 DEF CreateCheck, Start, Fresh, IdsAreOwn, tables
<1>2. ASSUME NEW r \in Requests, NEW audience \in SUBSET Phones, CreateCommit(r, audience)
      PROVE  IdsAreOwn'
    BY <1>2 DEF CreateCommit, Finish, IdsAreOwn
<1>3. ASSUME NEW r \in Requests, NEW b \in Broadcasts, RetryCheck(r, b) PROVE IdsAreOwn'
    BY <1>3 DEF RetryCheck, Start, IdsAreOwn, tables
<1>4. ASSUME NEW r \in Requests, RetryUpdate(r) PROVE IdsAreOwn'
    BY <1>4 DEF RetryUpdate, Finish, IdsAreOwn, tables
<1>5. ASSUME NEW r \in Requests, RetryCommit(r) PROVE IdsAreOwn'
    BY <1>5 DEF RetryCommit, Finish, IdsAreOwn
<1>6. ASSUME NEW r \in Requests, NEW b \in Broadcasts, CancelCheck(r, b) PROVE IdsAreOwn'
    BY <1>6 DEF CancelCheck, Start, IdsAreOwn, tables
<1>7. ASSUME NEW r \in Requests, CancelUpdate(r) PROVE IdsAreOwn'
    BY <1>7 DEF CancelUpdate, IdsAreOwn, tables
<1>8. ASSUME NEW r \in Requests, CancelCommit(r) PROVE IdsAreOwn'
    BY <1>8 DEF CancelCommit, Finish, IdsAreOwn
<1>9. ASSUME PassStart PROVE IdsAreOwn'
    BY <1>9 DEF PassStart, FinishDrained, Running, IdsAreOwn, requests
<1>10. ASSUME NEW b \in Broadcasts, NEW ph \in Phones, PassSend(b, ph) PROVE IdsAreOwn'
    BY <1>10 DEF PassSend, IdsAreOwn, tables, requests
<1>11. ASSUME PassDrained PROVE IdsAreOwn'
    BY <1>11 DEF PassDrained, FinishDrained, Running, IdsAreOwn, requests
<1>12. ASSUME NEW ok \in BOOLEAN, PassRecord(ok) PROVE IdsAreOwn'
    BY <1>12 DEF PassRecord, IdsAreOwn, requests
<1>13. ASSUME PassResume PROVE IdsAreOwn'
    BY <1>13 DEF PassResume, IdsAreOwn, tables, requests
<1>14. ASSUME PassEnd PROVE IdsAreOwn'
    BY <1>14 DEF PassEnd, FinishDrained, Running, IdsAreOwn, requests
<1>15. ASSUME PassDies PROVE IdsAreOwn'
    BY <1>15 DEF PassDies, IdsAreOwn, tables, requests
<1>16. CASE UNCHANGED vars
    BY <1>16 DEF vars, IdsAreOwn
<1> QED
    BY <1>1, <1>2, <1>3, <1>4, <1>5, <1>6, <1>7, <1>8, <1>9, <1>10, <1>11,
       <1>12, <1>13, <1>14, <1>15, <1>16 DEF Next, RequestStep, PassStep

\* No commit of another disturbs the rows that a request holds.
LEMMA LocksKept == IInv /\ [Next]_vars => LocksHold'
<1> SUFFICES ASSUME IInv, [Next]_vars PROVE LocksHold'
    OBVIOUS
<1> USE IdsAssumption, NoBroadcastAssumption, MaxAbortsAssumption
<1> USE DEF IInv, TypeOK, BroadcastStatuses, RecipientStatuses, RequestLabels
<1>1. ASSUME NEW r \in Requests, NEW b \in Broadcasts, CreateCheck(r, b) PROVE LocksHold'
    BY <1>1 DEF CreateCheck, Start, LocksHold, Marked, tables
<1>2. ASSUME NEW r \in Requests, NEW audience \in SUBSET Phones, CreateCommit(r, audience)
      PROVE  LocksHold'
    BY <1>2 DEF CreateCommit, Mark, Finish, LocksHold, IdsAreOwn, Marked
<1>3. ASSUME NEW r \in Requests, NEW b \in Broadcasts, RetryCheck(r, b) PROVE LocksHold'
    BY <1>3 DEF RetryCheck, Start, LocksHold, Marked, tables
<1>4. ASSUME NEW r \in Requests, RetryUpdate(r) PROVE LocksHold'
    BY <1>4 DEF RetryUpdate, Retried, Finish, LocksHold, Marked, tables
<1>5. ASSUME NEW r \in Requests, RetryCommit(r) PROVE LocksHold'
    BY <1>5 DEF RetryCommit, Mark, Finish, LocksHold, LocksDisjoint, Marked
<1>6. ASSUME NEW r \in Requests, NEW b \in Broadcasts, CancelCheck(r, b) PROVE LocksHold'
    BY <1>6 DEF CancelCheck, Start, LocksHold, Marked, tables
<1>7. ASSUME NEW r \in Requests, CancelUpdate(r) PROVE LocksHold'
    BY <1>7 DEF CancelUpdate, LocksHold, Marked, tables
<1>8. ASSUME NEW r \in Requests, CancelCommit(r) PROVE LocksHold'
    BY <1>8 DEF CancelCommit, Mark, Finish, LocksHold, LocksDisjoint, Marked
<1>9. ASSUME PassStart PROVE LocksHold'
    BY <1>9 DEF PassStart, LocksHold, Marked, requests
<1>10. ASSUME NEW b \in Broadcasts, NEW ph \in Phones, PassSend(b, ph) PROVE LocksHold'
    BY <1>10 DEF PassSend, LocksHold, Marked, tables, requests
<1>11. ASSUME PassDrained PROVE LocksHold'
    BY <1>11 DEF PassDrained, LocksHold, Marked, requests
<1>12. ASSUME NEW ok \in BOOLEAN, PassRecord(ok) PROVE LocksHold'
    BY <1>12 DEF PassRecord, LocksHold, Marked, requests
<1>13. ASSUME PassResume PROVE LocksHold'
    BY <1>13 DEF PassResume, LocksHold, Marked, tables, requests
<1>14. ASSUME PassEnd PROVE LocksHold'
    BY <1>14 DEF PassEnd, LocksHold, Marked, requests
<1>15. ASSUME PassDies PROVE LocksHold'
    BY <1>15 DEF PassDies, LocksHold, Marked, tables, requests
<1>16. CASE UNCHANGED vars
    BY <1>16 DEF vars, LocksHold, Marked
<1> QED
    BY <1>1, <1>2, <1>3, <1>4, <1>5, <1>6, <1>7, <1>8, <1>9, <1>10, <1>11,
       <1>12, <1>13, <1>14, <1>15, <1>16 DEF Next, RequestStep, PassStep

\* An UPDATE waits for the rows that it would share.
LEMMA DisjointKept == IInv /\ [Next]_vars => LocksDisjoint'
<1> SUFFICES ASSUME IInv, [Next]_vars PROVE LocksDisjoint'
    OBVIOUS
<1> USE IdsAssumption, NoBroadcastAssumption, MaxAbortsAssumption
<1> USE DEF IInv, TypeOK, BroadcastStatuses, RecipientStatuses, RequestLabels
<1>1. ASSUME NEW r \in Requests, NEW b \in Broadcasts, CreateCheck(r, b)
      PROVE  LocksDisjoint'
    BY <1>1 DEF CreateCheck, Start, Fresh, LocksDisjoint
<1>2. ASSUME NEW r \in Requests, NEW audience \in SUBSET Phones, CreateCommit(r, audience)
      PROVE  LocksDisjoint'
    BY <1>2 DEF CreateCommit, Finish, LocksDisjoint
<1>3. ASSUME NEW r \in Requests, NEW b \in Broadcasts, RetryCheck(r, b) PROVE LocksDisjoint'
    BY <1>3 DEF RetryCheck, Start, LocksDisjoint, OnlyWritersLock
<1>4. ASSUME NEW r \in Requests, RetryUpdate(r) PROVE LocksDisjoint'
    BY <1>4 DEF RetryUpdate, Unlocked, Finish, LocksDisjoint
<1>5. ASSUME NEW r \in Requests, RetryCommit(r) PROVE LocksDisjoint'
    BY <1>5 DEF RetryCommit, Finish, LocksDisjoint
<1>6. ASSUME NEW r \in Requests, NEW b \in Broadcasts, CancelCheck(r, b)
      PROVE  LocksDisjoint'
    BY <1>6 DEF CancelCheck, Start, LocksDisjoint, OnlyWritersLock
<1>7. ASSUME NEW r \in Requests, CancelUpdate(r) PROVE LocksDisjoint'
    BY <1>7 DEF CancelUpdate, Unlocked, LocksDisjoint
<1>8. ASSUME NEW r \in Requests, CancelCommit(r) PROVE LocksDisjoint'
    BY <1>8 DEF CancelCommit, Finish, LocksDisjoint
<1>9. ASSUME PassStart PROVE LocksDisjoint'
    BY <1>9 DEF PassStart, LocksDisjoint, requests
<1>10. ASSUME NEW b \in Broadcasts, NEW ph \in Phones, PassSend(b, ph) PROVE LocksDisjoint'
    BY <1>10 DEF PassSend, LocksDisjoint, requests
<1>11. ASSUME PassDrained PROVE LocksDisjoint'
    BY <1>11 DEF PassDrained, LocksDisjoint, requests
<1>12. ASSUME NEW ok \in BOOLEAN, PassRecord(ok) PROVE LocksDisjoint'
    BY <1>12 DEF PassRecord, LocksDisjoint, requests
<1>13. ASSUME PassResume PROVE LocksDisjoint'
    BY <1>13 DEF PassResume, LocksDisjoint, requests
<1>14. ASSUME PassEnd PROVE LocksDisjoint'
    BY <1>14 DEF PassEnd, LocksDisjoint, requests
<1>15. ASSUME PassDies PROVE LocksDisjoint'
    BY <1>15 DEF PassDies, LocksDisjoint, requests
<1>16. CASE UNCHANGED vars
    BY <1>16 DEF vars, LocksDisjoint
<1> QED
    BY <1>1, <1>2, <1>3, <1>4, <1>5, <1>6, <1>7, <1>8, <1>9, <1>10, <1>11,
       <1>12, <1>13, <1>14, <1>15, <1>16 DEF Next, RequestStep, PassStep

\* A commit releases its rows.
LEMMA WritersKept == IInv /\ [Next]_vars => OnlyWritersLock'
<1> SUFFICES ASSUME IInv, [Next]_vars PROVE OnlyWritersLock'
    OBVIOUS
<1> USE IdsAssumption, NoBroadcastAssumption, MaxAbortsAssumption
<1> USE DEF IInv, TypeOK, BroadcastStatuses, RecipientStatuses, RequestLabels
<1>1. ASSUME NEW r \in Requests, NEW b \in Broadcasts, CreateCheck(r, b)
      PROVE  OnlyWritersLock'
    BY <1>1 DEF CreateCheck, Start, OnlyWritersLock
<1>2. ASSUME NEW r \in Requests, NEW audience \in SUBSET Phones, CreateCommit(r, audience)
      PROVE  OnlyWritersLock'
    BY <1>2 DEF CreateCommit, Finish, OnlyWritersLock
<1>3. ASSUME NEW r \in Requests, NEW b \in Broadcasts, RetryCheck(r, b)
      PROVE  OnlyWritersLock'
    BY <1>3 DEF RetryCheck, Start, OnlyWritersLock
<1>4. ASSUME NEW r \in Requests, RetryUpdate(r) PROVE OnlyWritersLock'
    BY <1>4 DEF RetryUpdate, Finish, OnlyWritersLock
<1>5. ASSUME NEW r \in Requests, RetryCommit(r) PROVE OnlyWritersLock'
    BY <1>5 DEF RetryCommit, Finish, OnlyWritersLock
<1>6. ASSUME NEW r \in Requests, NEW b \in Broadcasts, CancelCheck(r, b)
      PROVE  OnlyWritersLock'
    BY <1>6 DEF CancelCheck, Start, OnlyWritersLock
<1>7. ASSUME NEW r \in Requests, CancelUpdate(r) PROVE OnlyWritersLock'
    BY <1>7 DEF CancelUpdate, OnlyWritersLock
<1>8. ASSUME NEW r \in Requests, CancelCommit(r) PROVE OnlyWritersLock'
    BY <1>8 DEF CancelCommit, Finish, OnlyWritersLock
<1>9. ASSUME PassStart PROVE OnlyWritersLock'
    BY <1>9 DEF PassStart, OnlyWritersLock, requests
<1>10. ASSUME NEW b \in Broadcasts, NEW ph \in Phones, PassSend(b, ph)
       PROVE  OnlyWritersLock'
    BY <1>10 DEF PassSend, OnlyWritersLock, requests
<1>11. ASSUME PassDrained PROVE OnlyWritersLock'
    BY <1>11 DEF PassDrained, OnlyWritersLock, requests
<1>12. ASSUME NEW ok \in BOOLEAN, PassRecord(ok) PROVE OnlyWritersLock'
    BY <1>12 DEF PassRecord, OnlyWritersLock, requests
<1>13. ASSUME PassResume PROVE OnlyWritersLock'
    BY <1>13 DEF PassResume, OnlyWritersLock, requests
<1>14. ASSUME PassEnd PROVE OnlyWritersLock'
    BY <1>14 DEF PassEnd, OnlyWritersLock, requests
<1>15. ASSUME PassDies PROVE OnlyWritersLock'
    BY <1>15 DEF PassDies, OnlyWritersLock, requests
<1>16. CASE UNCHANGED vars
    BY <1>16 DEF vars, OnlyWritersLock
<1> QED
    BY <1>1, <1>2, <1>3, <1>4, <1>5, <1>6, <1>7, <1>8, <1>9, <1>10, <1>11,
       <1>12, <1>13, <1>14, <1>15, <1>16 DEF Next, RequestStep, PassStep

\* Nobody puts the recipient in flight back in the queue, or takes it as failed.
LEMMA InFlightKept == IInv /\ [Next]_vars => InFlight'
<1> SUFFICES ASSUME IInv, [Next]_vars PROVE InFlight'
    OBVIOUS
<1> USE IdsAssumption, NoBroadcastAssumption, MaxAbortsAssumption
<1> USE DEF IInv, TypeOK, BroadcastStatuses, RecipientStatuses, RequestLabels
<1>1. ASSUME NEW r \in Requests, NEW b \in Broadcasts, CreateCheck(r, b) PROVE InFlight'
    BY <1>1 DEF CreateCheck, Start, InFlight, tables, job
<1>2. ASSUME NEW r \in Requests, NEW audience \in SUBSET Phones, CreateCommit(r, audience)
      PROVE  InFlight'
    BY <1>2 DEF CreateCommit, Mark, InFlight, job
<1>3. ASSUME NEW r \in Requests, NEW b \in Broadcasts, RetryCheck(r, b) PROVE InFlight'
    BY <1>3 DEF RetryCheck, Start, InFlight, tables, job
<1>4. ASSUME NEW r \in Requests, RetryUpdate(r) PROVE InFlight'
    BY <1>4 DEF RetryUpdate, InFlight, tables, job
<1>5. ASSUME NEW r \in Requests, RetryCommit(r) PROVE InFlight'
    BY <1>5 DEF RetryCommit, Mark, InFlight, job
<1>6. ASSUME NEW r \in Requests, NEW b \in Broadcasts, CancelCheck(r, b) PROVE InFlight'
    BY <1>6 DEF CancelCheck, Start, InFlight, tables, job
<1>7. ASSUME NEW r \in Requests, CancelUpdate(r) PROVE InFlight'
    BY <1>7 DEF CancelUpdate, InFlight, tables, job
<1>8. ASSUME NEW r \in Requests, CancelCommit(r) PROVE InFlight'
    BY <1>8 DEF CancelCommit, Mark, InFlight, job
<1>9. ASSUME PassStart PROVE InFlight'
    BY <1>9 DEF PassStart, InFlight
<1>10. ASSUME NEW b \in Broadcasts, NEW ph \in Phones, PassSend(b, ph) PROVE InFlight'
    BY <1>10 DEF PassSend, Queue, Running, Loaded, InFlight, tables
<1>11. ASSUME PassDrained PROVE InFlight'
    BY <1>11 DEF PassDrained, EndPass, InFlight
<1>12. ASSUME NEW ok \in BOOLEAN, PassRecord(ok) PROVE InFlight'
    BY <1>12 DEF PassRecord, InFlight
<1>13. ASSUME PassResume PROVE InFlight'
    BY <1>13 DEF PassResume, InFlight
<1>14. ASSUME PassEnd PROVE InFlight'
    BY <1>14 DEF PassEnd, EndPass, InFlight
<1>15. ASSUME PassDies PROVE InFlight'
    BY <1>15 DEF PassDies, EndPass, InFlight
<1>16. CASE UNCHANGED vars
    BY <1>16 DEF vars, InFlight
<1> QED
    BY <1>1, <1>2, <1>3, <1>4, <1>5, <1>6, <1>7, <1>8, <1>9, <1>10, <1>11,
       <1>12, <1>13, <1>14, <1>15, <1>16 DEF Next, RequestStep, PassStep

\* At first nothing is created and nobody is at work.
LEMMA InitIInv == Init => IInv
  BY IdsAssumption, NoBroadcastAssumption, MaxAbortsAssumption
  DEF Init, IInv, TypeOK, BroadcastStatuses, RecipientStatuses, RequestLabels, Nobody,
      AbsentIsEmpty, IdsAreOwn, LocksHold, LocksDisjoint, OnlyWritersLock, InFlight

\* The invariant is inductive.
LEMMA NextIInv == IInv /\ [Next]_vars => IInv'
  BY TypeKept, AbsentKept, IdsKept, LocksKept, DisjointKept, WritersKept,
     InFlightKept DEF IInv

\* It holds of every reachable state.
LEMMA AlwaysIInv == Spec => []IInv
  BY InitIInv, NextIInv, PTL DEF Spec

\* The tables and the processes keep their shape, whatever the constants.
THEOREM TypeCorrect == Spec => []TypeOK
<1>1. IInv => TypeOK
  BY DEF IInv
<1>2. QED
  BY <1>1, AlwaysIInv, PTL

\* retry_failed touches "ni aux envoyes ni aux arretes", and neither does any
\* other step: what is sent or stopped stays so, but for the message in flight,
\* however many operators create, stop and retry at the same time.
THEOREM SettledForGood == Spec => SettledStays
<1> DEFINE Stays ==
      \A b \in Broadcasts, ph \in Phones :
        /\ rcpt[b][ph] = "sent" => rcpt'[b][ph] = "sent"
        /\ rcpt[b][ph] = "cancelled" /\ rcpt'[b][ph] # "cancelled"
              => pass = "sending" /\ current.b = b /\ current.ph = ph
<1>1. IInv /\ [Next]_vars => [Stays]_vars
  <2> SUFFICES ASSUME IInv, Next PROVE Stays
    BY DEF vars
  <2> USE DEF IInv, TypeOK
  <2>1. ASSUME NEW r \in Requests, NEW audience \in SUBSET Phones, CreateCommit(r, audience)
        PROVE  Stays
    BY <2>1 DEF CreateCommit, Mark, IdsAreOwn, AbsentIsEmpty
  <2>2. ASSUME NEW r \in Requests, RetryCommit(r) PROVE Stays
    BY <2>2 DEF RetryCommit, Mark, LocksHold, Marked
  <2>3. ASSUME NEW r \in Requests, CancelCommit(r) PROVE Stays
    BY <2>3 DEF CancelCommit, Mark, LocksHold, Marked
  <2>4. ASSUME NEW ok \in BOOLEAN, PassRecord(ok) PROVE Stays
    BY <2>4 DEF PassRecord, InFlight
  <2>5. CASE UNCHANGED rcpt
    BY <2>5
  <2>6. QED
    BY <2>1, <2>2, <2>3, <2>4, <2>5
    DEF Next, RequestStep, PassStep, CreateCheck, RetryCheck, RetryUpdate, CancelCheck,
        CancelUpdate, Start, PassStart, PassSend, PassDrained, PassResume, PassEnd,
        PassDies, tables
<1>2. QED
  BY <1>1, AlwaysIInv, PTL DEF Spec, SettledStays

-----------------------------------------------------------------------------
(***************************************************************************)
(* Who waits in vain.  A stop reads the queue, then commits; a retry that  *)
(* commits in between puts its failures in a queue that the stop is about  *)
(* to close.  It is the only way.                                          *)
(***************************************************************************)
\* No retry and no stop of one broadcast are both about to commit.
Apart ==
    \A r, q \in Requests :
        ~(target[r] = target[q] /\ pc[r] = "retry_commit" /\ pc[q] = "cancel_commit")

\* A stop about to commit holds the whole queue of its broadcast.
StopsHoldTheQueue ==
    \A r \in Requests :
        pc[r] = "cancel_commit" => Marked(target[r], "pending") \subseteq touched[r]

NoneInVain == NobodyWaitsInVain /\ StopsHoldTheQueue

\* A step that opens no broadcast's queue and closes none with someone in it.
LEMMA QueueShrinks ==
  ASSUME IInv, NoneInVain,
         \A b \in Broadcasts : Marked(b, "pending")' \subseteq Marked(b, "pending"),
         \A b \in Broadcasts :
            status'[b] = status[b] \/ Marked(b, "pending")' = {},
         \A r \in Requests :
            pc'[r] = "cancel_commit" =>
                pc[r] = "cancel_commit" /\ target'[r] = target[r] /\ touched'[r] = touched[r]
  PROVE  NoneInVain'
  <1>1. NobodyWaitsInVain'
    BY DEF NoneInVain, NobodyWaitsInVain
  <1>2. ASSUME NEW r \in Requests, pc'[r] = "cancel_commit"
        PROVE  Marked(target[r], "pending")' \subseteq touched'[r]
    <2>1. PICK b \in Broadcasts : b = target[r] /\ b = target'[r]
      BY <1>2 DEF IInv, IdsAreOwn
    <2>2. Marked(b, "pending") \subseteq touched[r] /\ touched'[r] = touched[r]
      BY <1>2, <2>1 DEF NoneInVain, StopsHoldTheQueue
    <2>3. Marked(b, "pending")' \subseteq touched'[r]
      BY <2>2
    <2>4. QED
      BY <2>1, <2>3 DEF Marked
  <1>3. QED
    BY <1>1, <1>2 DEF NoneInVain, StopsHoldTheQueue

\* A commit that opens the queue of a broadcast nobody is about to stop.
LEMMA QueueOpens ==
  ASSUME IInv, NoneInVain, NEW r \in Requests, Finish(r), target[r] \in Broadcasts,
         status' = [status EXCEPT ![target[r]] = "running"],
         NEW phs, Mark(target[r], phs, "pending"),
         \A q \in Requests : q # r /\ target[q] = target[r] => pc[q] # "cancel_commit"
  PROVE  NoneInVain'
  <1>1. \A b \in Broadcasts : b # target[r] =>
            status'[b] = status[b] /\ rcpt'[b] = rcpt[b]
    BY DEF IInv, TypeOK, Mark
  <1>2. status'[target[r]] = "running"
    BY DEF IInv, TypeOK
  <1>3. NobodyWaitsInVain'
    BY <1>1, <1>2 DEF NoneInVain, NobodyWaitsInVain, Marked
  <1>4. \A q \in Requests : pc'[q] = "cancel_commit" =>
            /\ q # r /\ pc[q] = "cancel_commit"
            /\ target'[q] = target[q] /\ touched'[q] = touched[q]
            /\ target[q] \in Broadcasts /\ target[q] # target[r]
    BY DEF IInv, TypeOK, Finish, IdsAreOwn
  <1>5. StopsHoldTheQueue'
    BY <1>1, <1>4 DEF NoneInVain, StopsHoldTheQueue, Marked
  <1>6. QED
    BY <1>3, <1>5 DEF NoneInVain

\* _finish_drained closes empty queues only.
LEMMA FinishedAreEmpty ==
  ASSUME TypeOK, FinishDrained, rcpt' = rcpt
  PROVE  \A b \in Broadcasts : status'[b] = status[b] \/ Marked(b, "pending")' = {}
  BY DEF TypeOK, FinishDrained, Marked

\* A request of any kind.
LEMMA RequestsInVain ==
  ASSUME IInv, NoneInVain, Apart, NEW r \in Requests,
         \/ RequestStep(r)
         \/ \E b \in Broadcasts : CreateCheck(r, b) \/ RetryCheck(r, b) \/ CancelCheck(r, b)
  PROVE  NoneInVain'
  <1> USE DEF IInv, TypeOK
  <1>1. ASSUME NEW b \in Broadcasts, CreateCheck(r, b) \/ RetryCheck(r, b) \/ CancelCheck(r, b)
        PROVE  NoneInVain'
    <2>1. PICK label \in {"create_commit", "retry_update", "cancel_update"} : Start(r, label, b)
      BY <1>1 DEF CreateCheck, RetryCheck, CancelCheck
    <2>2. QED
      BY <2>1, QueueShrinks DEF Start, tables, Marked
  <1>2. ASSUME NEW audience \in SUBSET Phones, CreateCommit(r, audience)
        PROVE  NoneInVain'
    BY <1>2, QueueOpens DEF CreateCommit, IdsAreOwn
  <1>3. CASE RetryUpdate(r)
    BY <1>3, QueueShrinks DEF RetryUpdate, Finish, tables, Marked
  <1>4. CASE RetryCommit(r)
    <2>1. \A q \in Requests : q # r /\ target[q] = target[r] => pc[q] # "cancel_commit"
      BY <1>4 DEF RetryCommit, Apart
    <2>2. target[r] \in Broadcasts
      BY <1>4 DEF RetryCommit, IdsAreOwn
    <2>3. QED
      BY <1>4, <2>1, <2>2, QueueOpens DEF RetryCommit
  <1>5. CASE CancelUpdate(r)
    <2>1. /\ status' = status /\ rcpt' = rcpt /\ target' = target
          /\ touched'[r] = Marked(target[r], "pending")
          /\ \A q \in Requests : q # r => pc'[q] = pc[q] /\ touched'[q] = touched[q]
      BY <1>5 DEF CancelUpdate, tables
    <2>2. QED
      BY <2>1 DEF NoneInVain, NobodyWaitsInVain, StopsHoldTheQueue, Marked
  <1>6. CASE CancelCommit(r)
    <2>1. PICK b \in Broadcasts : b = target[r] /\ Marked(b, "pending") \subseteq touched[r]
      BY <1>6 DEF CancelCommit, NoneInVain, StopsHoldTheQueue, IdsAreOwn
    <2>2. /\ rcpt'[b] = [ph \in Phones |-> IF ph \in touched[r] THEN "cancelled" ELSE rcpt[b][ph]]
          /\ \A c \in Broadcasts : c # b => rcpt'[c] = rcpt[c] /\ status'[c] = status[c]
      BY <1>6, <2>1 DEF CancelCommit, Mark
    <2>3. Marked(b, "pending")' = {}
      BY <2>1, <2>2 DEF Marked
    <2>4. \A c \in Broadcasts : Marked(c, "pending")' \subseteq Marked(c, "pending")
      BY <2>2, <2>3 DEF Marked
    <2>5. \A q \in Requests : pc'[q] = "cancel_commit" =>
              pc[q] = "cancel_commit" /\ target'[q] = target[q] /\ touched'[q] = touched[q]
      BY <1>6 DEF CancelCommit, Finish
    <2>6. QED
      BY <2>2, <2>3, <2>4, <2>5, QueueShrinks
  <1>7. QED
    BY <1>1, <1>2, <1>3, <1>4, <1>5, <1>6 DEF RequestStep

\* A step of the job.
LEMMA PassInVain ==
  ASSUME IInv, NoneInVain, PassStep \/ PassDies
  PROVE  NoneInVain'
  <1>1. pc' = pc /\ target' = target /\ touched' = touched
    BY DEF PassStep, PassStart, PassSend, PassDrained, PassRecord, PassResume, PassEnd,
           PassDies, requests
  <1>2. CASE PassStart \/ PassDrained \/ PassEnd
    <2>1. rcpt' = rcpt /\ FinishDrained
      BY <1>2 DEF PassStart, PassDrained, PassEnd
    <2>2. QED
      BY <1>1, <2>1, FinishedAreEmpty, QueueShrinks DEF Marked, IInv
  <1>3. CASE PassResume \/ PassDies \/ \E b \in Broadcasts, ph \in Phones : PassSend(b, ph)
    <2>1. rcpt' = rcpt /\ status' = status
      BY <1>3 DEF PassResume, PassDies, PassSend, tables
    <2>2. QED
      BY <1>1, <2>1, QueueShrinks DEF Marked
  <1>4. ASSUME NEW ok \in BOOLEAN, PassRecord(ok)
        PROVE  NoneInVain'
    <2>1. status' = status /\ rcpt' \in {rcpt, [rcpt EXCEPT ![current.b][current.ph] = Result(ok)]}
      BY <1>4 DEF PassRecord
    <2>2. Result(ok) # "pending"
      BY DEF Result
    <2>3. \A b \in Broadcasts : Marked(b, "pending")' \subseteq Marked(b, "pending")
      BY <2>1, <2>2 DEF Marked, IInv, TypeOK
    <2>4. QED
      BY <1>1, <2>1, <2>3, QueueShrinks
  <1>5. QED
    BY <1>2, <1>3, <1>4 DEF PassStep

\* One case per kind of step.
LEMMA NoneInVainKept == IInv /\ NoneInVain /\ Apart /\ [Next]_vars => NoneInVain'
  <1> SUFFICES ASSUME IInv, NoneInVain, Apart, [Next]_vars PROVE NoneInVain'
    OBVIOUS
  <1>1. CASE UNCHANGED vars
    BY <1>1 DEF vars, NoneInVain, NobodyWaitsInVain, StopsHoldTheQueue, Marked
  <1>2. QED
    BY <1>1, RequestsInVain, PassInVain DEF Next

\* Whoever operates, whatever dies, and whatever else overlaps, a broadcast
\* that is over has nobody left in its queue, unless a retry and a stop of
\* this broadcast were both about to commit.
THEOREM InVainOnlyAcross == Spec /\ []Apart => []NobodyWaitsInVain
  <1>1. Init => NoneInVain
    BY DEF Init, NoneInVain, NobodyWaitsInVain, StopsHoldTheQueue, Marked
  <1>2. NoneInVain => NobodyWaitsInVain
    BY DEF NoneInVain
  <1>3. QED
    BY <1>1, <1>2, NoneInVainKept, AlwaysIInv, PTL DEF Spec

-----------------------------------------------------------------------------
(***************************************************************************)
(* One broadcast at a time.  A creation and a retry look for a running     *)
(* broadcast first and open a queue later: two that have both looked are   *)
(* the only way to two queues.                                             *)
(***************************************************************************)
\* A request that has found nothing running, and has not committed yet.
Opening(r) == pc[r] \in {"create_commit", "retry_update", "retry_commit"}

OpenersApart == \A r, q \in Requests : Opening(r) /\ Opening(q) => r = q

\* What the only opener has found is still true.
OpenersAreFirst ==
    /\ OneAtATime
    /\ \A r \in Requests : Opening(r) => Running = {}

\* A step that starts no broadcast and no opener.
LEMMA RunningShrinks ==
  ASSUME OpenersAreFirst, Running' \subseteq Running,
         \A r \in Requests : Opening(r)' => Opening(r)
  PROVE  OpenersAreFirst'
  BY DEF OpenersAreFirst, OneAtATime

\* One case per kind of step.
LEMMA OpenersKept == IInv /\ OpenersAreFirst /\ OpenersApart /\ [Next]_vars => OpenersAreFirst'
  <1> SUFFICES ASSUME IInv, OpenersAreFirst, OpenersApart, [Next]_vars
               PROVE  OpenersAreFirst'
    OBVIOUS
  <1> USE DEF IInv, TypeOK
  <1>1. ASSUME NEW r \in Requests, NEW label, NEW b \in Broadcasts, Start(r, label, b),
               Running = {} \/ label = "cancel_update"
        PROVE  OpenersAreFirst'
    <2>1. Running' = Running
      BY <1>1 DEF Start, tables, Running
    <2>2. CASE Running = {}
      BY <2>1, <2>2 DEF OpenersAreFirst, OneAtATime
    <2>3. CASE label = "cancel_update"
      BY <1>1, <2>1, <2>3, RunningShrinks DEF Start, Opening
    <2>4. QED
      BY <1>1, <2>2, <2>3
  <1>2. ASSUME NEW r \in Requests, Opening(r), Finish(r), target[r] \in Broadcasts,
               status' = [status EXCEPT ![target[r]] = "running"]
        PROVE  OpenersAreFirst'
    <2>1. Running = {}
      BY <1>2 DEF OpenersAreFirst
    <2>2. Running' \subseteq {target[r]}
      BY <1>2, <2>1 DEF Running
    <2>3. \A q \in Requests : ~Opening(q)'
      BY <1>2 DEF OpenersApart, Opening, Finish
    <2>4. QED
      BY <2>2, <2>3 DEF OpenersAreFirst, OneAtATime
  <1>3. ASSUME NEW r \in Requests,
               RequestStep(r) \/ \E b \in Broadcasts :
                  CreateCheck(r, b) \/ RetryCheck(r, b) \/ CancelCheck(r, b)
        PROVE  OpenersAreFirst'
    <2>1. ASSUME NEW b \in Broadcasts, CreateCheck(r, b) \/ RetryCheck(r, b) \/ CancelCheck(r, b)
          PROVE  OpenersAreFirst'
      BY <1>1, <2>1 DEF CreateCheck, RetryCheck, CancelCheck
    <2>2. ASSUME NEW audience \in SUBSET Phones, CreateCommit(r, audience) PROVE OpenersAreFirst'
      BY <1>2, <2>2 DEF CreateCommit, Opening, IdsAreOwn
    <2>3. CASE RetryCommit(r)
      BY <1>2, <2>3 DEF RetryCommit, Opening, IdsAreOwn, RequestLabels
    <2>4. CASE RetryUpdate(r) \/ CancelUpdate(r)
      <3>1. status' = status /\ \A q \in Requests : Opening(q)' => Opening(q)
        BY <2>4 DEF RetryUpdate, CancelUpdate, Finish, Opening, tables
      <3>2. QED
        BY <3>1, RunningShrinks DEF Running
    <2>5. CASE CancelCommit(r)
      <3>1. \A b \in Broadcasts : status'[b] \in {status[b], "cancelled"}
        BY <2>5 DEF CancelCommit
      <3>2. \A q \in Requests : Opening(q)' => Opening(q)
        BY <2>5 DEF CancelCommit, Finish, Opening
      <3>3. QED
        BY <3>1, <3>2, RunningShrinks DEF Running
    <2>6. QED
      BY <1>3, <2>1, <2>2, <2>3, <2>4, <2>5 DEF RequestStep
  <1>4. CASE PassStep \/ PassDies \/ UNCHANGED vars
    <2>1. \A b \in Broadcasts : status'[b] \in {status[b], "done"}
      BY <1>4 DEF PassStep, PassStart, PassSend, PassDrained, PassRecord, PassResume, PassEnd,
                  PassDies, FinishDrained, tables, vars
    <2>2. pc' = pc
      BY <1>4 DEF PassStep, PassStart, PassSend, PassDrained, PassRecord, PassResume, PassEnd,
                  PassDies, requests, vars
    <2>3. QED
      BY <2>1, <2>2, RunningShrinks DEF Running, Opening
  <1>5. QED
    BY <1>3, <1>4 DEF Next

\* "Un seul envoi a la fois" (create_broadcast) holds as long as no two requests have both found
\* nothing running; whatever else overlaps or dies.
THEOREM OneUnlessTwoOpen == Spec /\ []OpenersApart => []OneAtATime
  <1>1. Init => OpenersAreFirst
    BY DEF Init, OpenersAreFirst, OneAtATime, Running, Opening
  <1>2. OpenersAreFirst => OneAtATime
    BY DEF OpenersAreFirst
  <1>3. QED
    BY <1>1, <1>2, OpenersKept, AlwaysIInv, PTL DEF Spec
=============================================================================
