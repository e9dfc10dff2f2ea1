------------------------- MODULE ClientBlockProofs -------------------------
(* What TLAPS proves about ClientBlock. *)
EXTENDS ClientBlock, TLAPS

-----------------------------------------------------------------------------
(* Rows and ORM objects *)

\* A new row is well formed, in the database and in memory.
LEMMA NewRowType == NewRow \in Rows /\ NewRow \in OrmObjects
  BY DEF NewRow, Rows, OrmObjects, RowsWith, BlockModes, Accesses, EnforcedStamps,
         AbandonStamps

\* What the database holds can be loaded.
LEMMA RowsAreObjects == Rows \subseteq OrmObjects
  BY DEF Rows, OrmObjects, RowsWith, EnforcedStamps, AbandonStamps

\* Writing an ORM object to the database leaves flushed stamps only.
LEMMA StoredType ==
  ASSUME NEW l \in OrmObjects
  PROVE  Stored(l) \in Rows
  BY DEF Stored, Rows, OrmObjects, RowsWith, EnforcedStamps, AbandonStamps

\* _set_unenforceable keeps an ORM object well formed.
LEMMA SetUnenforceableType ==
  ASSUME NEW l \in OrmObjects, NEW refused \in BOOLEAN
  PROVE  SetUnenforceable(l, refused) \in OrmObjects
  BY DEF SetUnenforceable, OrmObjects, RowsWith, AbandonStamps

\* What a flush leaves in the database is a row, whatever the copy.
LEMMA FlushedType ==
  ASSUME NEW l \in OrmObjects, NEW s, row \in Rows
  PROVE  Flushed(l, s) \in Rows
  <1>1. Stored(l) \in Rows
    BY StoredType
  <1>2. QED
    BY <1>1 DEF Flushed, Rows, RowsWith

-----------------------------------------------------------------------------
(* Type correctness, one lemma per step that the handlers share *)

Labels == RequestLabels \cup EnforcerLabels

\* The job and the requests are different processes.
LEMMA ProcsDistinct ==
    Enforcer \in Procs /\ Requests \subseteq Procs /\ Enforcer \notin Requests
  BY ProcsAssumption DEF Procs

\* The initial states are well typed.
LEMMA TypeInit == Init => TypeOK
  <1> SUFFICES ASSUME Init PROVE TypeOK
    OBVIOUS
  <1>1. /\ pc \in [Procs -> Labels]
        /\ \A p \in Requests : pc[p] \in RequestLabels
        /\ pc[Enforcer] \in EnforcerLabels
    BY ProcsDistinct DEF Init, Labels, RequestLabels, EnforcerLabels
  <1>2. heard \in [Procs -> SshOutcomes] /\ drop_rule \in BOOLEAN
    BY DEF Init, SshOutcomes
  <1>3. aborts \in 0..MaxAborts
    BY MaxAbortsAssumption DEF Init
  <1>4. PICK reach \in Reaches : row = [NewRow EXCEPT !.reach = reach]
    BY DEF Init
  <1>5. row \in Rows
    BY <1>4, NewRowType, ReachesAssumption DEF Rows, RowsWith, Accesses
  <1>6. QED
    BY <1>1, <1>2, <1>3, <1>5, NewRowType DEF Init, TypeOK, Labels

\* Moving one process to a label of its own keeps every process at its own.
LEMMA GotoType ==
  ASSUME TypeOK, NEW p \in Procs, NEW label, Goto(p, label),
         p \in Requests => label \in RequestLabels,
         p = Enforcer => label \in EnforcerLabels
  PROVE  /\ pc' \in [Procs -> Labels]
         /\ \A q \in Requests : pc'[q] \in RequestLabels
         /\ pc'[Enforcer] \in EnforcerLabels
  BY ProcsDistinct DEF TypeOK, Goto, Labels, Procs

\* Loading the row starts a handler in a well-typed state.
LEMMA LoadType ==
  ASSUME TypeOK, NEW p \in Procs, NEW label, Load(p, label),
         p \in Requests => label \in RequestLabels,
         p = Enforcer => label \in EnforcerLabels
  PROVE  TypeOK'
  <1>1. /\ pc' \in [Procs -> Labels]
        /\ \A q \in Requests : pc'[q] \in RequestLabels
        /\ pc'[Enforcer] \in EnforcerLabels
    BY GotoType DEF Load
  <1>2. QED
    BY <1>1, RowsAreObjects DEF Load, TypeOK, history, lrDevice, Labels

\* Ending a session leaves a well-typed state, if the row is well formed.
LEMMA CloseType ==
  ASSUME TypeOK, NEW p \in Procs, Close(p)
  PROVE  /\ lr' \in [Procs -> OrmObjects]
         /\ seen' \in [Procs -> OrmObjects]
         /\ heard' \in [Procs -> SshOutcomes]
         /\ pc' \in [Procs -> Labels]
         /\ \A q \in Requests : pc'[q] \in RequestLabels
         /\ pc'[Enforcer] \in EnforcerLabels
  <1>1. "idle" \in RequestLabels /\ "idle" \in EnforcerLabels
    BY DEF RequestLabels, EnforcerLabels
  <1>2. /\ pc' \in [Procs -> Labels]
        /\ \A q \in Requests : pc'[q] \in RequestLabels
        /\ pc'[Enforcer] \in EnforcerLabels
    BY <1>1, GotoType DEF Close
  <1>3. QED
    BY <1>2, NewRowType DEF Close, TypeOK, SshOutcomes

\* The first commit of a handler leaves a well-typed state.
LEMMA CommitIntentType ==
  ASSUME TypeOK, NEW p \in Requests, NEW l \in OrmObjects,
         NEW label \in RequestLabels, CommitIntent(p, l, label),
         cut_done' \in BOOLEAN, told' \in BOOLEAN
  PROVE  TypeOK'
  <1>1. /\ pc' \in [Procs -> Labels]
        /\ \A q \in Requests : pc'[q] \in RequestLabels
        /\ pc'[Enforcer] \in EnforcerLabels
    BY GotoType, ProcsDistinct DEF CommitIntent
  <1>2. row' \in Rows
    BY FlushedType DEF CommitIntent, TypeOK
  <1>3. QED
    BY <1>1, <1>2, ProcsDistinct DEF CommitIntent, TypeOK, history, lrDevice, Labels

\* What the calls to the two devices leave behind.
LEMMA DeviceType ==
  ASSUME TypeOK, NEW l, NEW outcome \in Outcomes, NEW wanted \in BOOLEAN,
         SetFull(l, wanted, outcome) \/ SetWhatsapp(l, wanted, outcome)
  PROVE  port_down' \in BOOLEAN /\ wa_filter' \in BOOLEAN
  BY DEF SetFull, SetWhatsapp, Left, TypeOK

\* Asserting the cut leaves the LR and the history flag well typed.
LEMMA AssertBlockType ==
  ASSUME TypeOK, NEW outcome \in Outcomes, NEW l, AssertBlock(l, outcome)
  PROVE  /\ port_down' \in BOOLEAN /\ wa_filter' \in BOOLEAN /\ cut_done' \in BOOLEAN
         /\ told' \in BOOLEAN
  <1>1. port_down' \in BOOLEAN /\ wa_filter' \in BOOLEAN
    BY DeviceType DEF AssertBlock
  <1>2. cut_done' \in BOOLEAN /\ told' \in BOOLEAN
    BY DEF AssertBlock, TypeOK
  <1>3. QED
    BY <1>1, <1>2

\* The desire for a router rule is a Boolean.
LEMMA DesiredType ==
  ASSUME NEW l \in OrmObjects
  PROVE  DesiredRouterBlock(l) \in BOOLEAN
  BY DEF DesiredRouterBlock, OrmObjects, RowsWith

\* Whatever the router answers, the rule is there or it is not.
LEMMA RouterSetsType ==
  ASSUME TypeOK, NEW wanted \in BOOLEAN, NEW ok \in BOOLEAN, RouterSets(wanted, ok)
  PROVE  drop_rule' \in BOOLEAN
  BY DEF RouterSets, TypeOK

\* Remembering the router's answer keeps an ORM object well formed.
LEMMA RememberType ==
  ASSUME NEW l \in OrmObjects, NEW wanted \in BOOLEAN
  PROVE  [l EXCEPT !.router_blocked = wanted] \in OrmObjects
  BY DEF OrmObjects, RowsWith

\* _reconcile_router keeps the copies and the rule well typed.
LEMMA ReconcileRouterType ==
  ASSUME TypeOK, NEW p \in Procs, NEW ok \in BOOLEAN, ReconcileRouter(p, ok)
  PROVE  lr' \in [Procs -> OrmObjects] /\ drop_rule' \in BOOLEAN
  <1> DEFINE wanted == DesiredRouterBlock(lr[p])
  <1>1. lr[p] \in OrmObjects /\ lr \in [Procs -> OrmObjects]
    BY DEF TypeOK
  <1>2. wanted \in BOOLEAN
    BY <1>1, DesiredType
  <1> HIDE DEF wanted
  <1>3. CASE UNCHANGED <<lr, drop_rule>>
    BY <1>3 DEF TypeOK
  <1>4. CASE /\ RouterSets(wanted, ok)
             /\ lr' = IF ok THEN [lr EXCEPT ![p].router_blocked = wanted] ELSE lr
    <2>1. drop_rule' \in BOOLEAN
      BY <1>2, <1>4, RouterSetsType
    <2>2. [lr[p] EXCEPT !.router_blocked = wanted] \in OrmObjects
      BY <1>1, <1>2, RememberType
    <2>3. QED
      BY <1>1, <1>4, <2>1, <2>2
  <1>5. QED
    BY <1>3, <1>4 DEF ReconcileRouter, wanted

\* _clear_router_block keeps the copies and the rule well typed.
LEMMA ClearRouterBlockType ==
  ASSUME TypeOK, NEW p \in Procs, NEW ok \in BOOLEAN, ClearRouterBlock(p, ok)
  PROVE  lr' \in [Procs -> OrmObjects] /\ drop_rule' \in BOOLEAN
  <1>1. lr[p] \in OrmObjects /\ lr \in [Procs -> OrmObjects]
    BY DEF TypeOK
  <1>2. drop_rule' \in BOOLEAN
    BY RouterSetsType DEF ClearRouterBlock
  <1>3. [lr[p] EXCEPT !.router_blocked = FALSE] \in OrmObjects
    BY <1>1, RememberType
  <1>4. QED
    BY <1>1, <1>2, <1>3 DEF ClearRouterBlock

-----------------------------------------------------------------------------
(* Type correctness, action by action *)

\* A step of process p that replaces its own copy by another ORM object.
LEMMA OwnCopyType ==
  ASSUME TypeOK, NEW p \in Procs, NEW l \in OrmObjects,
         lr' = [lr EXCEPT ![p] = l]
  PROVE  lr' \in [Procs -> OrmObjects]
  BY DEF TypeOK

\* Every step of block_client preserves TypeOK.
LEMMA BlockType ==
  ASSUME TypeOK, NEW p \in Requests, BlockRequest(p) \/ BlockStep(p)
  PROVE  TypeOK'
  <1> USE ProcsDistinct
  <1>1. CASE BlockRequest(p)
    BY <1>1, LoadType DEF BlockRequest, RequestLabels
  <1>2. CASE BlockRefused(p)
    BY <1>2, CloseType DEF BlockRefused, TypeOK, history, lrDevice, Labels
  <1>3. ASSUME NEW mode \in Modes, BlockIntent(p, mode)
        PROVE  TypeOK'
    <2>1. [lr[p] EXCEPT !.client_blocked = TRUE, !.block_mode = mode,
                        !.unblock_pending = FALSE] \in OrmObjects
      <3>1. lr[p] \in OrmObjects
        BY DEF TypeOK
      <3>2. mode \in BlockModes
        BY ModesAssumption DEF BlockModes
      <3>3. QED
        BY <3>1, <3>2 DEF OrmObjects, RowsWith
    <2>2. /\ "block_neutralize" \in RequestLabels
          /\ cut_done' \in BOOLEAN /\ told' \in BOOLEAN
      BY <1>3 DEF RequestLabels, BlockIntent, TypeOK
    <2>3. QED
      BY <1>3, <2>1, <2>2, CommitIntentType DEF BlockIntent
  <1>4. ASSUME NEW outcome \in Outcomes, BlockNeutralize(p, outcome)
        PROVE  TypeOK'
    <2>1. port_down' \in BOOLEAN /\ wa_filter' \in BOOLEAN
      BY <1>4, DeviceType DEF BlockNeutralize
    <2>2. QED
      BY <1>4, <2>1, GotoType
         DEF BlockNeutralize, TypeOK, dbVars, history, Labels, RequestLabels
  <1>5. ASSUME NEW outcome \in Outcomes, BlockAssert(p, outcome)
        PROVE  TypeOK'
    <2>1. /\ port_down' \in BOOLEAN /\ wa_filter' \in BOOLEAN /\ cut_done' \in BOOLEAN
          /\ told' \in BOOLEAN
      BY <1>5, AssertBlockType DEF BlockAssert
    <2>2. lr[p] \in OrmObjects
      BY DEF TypeOK
    <2>3. [lr[p] EXCEPT !.enforced_at = "now"] \in OrmObjects
      BY <2>2 DEF OrmObjects, RowsWith
    <2>4. lr' \in [Procs -> OrmObjects]
      BY <1>5, <2>2, <2>3, SetUnenforceableType, OwnCopyType DEF BlockAssert
    <2>5. QED
      BY <1>5, <2>1, <2>4, GotoType
         DEF BlockAssert, TypeOK, history, Labels, RequestLabels
  <1>6. ASSUME NEW ok \in BOOLEAN, BlockUncover(p, ok) \/ BlockCover(p, ok)
        PROVE  TypeOK'
    <2>1. lr' \in [Procs -> OrmObjects] /\ drop_rule' \in BOOLEAN
      BY <1>6, ClearRouterBlockType, ReconcileRouterType DEF BlockUncover, BlockCover
    <2>2. QED
      BY <1>6, <2>1, GotoType
         DEF BlockUncover, BlockCover, TypeOK, history, lrDevice, Labels, RequestLabels
  <1>7. QED
    BY <1>1, <1>2, <1>3, <1>4, <1>5, <1>6 DEF BlockStep

\* Lifting the order keeps an ORM object well formed.
LEMMA LiftedType ==
  ASSUME NEW l \in OrmObjects
  PROVE  Lifted(l) \in OrmObjects
  BY DEF Lifted, OrmObjects, RowsWith, EnforcedStamps

\* Noting a pending unblock keeps an ORM object well formed.
LEMMA PendingType ==
  ASSUME NEW l \in OrmObjects, NEW waiting \in BOOLEAN
  PROVE  [l EXCEPT !.unblock_pending = waiting] \in OrmObjects
  BY DEF OrmObjects, RowsWith

\* Every step of unblock_client preserves TypeOK.
LEMMA UnblockType ==
  ASSUME TypeOK, NEW p \in Requests,
         UnblockRequest(p) \/ UnblockRefused(p) \/ UnblockStep(p)
  PROVE  TypeOK'
  <1> USE ProcsDistinct
  <1>0. lr[p] \in OrmObjects
    BY DEF TypeOK
  <1>1. CASE UnblockRequest(p)
    BY <1>1, LoadType DEF UnblockRequest, RequestLabels
  <1>2. CASE UnblockRefused(p)
    BY <1>2, CloseType DEF UnblockRefused, TypeOK, history, lrDevice, Labels
  <1>3. CASE UnblockIntent(p)
    <2>1. Lifted(lr[p]) \in OrmObjects
      BY <1>0, LiftedType
    <2>2. /\ "unblock_router" \in RequestLabels
          /\ cut_done' \in BOOLEAN /\ told' \in BOOLEAN
      BY <1>3 DEF RequestLabels, UnblockIntent
    <2>3. QED
      BY <1>3, <2>1, <2>2, CommitIntentType DEF UnblockIntent
  <1>4. ASSUME NEW ok \in BOOLEAN, UnblockWithoutSsh(p, ok)
        PROVE  TypeOK'
    <2>1. Lifted(lr[p]) \in OrmObjects
      BY <1>0, LiftedType
    <2>2. [Lifted(lr[p]) EXCEPT !.router_blocked = FALSE] \in OrmObjects
      BY <2>1, RememberType
    <2>3. drop_rule' \in BOOLEAN
      BY <1>4, RouterSetsType DEF UnblockWithoutSsh
    <2>4. lr' \in [Procs -> OrmObjects]
      BY <1>4, <2>1, <2>2, OwnCopyType DEF UnblockWithoutSsh
    <2>5. QED
      BY <1>4, <2>3, <2>4, GotoType
         DEF UnblockWithoutSsh, TypeOK, history, lrDevice, Labels, RequestLabels
  <1>5. ASSUME NEW ok \in BOOLEAN, UnblockRouter(p, ok)
        PROVE  TypeOK'
    <2>1. lr' \in [Procs -> OrmObjects] /\ drop_rule' \in BOOLEAN
      BY <1>5, ClearRouterBlockType DEF UnblockRouter
    <2>2. QED
      BY <1>5, <2>1, GotoType
         DEF UnblockRouter, TypeOK, history, lrDevice, Labels, RequestLabels
  <1>6. ASSUME NEW outcome \in Outcomes, UnblockPort(p, outcome)
        PROVE  TypeOK'
    <2>1. port_down' \in BOOLEAN /\ wa_filter' \in BOOLEAN
      BY <1>6, DeviceType DEF UnblockPort
    <2>2. heard' \in [Procs -> SshOutcomes]
      BY <1>6, OutcomesAssumption DEF UnblockPort, TypeOK, SshOutcomes
    <2>3. QED
      BY <1>6, <2>1, <2>2, GotoType
         DEF UnblockPort, TypeOK, dbVars, history, Labels, RequestLabels
  <1>7. ASSUME NEW outcome \in Outcomes, UnblockFilter(p, outcome)
        PROVE  TypeOK'
    <2>1. port_down' \in BOOLEAN /\ wa_filter' \in BOOLEAN
      BY <1>7, DeviceType DEF UnblockFilter
    <2> DEFINE cleared == Worst(heard[p], outcome)
    <2>2. [lr[p] EXCEPT !.unblock_pending = cleared # "ok"] \in OrmObjects
      BY <1>0, PendingType
    <2>3. lr' \in [Procs -> OrmObjects]
      BY <1>7, <2>2, SetUnenforceableType, OwnCopyType DEF UnblockFilter
    <2>4. QED
      BY <1>7, <2>1, <2>3, GotoType
         DEF UnblockFilter, TypeOK, history, Labels, RequestLabels
  <1>8. CASE UnblockHandedOver(p)
    <2>1. row' \in Rows
      BY <1>0, <1>8, FlushedType DEF UnblockHandedOver, TypeOK
    <2>2. QED
      BY <1>8, <2>1, CloseType DEF UnblockHandedOver, TypeOK, lrDevice, Labels
  <1>9. QED
    BY <1>1, <1>2, <1>3, <1>4, <1>5, <1>6, <1>7, <1>8 DEF UnblockStep

\* Every step of the job's task preserves TypeOK.
LEMMA EnforceType ==
  ASSUME TypeOK, EnforceStart \/ EnforceStep
  PROVE  TypeOK'
  <1> USE ProcsDistinct
  <1>0. lr[Enforcer] \in OrmObjects
    BY DEF TypeOK
  <1>1. CASE EnforceStart
    BY <1>1, LoadType DEF EnforceStart, EnforcerLabels
  <1>2. ASSUME NEW ok \in BOOLEAN, EnforceRouter(ok) \/ EnforceRealign(ok)
        PROVE  TypeOK'
    <2>1. lr' \in [Procs -> OrmObjects] /\ drop_rule' \in BOOLEAN
      BY <1>2, ReconcileRouterType DEF EnforceRouter, EnforceRealign
    <2>2. AfterRouter(lr[Enforcer]) \in EnforcerLabels /\ "commit" \in EnforcerLabels
      BY DEF AfterRouter, EnforcerLabels
    <2>3. QED
      BY <1>2, <2>1, <2>2, GotoType
         DEF EnforceRouter, EnforceRealign, TypeOK, history, lrDevice, Labels
  <1>3. ASSUME NEW outcome \in Outcomes, EnforceAssert(outcome)
        PROVE  TypeOK'
    <2>1. /\ port_down' \in BOOLEAN /\ wa_filter' \in BOOLEAN /\ cut_done' \in BOOLEAN
          /\ told' \in BOOLEAN
      BY <1>3, AssertBlockType DEF EnforceAssert
    <2>2. [SetUnenforceable(lr[Enforcer], FALSE) EXCEPT !.enforced_at = "now"]
             \in OrmObjects
      BY <1>0, SetUnenforceableType DEF OrmObjects, RowsWith
    <2>3. Abandon(lr[Enforcer], FALSE) \in OrmObjects
      BY <1>0, SetUnenforceableType, PendingType DEF Abandon
    <2>4. lr' \in [Procs -> OrmObjects]
      BY <1>3, <1>0, <2>2, <2>3, OwnCopyType DEF EnforceAssert
    <2>5. QED
      BY <1>3, <2>1, <2>4, GotoType
         DEF EnforceAssert, TypeOK, history, Labels, EnforcerLabels
  <1>4. ASSUME NEW outcome \in Outcomes, EnforcePort(outcome)
        PROVE  TypeOK'
    <2>1. port_down' \in BOOLEAN /\ wa_filter' \in BOOLEAN
      BY <1>4, DeviceType DEF EnforcePort
    <2>2. heard' \in [Procs -> SshOutcomes]
      BY <1>4, OutcomesAssumption DEF EnforcePort, TypeOK, SshOutcomes
    <2>3. QED
      BY <1>4, <2>1, <2>2, GotoType
         DEF EnforcePort, TypeOK, dbVars, history, Labels, EnforcerLabels
  <1>5. ASSUME NEW outcome \in Outcomes, EnforceFilter(outcome)
        PROVE  TypeOK'
    <2>1. port_down' \in BOOLEAN /\ wa_filter' \in BOOLEAN
      BY <1>5, DeviceType DEF EnforceFilter
    <2>2. [SetUnenforceable(lr[Enforcer], FALSE) EXCEPT !.unblock_pending = FALSE]
             \in OrmObjects
      BY <1>0, SetUnenforceableType, PendingType
    <2>3. Abandon(lr[Enforcer], TRUE) \in OrmObjects
      BY <1>0, SetUnenforceableType, PendingType DEF Abandon
    <2>4. lr' \in [Procs -> OrmObjects]
      BY <1>5, <1>0, <2>2, <2>3, OwnCopyType DEF EnforceFilter
    <2>5. QED
      BY <1>5, <2>1, <2>4, GotoType
         DEF EnforceFilter, TypeOK, history, Labels, EnforcerLabels
  <1>6. QED
    BY <1>1, <1>2, <1>3, <1>4, <1>5 DEF EnforceStep

\* The end of a handler, whole or cut short, preserves TypeOK.
LEMMA EndType ==
  ASSUME TypeOK, NEW p \in Procs, Commit(p) \/ Abort(p)
  PROVE  TypeOK'
  <1>1. CASE Commit(p)
    <2>1. row' \in Rows
      BY <1>1, FlushedType DEF Commit, TypeOK
    <2>2. QED
      BY <1>1, <2>1, CloseType DEF Commit, TypeOK, history, lrDevice, Labels
  <1>2. CASE Abort(p)
    <2>1. aborts' \in 0..MaxAborts
      BY <1>2, MaxAbortsAssumption DEF Abort, TypeOK
    <2>2. QED
      BY <1>2, <2>1, CloseType DEF Abort, TypeOK, history, lrDevice, Labels
  <1>3. QED
    BY <1>1, <1>2

\* A reboot of the LR, the passing of time and an edited access preserve TypeOK.
LEMMA EnvironmentType ==
  ASSUME TypeOK, LrReboot \/ RetryDelayPasses \/ AccessChanges
  PROVE  TypeOK'
  <1>1. CASE LrReboot
    BY <1>1 DEF LrReboot, TypeOK, dbVars, history
  <1>2. CASE RetryDelayPasses
    <2>1. row' \in Rows
      BY <1>2 DEF RetryDelayPasses, TypeOK, Rows, RowsWith, AbandonStamps
    <2>2. QED
      BY <1>2, <2>1 DEF RetryDelayPasses, TypeOK, history, lrDevice
  <1>3. CASE AccessChanges
    <2>1. PICK reach \in Reaches : row' = [row EXCEPT !.reach = reach]
      BY <1>3 DEF AccessChanges
    <2>2. row' \in Rows
      BY <2>1, ReachesAssumption DEF TypeOK, Rows, RowsWith, Accesses
    <2>3. UNCHANGED <<lr, seen, pc, heard, aborts, lrDevice, drop_rule, history>>
      BY <1>3 DEF AccessChanges
    <2>4. QED
      BY <2>2, <2>3 DEF TypeOK, history, lrDevice
  <1>4. QED
    BY <1>1, <1>2, <1>3

\* TypeOK is inductive.
LEMMA TypeStep == TypeOK /\ [Next]_vars => TypeOK'
  <1> SUFFICES ASSUME TypeOK, [Next]_vars PROVE TypeOK'
    OBVIOUS
  <1>1. CASE UNCHANGED vars
    BY <1>1 DEF vars, TypeOK
  <1>2. CASE Next
    BY <1>2, BlockType, UnblockType, EnforceType, EndType, EnvironmentType DEF Next
  <1>3. QED
    BY <1>1, <1>2

\* Every process is at one of its own awaits and works on a well-formed copy;
\* every commit, from however old a copy, leaves a well-formed row.
THEOREM TypeCorrect == Spec => []TypeOK
  BY TypeInit, TypeStep, PTL DEF Spec

-----------------------------------------------------------------------------
(* The job never gives an order, whatever overlaps and whatever dies.       *)
(* The copy it works on never differs from what it loaded in the two        *)
(* columns of the operator's intent, and a flush writes differences only.   *)

SameIntent(l, m) == l.client_blocked = m.client_blocked /\ l.block_mode = m.block_mode

JobKeepsIntent == SameIntent(lr[Enforcer], seen[Enforcer])

\* _set_unenforceable leaves the operator's intent alone.
LEMMA SetUnenforceableIntent ==
  ASSUME NEW l \in OrmObjects, NEW refused \in BOOLEAN
  PROVE  SameIntent(SetUnenforceable(l, refused), l)
  BY DEF SetUnenforceable, SameIntent, OrmObjects, RowsWith

\* The other columns that the job writes.
LEMMA ReviseIntent ==
  ASSUME NEW l, NEW m \in OrmObjects, SameIntent(m, l), NEW value
  PROVE  /\ SameIntent([m EXCEPT !.enforced_at = value], l)
         /\ SameIntent([m EXCEPT !.unblock_pending = value], l)
  BY DEF SameIntent, OrmObjects, RowsWith

\* The requests work on copies of their own.
LEMMA RequestsLeaveTheJobAlone ==
  ASSUME TypeOK, NEW p \in Requests,
         \/ BlockRequest(p) \/ UnblockRequest(p) \/ UnblockRefused(p)
         \/ BlockStep(p) \/ UnblockStep(p) \/ Commit(p) \/ Abort(p)
  PROVE  /\ lr'[Enforcer] = lr[Enforcer]
         /\ seen'[Enforcer] = seen[Enforcer]
         /\ pc'[Enforcer] = pc[Enforcer]
  <1>1. /\ p # Enforcer /\ Enforcer \in Procs
        /\ lr \in [Procs -> OrmObjects] /\ seen \in [Procs -> OrmObjects]
        /\ pc \in [Procs -> Labels]
    BY ProcsDistinct DEF TypeOK, Labels
  <1>2. CASE BlockRequest(p) \/ UnblockRequest(p)
    BY <1>1, <1>2 DEF BlockRequest, UnblockRequest, Load, Goto
  <1>3. CASE UnblockRefused(p) \/ BlockRefused(p) \/ UnblockHandedOver(p)
             \/ Commit(p) \/ Abort(p)
    BY <1>1, <1>3 DEF UnblockRefused, UnblockHandedOver, BlockRefused, Commit, Abort, Close, Goto
  <1>4. ASSUME NEW mode \in Modes, BlockIntent(p, mode)
        PROVE  /\ lr'[Enforcer] = lr[Enforcer]
               /\ seen'[Enforcer] = seen[Enforcer]
               /\ pc'[Enforcer] = pc[Enforcer]
    BY <1>1, <1>4 DEF BlockIntent, CommitIntent, Goto
  <1>5. CASE UnblockIntent(p)
    BY <1>1, <1>5 DEF UnblockIntent, CommitIntent, Goto
  <1>6. ASSUME NEW outcome \in Outcomes,
               \/ BlockNeutralize(p, outcome) \/ BlockAssert(p, outcome)
               \/ UnblockPort(p, outcome) \/ UnblockFilter(p, outcome)
        PROVE  /\ lr'[Enforcer] = lr[Enforcer]
               /\ seen'[Enforcer] = seen[Enforcer]
               /\ pc'[Enforcer] = pc[Enforcer]
    BY <1>1, <1>6
       DEF BlockNeutralize, BlockAssert, UnblockPort, UnblockFilter, Goto, dbVars
  <1>7. ASSUME NEW ok \in BOOLEAN,
               \/ BlockUncover(p, ok) \/ BlockCover(p, ok)
               \/ UnblockWithoutSsh(p, ok) \/ UnblockRouter(p, ok)
        PROVE  /\ lr'[Enforcer] = lr[Enforcer]
               /\ seen'[Enforcer] = seen[Enforcer]
               /\ pc'[Enforcer] = pc[Enforcer]
    BY <1>1, <1>7
       DEF BlockUncover, BlockCover, UnblockWithoutSsh, UnblockRouter,
           ClearRouterBlock, ReconcileRouter, Goto
  <1>8. QED
    BY <1>2, <1>3, <1>4, <1>5, <1>6, <1>7 DEF BlockStep, UnblockStep

\* No step of the job's task touches the intent in its copy.
LEMMA EnforceStepKeepsIntent ==
  ASSUME TypeOK, JobKeepsIntent, EnforceStep
  PROVE  JobKeepsIntent'
  <1>0. /\ lr[Enforcer] \in OrmObjects
        /\ lr \in [Procs -> OrmObjects] /\ Enforcer \in Procs
    BY ProcsDistinct DEF TypeOK
  <1>1. ASSUME NEW ok \in BOOLEAN, EnforceRouter(ok) \/ EnforceRealign(ok)
        PROVE  JobKeepsIntent'
    BY <1>0, <1>1
       DEF EnforceRouter, EnforceRealign, ReconcileRouter, JobKeepsIntent, SameIntent,
           OrmObjects, RowsWith
  <1> DEFINE mine == lr[Enforcer]
  <1>2. ASSUME NEW outcome \in Outcomes, EnforceAssert(outcome)
        PROVE  JobKeepsIntent'
    <2>1. SameIntent([SetUnenforceable(mine, FALSE) EXCEPT !.enforced_at = "now"], mine)
      BY <1>0, SetUnenforceableIntent, SetUnenforceableType, ReviseIntent
    <2>2. SameIntent(Abandon(mine, FALSE), mine)
      BY <1>0, SetUnenforceableIntent, SetUnenforceableType, ReviseIntent
         DEF Abandon
    <2>3. seen' = seen
      BY <1>2 DEF EnforceAssert
    <2>4. SameIntent(lr'[Enforcer], mine)
      BY <1>0, <1>2, <2>1, <2>2 DEF EnforceAssert, SameIntent
    <2>5. QED
      BY <2>3, <2>4 DEF JobKeepsIntent, SameIntent
  <1>3. ASSUME NEW outcome \in Outcomes, EnforcePort(outcome)
        PROVE  JobKeepsIntent'
    BY <1>3 DEF EnforcePort, dbVars, JobKeepsIntent
  <1>4. ASSUME NEW outcome \in Outcomes, EnforceFilter(outcome)
        PROVE  JobKeepsIntent'
    <2>1. SameIntent([SetUnenforceable(mine, FALSE) EXCEPT !.unblock_pending = FALSE],
                     mine)
      BY <1>0, SetUnenforceableIntent, SetUnenforceableType, ReviseIntent
    <2>2. SameIntent(Abandon(mine, TRUE), mine)
      BY <1>0, SetUnenforceableIntent, SetUnenforceableType, ReviseIntent
         DEF Abandon
    <2>3. seen' = seen
      BY <1>4 DEF EnforceFilter
    <2>4. SameIntent(lr'[Enforcer], mine)
      BY <1>0, <1>4, <2>1, <2>2 DEF EnforceFilter, SameIntent
    <2>5. QED
      BY <2>3, <2>4 DEF JobKeepsIntent, SameIntent
  <1>5. QED
    BY <1>1, <1>2, <1>3, <1>4 DEF EnforceStep

\* That the job's copy holds the intent as loaded is inductive.
LEMMA JobKeepsIntentStep == TypeOK /\ JobKeepsIntent /\ [Next]_vars => JobKeepsIntent'
  <1> SUFFICES ASSUME TypeOK, JobKeepsIntent, [Next]_vars PROVE JobKeepsIntent'
    OBVIOUS
  <1>0. /\ lr \in [Procs -> OrmObjects] /\ seen \in [Procs -> OrmObjects]
        /\ Enforcer \in Procs
    BY ProcsDistinct DEF TypeOK
  <1>1. ASSUME NEW p \in Requests,
               \/ BlockRequest(p) \/ UnblockRequest(p) \/ UnblockRefused(p)
               \/ BlockStep(p) \/ UnblockStep(p) \/ Commit(p) \/ Abort(p)
        PROVE  JobKeepsIntent'
    BY <1>1, RequestsLeaveTheJobAlone DEF JobKeepsIntent, SameIntent
  <1>2. CASE EnforceStart
    BY <1>0, <1>2 DEF EnforceStart, Load, JobKeepsIntent, SameIntent
  <1>3. CASE EnforceStep
    BY <1>3, EnforceStepKeepsIntent
  <1>4. CASE Commit(Enforcer) \/ Abort(Enforcer)
    BY <1>0, <1>4 DEF Commit, Abort, Close, JobKeepsIntent, SameIntent
  <1>5. CASE LrReboot \/ RetryDelayPasses \/ AccessChanges \/ UNCHANGED vars
    BY <1>5 DEF LrReboot, RetryDelayPasses, AccessChanges, vars, dbVars, JobKeepsIntent
  <1>6. QED
    BY <1>1, <1>2, <1>3, <1>4, <1>5 DEF Next, Procs

\* The flush of the job's copy leaves the intent as it finds it.
LEMMA JobCommitStep ==
  ASSUME TypeOK, JobKeepsIntent, [Next]_vars,
         pc[Enforcer] = "commit", pc'[Enforcer] = "idle"
  PROVE  SameIntent(row', row)
  <1>0. Enforcer \in Procs /\ pc \in [Procs -> Labels]
    BY ProcsDistinct DEF TypeOK, Labels
  <1>1. ASSUME NEW p \in Requests,
               \/ BlockRequest(p) \/ UnblockRequest(p) \/ UnblockRefused(p)
               \/ BlockStep(p) \/ UnblockStep(p) \/ Commit(p) \/ Abort(p)
        PROVE  FALSE
    BY <1>1, RequestsLeaveTheJobAlone
  <1>2. ~EnforceStart
    BY DEF EnforceStart, MayStart
  <1>3. ~EnforceStep
    BY DEF EnforceStep, EnforceRouter, EnforceRealign, EnforceAssert, EnforcePort,
           EnforceFilter
  <1>4. CASE Commit(Enforcer)
    BY <1>4 DEF Commit, Flushed, JobKeepsIntent, SameIntent
  <1>5. CASE Abort(Enforcer)
    BY <1>5 DEF Abort, SameIntent
  <1>6. CASE LrReboot \/ RetryDelayPasses \/ AccessChanges \/ UNCHANGED vars
    <2>1. pc' = pc
      BY <1>6 DEF LrReboot, RetryDelayPasses, AccessChanges, vars
    <2>2. QED
      BY <2>1
  <1>7. QED
    BY <1>1, <1>2, <1>3, <1>4, <1>5, <1>6 DEF Next, Procs

\* Whatever order an operator gives while the job is at work, and whatever
\* dies, the job's commit neither cancels nor revives it: it carries out.
THEOREM JobNeverGivesOrders == Spec => IntentIsTheOperators
  <1>1. Init => JobKeepsIntent
    BY ProcsDistinct DEF Init, JobKeepsIntent, SameIntent
  <1>2. TypeOK /\ JobKeepsIntent /\ [Next]_vars
          => [pc[Enforcer] = "commit" /\ pc'[Enforcer] = "idle"
                => /\ row'.client_blocked = row.client_blocked
                   /\ row'.block_mode = row.block_mode]_vars
    BY JobCommitStep DEF SameIntent
  <1>3. QED
    BY <1>1, <1>2, JobKeepsIntentStep, TypeCorrect, PTL
       DEF Spec, IntentIsTheOperators

-----------------------------------------------------------------------------
(* What a step does, as far as orders and cuts go.  A step is one process's  *)
(* or the environment's; the effects below leave out the rest.               *)

SameWait(l, m) ==
    l.client_blocked = m.client_blocked /\ l.unblock_pending = m.unblock_pending

Intents == {"block_intent", "unblock_intent"}
Blocking ==
    {"block_neutralize", "block_assert", "block_uncover", "block_cover",
     "enforce_assert"}
Restoring == {"unblock_router", "unblock_port", "unblock_filter"}
Retrying == {"enforce_port", "enforce_filter"}

\* A handler loads the row.
Starts(p) ==
    /\ pc[p] = "idle" /\ pc'[p] \in Intents \cup {"enforce_router"}
    /\ lr'[p] = row /\ seen'[p] = row
    /\ UNCHANGED <<row, lrDevice, history>>

\* A refused request, or a handler that dies.
Drops(p) ==
    /\ pc'[p] = "idle"
    /\ pc[p] \in Intents \/ Abort(p)
    /\ UNCHANGED <<row, lrDevice, history>>

Records(p) ==
    /\ pc[p] = "commit" /\ pc'[p] = "idle"
    /\ row' = Flushed(lr[p], seen[p])
    /\ UNCHANGED <<lrDevice, history>>

HandsOver(p) ==
    /\ pc[p] = "unblock_handed" /\ pc'[p] = "idle"
    /\ row' = Flushed(lr[p], seen[p])
    /\ UNCHANGED lrDevice /\ ~cut_done' /\ told'

OrdersBlock(p) ==
    /\ pc[p] = "block_intent" /\ pc'[p] = "block_neutralize"
    /\ lr'[p] \in OrmObjects
    /\ lr'[p].client_blocked /\ ~lr'[p].unblock_pending
    /\ lr'[p].enforced_at = lr[p].enforced_at
    /\ seen'[p] = lr'[p] /\ row' = Flushed(lr'[p], seen[p])
    /\ UNCHANGED <<lrDevice, cut_done>>

OrdersUnblock(p) ==
    /\ pc[p] = "unblock_intent" /\ pc'[p] = "unblock_router"
    /\ lr'[p] \in OrmObjects
    /\ ~lr'[p].client_blocked /\ lr'[p].unblock_pending = lr[p].unblock_pending
    /\ lr'[p].enforced_at = "null"
    /\ seen'[p] = lr'[p] /\ row' = Flushed(lr'[p], seen[p])
    /\ UNCHANGED lrDevice /\ ~cut_done'

\* An unblock that finds no credentials, before it commits.
Defers(p) ==
    /\ pc[p] = "unblock_intent" /\ pc'[p] = "unblock_handed"
    /\ ~lr'[p].client_blocked /\ lr'[p].unblock_pending = lr[p].unblock_pending
    /\ lr'[p].enforced_at = "null"
    /\ seen'[p] = seen[p]
    /\ UNCHANGED <<row, lrDevice, history>>

\* A call that shuts nothing on the LR and leaves the copy's orders alone.
Calls(p) ==
    /\ \/ pc[p] = "block_neutralize" /\ pc'[p] = "block_assert"
       \/ pc[p] \in {"block_uncover", "block_cover"} /\ pc'[p] = "commit"
       \/ pc[p] = "unblock_router" /\ pc'[p] = "unblock_port"
       \/ pc[p] = "unblock_port" /\ pc'[p] = "unblock_filter"
       \/ pc[p] = "enforce_port" /\ pc'[p] = "enforce_filter"
       \/ /\ pc[p] = "enforce_router"
          /\ \/ pc'[p] = "commit"
             \/ pc'[p] = "enforce_assert" /\ lr[p].client_blocked
             \/ pc'[p] = "enforce_port" /\ ~lr[p].client_blocked /\ lr[p].unblock_pending
       \/ pc[p] = "enforce_realign" /\ pc'[p] = "commit"
    /\ SameWait(lr'[p], lr[p]) /\ lr'[p].enforced_at = lr[p].enforced_at
    /\ seen'[p] = seen[p]
    /\ port_down' => port_down
    /\ wa_filter' => wa_filter
    /\ pc[p] \in {"unblock_port", "enforce_port"} /\ heard'[p] = "ok" => ~port_down'
    /\ UNCHANGED <<row, history>>

Asserts(p) ==
    /\ \/ pc[p] = "block_assert" /\ pc'[p] \in {"block_uncover", "block_cover"}
       \/ pc[p] = "enforce_assert" /\ pc'[p] = "enforce_realign"
    /\ lr'[p].client_blocked = lr[p].client_blocked
    /\ \/ lr'[p].enforced_at = lr[p].enforced_at
       \/ lr'[p].enforced_at = "now" /\ cut_done'
    /\ cut_done => cut_done'
    /\ seen'[p] = seen[p]
    /\ UNCHANGED <<row, told>>

Restores(p) ==
    /\ \/ pc[p] = "unblock_filter" /\ pc'[p] = "commit"
       \/ /\ pc[p] = "enforce_filter" /\ pc'[p] = "enforce_realign"
    /\ lr'[p].client_blocked = lr[p].client_blocked
    /\ lr'[p].enforced_at = lr[p].enforced_at
    /\ \/ lr'[p].unblock_pending
       \/ pc[p] = "enforce_filter" /\ lr'[p].unblock_pending = lr[p].unblock_pending
       \/ heard[p] = "ok" /\ ~wa_filter'
    /\ seen'[p] = seen[p]
    /\ port_down' = port_down
    /\ wa_filter' => wa_filter
    /\ UNCHANGED <<row, history>>

Effect(p) ==
    \/ Starts(p) \/ Drops(p) \/ Records(p) \/ HandsOver(p) \/ OrdersBlock(p)
    \/ OrdersUnblock(p) \/ Defers(p) \/ Calls(p) \/ Asserts(p) \/ Restores(p)

OthersRest(p) ==
    \A q \in Procs \ {p} : /\ pc'[q] = pc[q] /\ heard'[q] = heard[q]
                           /\ lr'[q] = lr[q] /\ seen'[q] = seen[q]

\* Reboots, edits of the access and the passing of time give no order.
Elsewhere ==
    /\ UNCHANGED <<lr, seen, pc, heard, history>>
    /\ SameWait(row', row) /\ row'.enforced_at = row.enforced_at
    /\ port_down' => port_down
    /\ wa_filter' => wa_filter

\* A step of _reconcile_router or _clear_router_block leaves a copy's orders.
LEMMA RouterKeepsOrders ==
  ASSUME TypeOK, NEW p \in Procs, NEW ok \in BOOLEAN,
         ReconcileRouter(p, ok) \/ ClearRouterBlock(p, ok)
  PROVE  /\ SameWait(lr'[p], lr[p]) /\ lr'[p].enforced_at = lr[p].enforced_at
         /\ \A q \in Procs \ {p} : lr'[q] = lr[q]
  <1>1. lr[p] \in OrmObjects /\ lr \in [Procs -> OrmObjects]
    BY DEF TypeOK
  <1>2. \/ lr' = lr
        \/ \E wanted \in BOOLEAN : lr' = [lr EXCEPT ![p].router_blocked = wanted]
    BY <1>1, DesiredType DEF ReconcileRouter, ClearRouterBlock
  <1>3. QED
    BY <1>1, <1>2 DEF SameWait, OrmObjects, RowsWith

\* Noting a refusal leaves a copy's orders and its stamp.
LEMMA RefusalKeepsOrders ==
  ASSUME NEW l \in OrmObjects, NEW refused \in BOOLEAN
  PROVE  /\ SameWait(SetUnenforceable(l, refused), l)
         /\ SetUnenforceable(l, refused).enforced_at = l.enforced_at
  BY DEF SetUnenforceable, SameWait, OrmObjects, RowsWith

\* Noting whether an unblock is pending changes that column only.
LEMMA PendingKeepsRest ==
  ASSUME NEW l \in OrmObjects, NEW waiting \in BOOLEAN
  PROVE  LET m == [l EXCEPT !.unblock_pending = waiting]
         IN  /\ m \in OrmObjects /\ m.unblock_pending = waiting
             /\ m.client_blocked = l.client_blocked /\ m.enforced_at = l.enforced_at
  BY DEF OrmObjects, RowsWith

\* Abandoning notes the refusal and the pending unblock.
LEMMA AbandonKeepsRest ==
  ASSUME NEW l \in OrmObjects, NEW waiting \in BOOLEAN
  PROVE  LET m == Abandon(l, waiting)
         IN  /\ m.unblock_pending = waiting
             /\ m.client_blocked = l.client_blocked /\ m.enforced_at = l.enforced_at
  <1> DEFINE given_up == SetUnenforceable(l, TRUE)
  <1>1. given_up \in OrmObjects
    BY SetUnenforceableType
  <1>2. SameWait(given_up, l) /\ given_up.enforced_at = l.enforced_at
    BY RefusalKeepsOrders
  <1>3. Abandon(l, waiting) = [given_up EXCEPT !.unblock_pending = waiting]
    BY DEF Abandon
  <1> HIDE DEF given_up
  <1>4. QED
    BY <1>1, <1>2, <1>3, PendingKeepsRest DEF SameWait

\* A session asked to lift something shuts nothing, and lifts it when confirmed.
LEMMA SessionLifts ==
  ASSUME TypeOK, NEW l, NEW outcome \in Outcomes
  PROVE  /\ SetFull(l, FALSE, outcome) =>
              /\ port_down' => port_down
              /\ wa_filter' = wa_filter
              /\ outcome = "ok" => ~port_down'
         /\ SetWhatsapp(l, FALSE, outcome) =>
              /\ wa_filter' => wa_filter
              /\ port_down' = port_down
              /\ outcome = "ok" => ~wa_filter'
  BY DEF SetFull, SetWhatsapp, Left, TypeOK

\* Two sessions succeed only when both do.
LEMMA WorstOk ==
  ASSUME NEW first, NEW second
  PROVE  Worst(first, second) = "ok" => first = "ok" /\ second = "ok"
  BY DEF Worst

\* The steps of block_client.
LEMMA BlockEffect ==
  ASSUME TypeOK, NEW p \in Requests, BlockStep(p)
  PROVE  Effect(p) /\ OthersRest(p)
  <1>0. /\ p \in Procs /\ p # Enforcer
        /\ lr[p] \in OrmObjects /\ lr \in [Procs -> OrmObjects]
        /\ seen \in [Procs -> OrmObjects] /\ pc \in [Procs -> Labels]
        /\ heard \in [Procs -> SshOutcomes]
    BY ProcsDistinct DEF TypeOK, Labels
  <1>1. CASE BlockRefused(p)
    <2>1. Drops(p) /\ OthersRest(p)
      BY <1>0, <1>1 DEF BlockRefused, Close, Goto, Drops, Intents, OthersRest, lrDevice
    <2>2. QED
      BY <2>1 DEF Effect
  <1>2. ASSUME NEW mode \in Modes, BlockIntent(p, mode)
        PROVE  Effect(p) /\ OthersRest(p)
    <2> DEFINE l == [lr[p] EXCEPT !.client_blocked = TRUE, !.block_mode = mode,
                                  !.unblock_pending = FALSE]
    <2>1. /\ l \in OrmObjects /\ l.client_blocked /\ ~l.unblock_pending
          /\ l.enforced_at = lr[p].enforced_at
      BY <1>0, ModesAssumption DEF OrmObjects, RowsWith, BlockModes
    <2>2. /\ CommitIntent(p, l, "block_neutralize") /\ cut_done' = cut_done
          /\ pc[p] = "block_intent"
      BY <1>2 DEF BlockIntent
    <2> HIDE DEF l
    <2>3. OrdersBlock(p) /\ OthersRest(p)
      BY <1>0, <2>1, <2>2 DEF CommitIntent, Goto, OrdersBlock, OthersRest, lrDevice
    <2>4. QED
      BY <2>3 DEF Effect
  <1>3. ASSUME NEW outcome \in Outcomes, BlockNeutralize(p, outcome)
        PROVE  Effect(p) /\ OthersRest(p)
    <2>1. /\ port_down' => port_down
          /\ wa_filter' => wa_filter
      BY <1>3, SessionLifts DEF BlockNeutralize
    <2>2. Calls(p) /\ OthersRest(p)
      BY <1>0, <1>3, <2>1 DEF BlockNeutralize, Goto, Calls, SameWait, OthersRest, dbVars
    <2>3. QED
      BY <2>2 DEF Effect
  <1>4. ASSUME NEW outcome \in Outcomes, BlockAssert(p, outcome)
        PROVE  Effect(p) /\ OthersRest(p)
    <2> DEFINE stamped == [lr[p] EXCEPT !.enforced_at = "now"]
    <2>1. /\ stamped \in OrmObjects /\ stamped.enforced_at = "now"
          /\ stamped.client_blocked = lr[p].client_blocked
      BY <1>0 DEF OrmObjects, RowsWith
    <2>2. lr' = [lr EXCEPT ![p] = IF outcome = "ok" THEN SetUnenforceable(stamped, FALSE)
                                  ELSE SetUnenforceable(lr[p], outcome = "structural")]
      BY <1>4 DEF BlockAssert
    <2> HIDE DEF stamped
    <2>3. /\ lr'[p].client_blocked = lr[p].client_blocked
          /\ lr'[p].enforced_at = IF outcome = "ok" THEN "now" ELSE lr[p].enforced_at
          /\ \A q \in Procs \ {p} : lr'[q] = lr[q]
      <3>1. CASE outcome = "ok"
        <4>1. lr'[p] = SetUnenforceable(stamped, FALSE)
          BY <1>0, <2>2, <3>1
        <4>2. QED
          BY <1>0, <2>1, <2>2, <3>1, <4>1, RefusalKeepsOrders DEF SameWait
      <3>2. CASE outcome # "ok"
        <4>1. lr'[p] = SetUnenforceable(lr[p], outcome = "structural")
          BY <1>0, <2>2, <3>2
        <4>2. QED
          BY <1>0, <2>2, <3>2, <4>1, RefusalKeepsOrders DEF SameWait
      <3>3. QED
        BY <3>1, <3>2
    <2>4. Asserts(p) /\ OthersRest(p)
      BY <1>0, <1>4, <2>3 DEF BlockAssert, AssertBlock, Goto, Asserts, OthersRest
    <2>5. QED
      BY <2>4 DEF Effect
  <1>5. ASSUME NEW ok \in BOOLEAN, BlockUncover(p, ok) \/ BlockCover(p, ok)
        PROVE  Effect(p) /\ OthersRest(p)
    <2>1. /\ SameWait(lr'[p], lr[p]) /\ lr'[p].enforced_at = lr[p].enforced_at
          /\ \A q \in Procs \ {p} : lr'[q] = lr[q]
      BY <1>0, <1>5, RouterKeepsOrders DEF BlockUncover, BlockCover
    <2>2. Calls(p) /\ OthersRest(p)
      BY <1>0, <1>5, <2>1
         DEF BlockUncover, BlockCover, Goto, Calls, OthersRest, lrDevice
    <2>3. QED
      BY <2>2 DEF Effect
  <1>6. QED
    BY <1>1, <1>2, <1>3, <1>4, <1>5 DEF BlockStep

\* The steps of unblock_client.
LEMMA UnblockEffect ==
  ASSUME TypeOK, NEW p \in Requests, UnblockStep(p)
  PROVE  Effect(p) /\ OthersRest(p)
  <1>0. /\ p \in Procs /\ p # Enforcer
        /\ lr[p] \in OrmObjects /\ lr \in [Procs -> OrmObjects]
        /\ seen \in [Procs -> OrmObjects] /\ pc \in [Procs -> Labels]
        /\ heard \in [Procs -> SshOutcomes]
    BY ProcsDistinct DEF TypeOK, Labels
  <1> DEFINE lifted == Lifted(lr[p])
  <1>1. /\ lifted \in OrmObjects /\ ~lifted.client_blocked
        /\ lifted.unblock_pending = lr[p].unblock_pending
        /\ lifted.enforced_at = "null"
    BY <1>0, LiftedType DEF Lifted, OrmObjects, RowsWith
  <1>2. CASE UnblockIntent(p)
    <2>1. CommitIntent(p, lifted, "unblock_router") /\ ~cut_done' /\ pc[p] = "unblock_intent"
      BY <1>2 DEF UnblockIntent
    <2> HIDE DEF lifted
    <2>2. OrdersUnblock(p) /\ OthersRest(p)
      BY <1>0, <1>1, <2>1 DEF CommitIntent, Goto, OrdersUnblock, OthersRest, lrDevice
    <2>3. QED
      BY <2>2 DEF Effect
  <1>3. ASSUME NEW ok \in BOOLEAN, UnblockWithoutSsh(p, ok)
        PROVE  Effect(p) /\ OthersRest(p)
    <2>1. lr' = [lr EXCEPT ![p] = IF ok THEN [lifted EXCEPT !.router_blocked = FALSE]
                                  ELSE lifted]
      BY <1>3 DEF UnblockWithoutSsh
    <2>2. /\ SameWait([lifted EXCEPT !.router_blocked = FALSE], lifted)
          /\ [lifted EXCEPT !.router_blocked = FALSE].enforced_at = lifted.enforced_at
      BY <1>1 DEF SameWait, OrmObjects, RowsWith
    <2> HIDE DEF lifted
    <2>3. Defers(p) /\ OthersRest(p)
      BY <1>0, <1>1, <1>3, <2>1, <2>2
         DEF UnblockWithoutSsh, Goto, Defers, SameWait, OthersRest, lrDevice
    <2>4. QED
      BY <2>3 DEF Effect
  <1> HIDE DEF lifted
  <1>4. CASE UnblockHandedOver(p)
    <2>1. HandsOver(p) /\ OthersRest(p)
      BY <1>0, <1>4 DEF UnblockHandedOver, Close, Goto, HandsOver, OthersRest, lrDevice
    <2>2. QED
      BY <2>1 DEF Effect
  <1>5. ASSUME NEW ok \in BOOLEAN, UnblockRouter(p, ok)
        PROVE  Effect(p) /\ OthersRest(p)
    <2>1. /\ SameWait(lr'[p], lr[p]) /\ lr'[p].enforced_at = lr[p].enforced_at
          /\ \A q \in Procs \ {p} : lr'[q] = lr[q]
      BY <1>0, <1>5, RouterKeepsOrders DEF UnblockRouter
    <2>2. Calls(p) /\ OthersRest(p)
      BY <1>0, <1>5, <2>1 DEF UnblockRouter, Goto, Calls, OthersRest, lrDevice
    <2>3. QED
      BY <2>2 DEF Effect
  <1>6. ASSUME NEW outcome \in Outcomes, UnblockPort(p, outcome)
        PROVE  Effect(p) /\ OthersRest(p)
    <2>1. /\ port_down' => port_down
          /\ wa_filter' = wa_filter
          /\ outcome = "ok" => ~port_down'
      BY <1>6, SessionLifts DEF UnblockPort
    <2>2. Calls(p) /\ OthersRest(p)
      BY <1>0, <1>6, <2>1 DEF UnblockPort, Goto, Calls, SameWait, OthersRest, dbVars
    <2>3. QED
      BY <2>2 DEF Effect
  <1>7. ASSUME NEW outcome \in Outcomes, UnblockFilter(p, outcome)
        PROVE  Effect(p) /\ OthersRest(p)
    <2> DEFINE cleared == Worst(heard[p], outcome)
               failed == cleared # "ok"
               held == [lr[p] EXCEPT !.unblock_pending = failed]
    <2>1. /\ wa_filter' => wa_filter
          /\ port_down' = port_down
          /\ outcome = "ok" => ~wa_filter'
      BY <1>7, SessionLifts DEF UnblockFilter
    <2>2. lr' = [lr EXCEPT ![p] = SetUnenforceable(held, cleared = "structural")]
      BY <1>7 DEF UnblockFilter
    <2>3. ~failed => heard[p] = "ok" /\ outcome = "ok"
      BY WorstOk
    <2> HIDE DEF cleared
    <2>4. failed \in BOOLEAN
      OBVIOUS
    <2> HIDE DEF failed
    <2>5. /\ held \in OrmObjects /\ held.unblock_pending = failed
          /\ held.client_blocked = lr[p].client_blocked
          /\ held.enforced_at = lr[p].enforced_at
      BY <1>0, <2>4, PendingKeepsRest
    <2> HIDE DEF held
    <2>6. lr'[p] = SetUnenforceable(held, cleared = "structural")
      BY <1>0, <2>2
    <2>7. /\ lr'[p].client_blocked = lr[p].client_blocked
          /\ lr'[p].enforced_at = lr[p].enforced_at
          /\ lr'[p].unblock_pending = failed
          /\ \A q \in Procs \ {p} : lr'[q] = lr[q]
      BY <1>0, <2>2, <2>5, <2>6, RefusalKeepsOrders DEF SameWait
    <2>8. Restores(p) /\ OthersRest(p)
      BY <1>0, <1>7, <2>1, <2>3, <2>4, <2>7
         DEF UnblockFilter, Goto, Restores, OthersRest
    <2>9. QED
      BY <2>8 DEF Effect
  <1>8. QED
    BY <1>2, <1>3, <1>4, <1>5, <1>6, <1>7 DEF UnblockStep

\* The steps of the job's task.
LEMMA EnforceEffect ==
  ASSUME TypeOK, EnforceStep
  PROVE  Effect(Enforcer) /\ OthersRest(Enforcer)
  <1> DEFINE p == Enforcer
  <1>0. /\ p \in Procs
        /\ lr[p] \in OrmObjects /\ lr \in [Procs -> OrmObjects]
        /\ seen \in [Procs -> OrmObjects] /\ pc \in [Procs -> Labels]
        /\ heard \in [Procs -> SshOutcomes]
    BY ProcsDistinct DEF TypeOK, Labels
  <1>1. ASSUME NEW ok \in BOOLEAN, EnforceRouter(ok) \/ EnforceRealign(ok)
        PROVE  Effect(p) /\ OthersRest(p)
    <2>1. /\ SameWait(lr'[p], lr[p]) /\ lr'[p].enforced_at = lr[p].enforced_at
          /\ \A q \in Procs \ {p} : lr'[q] = lr[q]
      BY <1>0, <1>1, RouterKeepsOrders DEF EnforceRouter, EnforceRealign
    <2>2. LET next == AfterRouter(lr[p])
          IN  \/ next = "commit"
              \/ next = "enforce_assert" /\ lr[p].client_blocked
              \/ next = "enforce_port" /\ ~lr[p].client_blocked /\ lr[p].unblock_pending
      BY <1>0 DEF AfterRouter, OrmObjects, RowsWith
    <2>3. Calls(p) /\ OthersRest(p)
      BY <1>0, <1>1, <2>1, <2>2
         DEF EnforceRouter, EnforceRealign, Goto, Calls, OthersRest, lrDevice
    <2>4. QED
      BY <2>3 DEF Effect
  <1>2. ASSUME NEW outcome \in Outcomes, EnforceAssert(outcome)
        PROVE  Effect(p) /\ OthersRest(p)
    <2> DEFINE clear == SetUnenforceable(lr[p], FALSE)
               stamped == [clear EXCEPT !.enforced_at = "now"]
    <2>1. clear \in OrmObjects /\ SameWait(clear, lr[p])
      BY <1>0, SetUnenforceableType, RefusalKeepsOrders
    <2> HIDE DEF clear
    <2>2. stamped.enforced_at = "now" /\ stamped.client_blocked = lr[p].client_blocked
      BY <2>1 DEF SameWait, OrmObjects, RowsWith
    <2>3. lr' = [lr EXCEPT ![p] = CASE outcome = "ok" -> stamped
                                    [] outcome = "structural" -> Abandon(lr[p], FALSE)
                                    [] OTHER -> lr[p]]
      BY <1>2 DEF EnforceAssert, clear
    <2> HIDE DEF stamped
    <2>4. /\ Abandon(lr[p], FALSE).client_blocked = lr[p].client_blocked
          /\ Abandon(lr[p], FALSE).enforced_at = lr[p].enforced_at
      BY <1>0, AbandonKeepsRest
    <2>5. \/ outcome = "ok" /\ lr'[p] = stamped
          \/ lr'[p] = Abandon(lr[p], FALSE)
          \/ lr'[p] = lr[p]
      BY <1>0, <2>3
    <2>6. /\ lr'[p].client_blocked = lr[p].client_blocked
          /\ \/ lr'[p].enforced_at = lr[p].enforced_at
             \/ lr'[p].enforced_at = "now" /\ outcome = "ok"
          /\ \A q \in Procs \ {p} : lr'[q] = lr[q]
      BY <1>0, <2>2, <2>3, <2>4, <2>5
    <2>7. Asserts(p) /\ OthersRest(p)
      BY <1>0, <1>2, <2>6 DEF EnforceAssert, AssertBlock, Goto, Asserts, OthersRest
    <2>8. QED
      BY <2>7 DEF Effect
  <1>3. ASSUME NEW outcome \in Outcomes, EnforcePort(outcome)
        PROVE  Effect(p) /\ OthersRest(p)
    <2>1. /\ port_down' => port_down
          /\ wa_filter' = wa_filter
          /\ outcome = "ok" => ~port_down'
      BY <1>3, SessionLifts DEF EnforcePort
    <2>2. Calls(p) /\ OthersRest(p)
      BY <1>0, <1>3, <2>1 DEF EnforcePort, Goto, Calls, SameWait, OthersRest, dbVars
    <2>3. QED
      BY <2>2 DEF Effect
  <1>4. ASSUME NEW outcome \in Outcomes, EnforceFilter(outcome)
        PROVE  Effect(p) /\ OthersRest(p)
    <2> DEFINE cleared == Worst(heard[p], outcome)
               clear == SetUnenforceable(lr[p], FALSE)
               done == [clear EXCEPT !.unblock_pending = FALSE]
    <2>1. /\ wa_filter' => wa_filter
          /\ port_down' = port_down
          /\ outcome = "ok" => ~wa_filter'
      BY <1>4, SessionLifts DEF EnforceFilter
    <2>2. cleared = "ok" => heard[p] = "ok" /\ outcome = "ok"
      BY WorstOk
    <2>3. lr' = [lr EXCEPT ![p] = CASE cleared = "ok" -> done
                                    [] cleared = "structural" -> Abandon(lr[p], TRUE)
                                    [] OTHER -> lr[p]]
      BY <1>4 DEF EnforceFilter
    <2>4. /\ clear \in OrmObjects /\ SameWait(clear, lr[p])
          /\ clear.enforced_at = lr[p].enforced_at
      BY <1>0, SetUnenforceableType, RefusalKeepsOrders
    <2> HIDE DEF clear, cleared
    <2>5. /\ done.client_blocked = lr[p].client_blocked
          /\ done.enforced_at = lr[p].enforced_at
      BY <2>4, PendingKeepsRest DEF SameWait
    <2> HIDE DEF done
    <2>6. LET m == Abandon(lr[p], TRUE)
          IN  /\ m.unblock_pending /\ m.client_blocked = lr[p].client_blocked
              /\ m.enforced_at = lr[p].enforced_at
      BY <1>0, AbandonKeepsRest
    <2>7. \/ cleared = "ok" /\ lr'[p] = done
          \/ lr'[p] = Abandon(lr[p], TRUE)
          \/ lr'[p] = lr[p]
      BY <1>0, <2>3
    <2>8. /\ lr'[p].client_blocked = lr[p].client_blocked
          /\ lr'[p].enforced_at = lr[p].enforced_at
          /\ \/ lr'[p].unblock_pending
             \/ lr'[p].unblock_pending = lr[p].unblock_pending
             \/ heard[p] = "ok" /\ ~wa_filter'
          /\ \A q \in Procs \ {p} : lr'[q] = lr[q]
      BY <1>0, <2>1, <2>2, <2>3, <2>5, <2>6, <2>7
    <2>9. Restores(p) /\ OthersRest(p)
      BY <1>0, <1>4, <2>1, <2>8 DEF EnforceFilter, Goto, Restores, OthersRest
    <2>10. QED
      BY <2>9 DEF Effect
  <1>5. QED
    BY <1>1, <1>2, <1>3, <1>4 DEF EnforceStep

\* Loading the row.
LEMMA LoadEffect ==
  ASSUME TypeOK, NEW p \in Procs, pc[p] = "idle",
         NEW label \in Intents \cup {"enforce_router"}, Load(p, label)
  PROVE  Effect(p) /\ OthersRest(p)
  <1>1. Starts(p) /\ OthersRest(p)
    BY DEF TypeOK, Load, Goto, Starts, OthersRest, lrDevice
  <1>2. QED
    BY <1>1 DEF Effect

\* The end of a handler, whole or cut short.
LEMMA EndEffect ==
  ASSUME TypeOK, NEW p \in Procs, Commit(p) \/ Abort(p)
  PROVE  Effect(p) /\ OthersRest(p)
  <1>1. OthersRest(p) /\ pc'[p] = "idle"
    BY DEF TypeOK, Commit, Abort, Close, Goto, OthersRest
  <1>2. CASE Commit(p)
    BY <1>1, <1>2 DEF Commit, Records, Effect, lrDevice
  <1>3. CASE Abort(p)
    BY <1>1, <1>3 DEF Abort, Drops, Effect, lrDevice
  <1>4. QED
    BY <1>2, <1>3

\* A step is one process's, or the environment's.
LEMMA StepEffect ==
  ASSUME TypeOK, [Next]_vars
  PROVE  Elsewhere \/ \E p \in Procs : Effect(p) /\ OthersRest(p)
  <1> DEFINE Moved == \E p \in Procs : Effect(p) /\ OthersRest(p)
  <1>1. ASSUME NEW p \in Requests,
               \/ BlockRequest(p) \/ UnblockRequest(p) \/ UnblockRefused(p)
               \/ BlockStep(p) \/ UnblockStep(p)
        PROVE  Moved
    <2>1. p \in Procs
      BY ProcsDistinct
    <2>2. CASE BlockRequest(p) \/ UnblockRequest(p)
      BY <2>1, <2>2, LoadEffect DEF BlockRequest, UnblockRequest, MayStart, Intents
    <2>3. CASE UnblockRefused(p)
      <3>1. Drops(p) /\ OthersRest(p)
        BY <2>1, <2>3
           DEF TypeOK, UnblockRefused, Close, Goto, Drops, Intents, OthersRest, lrDevice
      <3>2. QED
        BY <2>1, <3>1 DEF Effect
    <2>4. CASE BlockStep(p) \/ UnblockStep(p)
      BY <2>1, <2>4, BlockEffect, UnblockEffect
    <2>5. QED
      BY <1>1, <2>2, <2>3, <2>4
  <1>2. ASSUME EnforceStart PROVE Moved
    BY <1>2, ProcsDistinct, LoadEffect DEF EnforceStart, MayStart
  <1>3. ASSUME EnforceStep PROVE Moved
    BY <1>3, ProcsDistinct, EnforceEffect
  <1>4. ASSUME NEW p \in Procs, Commit(p) \/ Abort(p)
        PROVE  Moved
    BY <1>4, EndEffect
  <1>5. ASSUME LrReboot PROVE Elsewhere
    BY <1>5 DEF LrReboot, Elsewhere, dbVars, SameWait
  <1>6. ASSUME RetryDelayPasses PROVE Elsewhere
    BY <1>6 DEF RetryDelayPasses, Elsewhere, SameWait, TypeOK, Rows, RowsWith, lrDevice
  <1>7. ASSUME AccessChanges PROVE Elsewhere
    <2>1. PICK reach \in Reaches : row' = [row EXCEPT !.reach = reach]
      BY <1>7 DEF AccessChanges
    <2>2. SameWait(row', row) /\ row'.enforced_at = row.enforced_at
      BY <2>1 DEF SameWait, TypeOK, Rows, RowsWith
    <2>3. QED
      BY <1>7, <2>2 DEF AccessChanges, Elsewhere, lrDevice
  <1>8. ASSUME UNCHANGED vars PROVE Elsewhere
    BY <1>8 DEF vars, history, Elsewhere, SameWait
  <1> HIDE DEF Moved
  <1>9. CASE Next
    <2>1. Elsewhere \/ Moved
      BY <1>1, <1>2, <1>3, <1>4, <1>5, <1>6, <1>7, <1>9 DEF Next
    <2>2. QED
      BY <2>1 DEF Moved
  <1>10. QED
    BY <1>8, <1>9 DEF Moved

-----------------------------------------------------------------------------
(* What a handler's copy always says, whatever the others commit meanwhile:  *)
(* its order is the one it loaded or committed, except between the router's  *)
(* answer and the commit of an unblock without credentials.                  *)

CopyOk(p) ==
    /\ pc[p] \in Intents => SameWait(lr[p], seen[p]) /\ lr[p].enforced_at # "now"
    /\ pc[p] # "unblock_handed" =>
         /\ lr[p].client_blocked = seen[p].client_blocked
         /\ lr[p].enforced_at \in {seen[p].enforced_at, "now"}
    /\ pc[p] = "unblock_handed" => ~lr[p].client_blocked /\ lr[p].enforced_at = "null"
    /\ pc[p] \in Blocking => lr[p].client_blocked
    /\ pc[p] \in Restoring \cup Retrying =>
         /\ ~lr[p].client_blocked
         /\ lr[p].unblock_pending = seen[p].unblock_pending
    /\ pc[p] \in Retrying => lr[p].unblock_pending
    /\ pc[p] \in {"enforce_router", "unblock_handed"} =>
         lr[p].unblock_pending = seen[p].unblock_pending
    /\ seen[p].enforced_at # "now"
    /\ lr[p].enforced_at = "now" => lr[p].client_blocked

Copies == \A p \in Procs : pc[p] # "idle" => CopyOk(p)

\* The copy of the process that moves.
LEMMA OwnCopyOk ==
  ASSUME TypeOK, Copies, NEW p \in Procs, Effect(p)
  PROVE  (pc[p] # "idle" => CopyOk(p))'
  <1>0. /\ row \in Rows /\ row.enforced_at # "now"
        /\ pc[p] # "idle" => CopyOk(p)
    BY DEF TypeOK, Rows, RowsWith, EnforcedStamps, Copies
  <1>1. CASE Starts(p)
    BY <1>0, <1>1 DEF Starts, CopyOk, SameWait, Intents, Blocking, Restoring, Retrying
  <1>2. CASE Drops(p) \/ Records(p) \/ HandsOver(p)
    BY <1>2 DEF Drops, Records, HandsOver
  <1>3. CASE OrdersBlock(p)
    BY <1>0, <1>3 DEF OrdersBlock, CopyOk, Intents, Blocking, Restoring, Retrying
  <1>4. CASE OrdersUnblock(p)
    BY <1>0, <1>4 DEF OrdersUnblock, CopyOk, Intents, Blocking, Restoring, Retrying
  <1>5. CASE Defers(p)
    BY <1>0, <1>5 DEF Defers, CopyOk, SameWait, Intents, Blocking, Restoring, Retrying
  <1>6. CASE Calls(p)
    BY <1>0, <1>6 DEF Calls, CopyOk, SameWait, Intents, Blocking, Restoring, Retrying
  <1>7. CASE Asserts(p)
    BY <1>0, <1>7 DEF Asserts, CopyOk, Intents, Blocking, Restoring, Retrying
  <1>8. CASE Restores(p)
    BY <1>0, <1>8 DEF Restores, CopyOk, Intents, Blocking, Restoring, Retrying
  <1>9. QED
    BY <1>1, <1>2, <1>3, <1>4, <1>5, <1>6, <1>7, <1>8 DEF Effect

\* Copies is inductive.
LEMMA CopiesStep == TypeOK /\ Copies /\ [Next]_vars => Copies'
  <1> SUFFICES ASSUME TypeOK, Copies, [Next]_vars PROVE Copies'
    OBVIOUS
  <1>1. CASE Elsewhere
    BY <1>1 DEF Elsewhere, Copies, CopyOk
  <1>2. ASSUME NEW p \in Procs, Effect(p), OthersRest(p)
        PROVE  Copies'
    <2>1. \A q \in Procs \ {p} : (pc[q] # "idle" => CopyOk(q))'
      BY <1>2 DEF OthersRest, Copies, CopyOk
    <2>2. QED
      BY <1>2, <2>1, OwnCopyOk DEF Copies
  <1>3. QED
    BY <1>1, <1>2, StepEffect

\* No handler is at work at first.
LEMMA CopiesInit == Init => Copies
  BY DEF Init, Copies

\* The orders and the stamp that a flush leaves in the row.
LEMMA FlushedOrders ==
  ASSUME NEW l \in OrmObjects, NEW s
  PROVE  /\ Flushed(l, s).client_blocked =
              IF l.client_blocked # s.client_blocked THEN l.client_blocked
              ELSE row.client_blocked
         /\ Flushed(l, s).unblock_pending =
              IF l.unblock_pending # s.unblock_pending THEN l.unblock_pending
              ELSE row.unblock_pending
         /\ Flushed(l, s).enforced_at =
              IF l.enforced_at = s.enforced_at THEN row.enforced_at
              ELSE IF l.enforced_at = "now" THEN "set" ELSE l.enforced_at
  <1>1. /\ Stored(l).client_blocked = l.client_blocked
        /\ Stored(l).unblock_pending = l.unblock_pending
        /\ Stored(l).enforced_at = IF l.enforced_at = "now" THEN "set" ELSE l.enforced_at
    BY DEF Stored, OrmObjects, RowsWith
  <1>2. QED
    BY <1>1 DEF Flushed

-----------------------------------------------------------------------------
(* Nobody is forgotten, in any execution in which no order is committed      *)
(* under a handler at work (the case of the run ClientBlockStaleCut) and no  *)
(* unblock dies between its two commits (that of ClientBlockCrash): whatever *)
(* else overlaps, dies, refuses, and whoever edits the access to the LR.     *)
(* The invariant follows the cut from the row to the request that lifts it.  *)

\* No commit has changed the order that a handler at work carries out.
OrdersFresh == \A p \in Procs : pc[p] # "idle" => SameWait(seen[p], row)

\* The unblock of p, lifted in the row, is p's to finish or to leave pending.
RestoreInHand(p) ==
    \/ pc[p] \in Restoring
    \/ pc[p] = "commit" /\ lr[p].unblock_pending /\ ~seen[p].unblock_pending

\* Such a handler does not die.
UnblocksSurvive == [][\A p \in Procs : RestoreInHand(p) => ~Abort(p)]_vars

InHandOf(p) ==
    /\ pc[p] \in {"unblock_filter", "enforce_filter"} /\ heard[p] = "ok" => ~port_down
    /\ pc[p] # "unblock_handed" /\ ~lr[p].client_blocked
         /\ seen[p].unblock_pending /\ ~lr[p].unblock_pending => ~OnLr

CutInHand ==
    OnLr => \/ row.client_blocked \/ row.unblock_pending \/ told
            \/ \E p \in Procs : RestoreInHand(p)

InHand == CutInHand /\ \A p \in Procs : pc[p] # "idle" => InHandOf(p)

\* Only a handler that asserts an order of the row shuts anything on the LR.
LEMMA CutIsOrdered ==
  ASSUME TypeOK, Copies, OrdersFresh, NEW p \in Procs, Effect(p)
  PROVE  \/ Asserts(p) /\ row.client_blocked
         \/ ~Asserts(p) /\ (port_down' => port_down) /\ (OnLr' => OnLr)
  <1>1. CASE Asserts(p)
    <2>1. pc[p] \in {"block_assert", "enforce_assert"}
      BY <1>1 DEF Asserts
    <2>2. row.client_blocked
      BY <2>1 DEF Copies, CopyOk, Blocking, OrdersFresh, SameWait
    <2>3. QED
      BY <1>1, <2>2
  <1>2. CASE ~Asserts(p)
    BY <1>2
       DEF Effect, Starts, Drops, Records, HandsOver, OrdersBlock, OrdersUnblock, Defers,
           Calls, Restores, OnLr, lrDevice
  <1>3. QED
    BY <1>1, <1>2

\* The others' sessions stay what they were.
LEMMA OthersInHand ==
  ASSUME TypeOK, Copies, OrdersFresh, InHand, NEW p \in Procs, Effect(p), OthersRest(p),
         NEW q \in Procs \ {p}
  PROVE  (pc[q] # "idle" => InHandOf(q))'
  <1>1. CASE ~Asserts(p)
    BY <1>1, CutIsOrdered DEF OthersRest, InHand, InHandOf
  <1>2. CASE Asserts(p)
    <2>1. row.client_blocked
      BY <1>2, CutIsOrdered
    <2>2. pc[q] # "idle" => seen[q].client_blocked
      BY <2>1 DEF OrdersFresh, SameWait
    <2>3. pc[q] # "idle" /\ pc[q] # "unblock_handed" => lr[q].client_blocked
      BY <2>2 DEF Copies, CopyOk
    <2>4. pc[q] \notin {"unblock_filter", "enforce_filter"}
      BY <2>3 DEF Copies, CopyOk, Restoring, Retrying
    <2>5. QED
      BY <2>3, <2>4 DEF OthersRest, InHandOf
  <1>3. QED
    BY <1>1, <1>2

\* Nor does the one that moves take for lifted what is not.
LEMMA OwnInHand ==
  ASSUME TypeOK, Copies, OrdersFresh, InHand, NEW p \in Procs, Effect(p)
  PROVE  (pc[p] # "idle" => InHandOf(p))'
  <1>1. CASE Starts(p)
    BY <1>1 DEF Starts, InHandOf, Intents
  <1>2. CASE Drops(p) \/ Records(p) \/ HandsOver(p)
    BY <1>2 DEF Drops, Records, HandsOver
  <1>3. CASE OrdersBlock(p) \/ OrdersUnblock(p)
    BY <1>3 DEF OrdersBlock, OrdersUnblock, InHandOf
  <1>4. CASE Defers(p)
    BY <1>4 DEF Defers, InHandOf
  <1>5. CASE Calls(p)
    <2>1. /\ pc[p] # "idle" /\ pc[p] # "unblock_handed"
          /\ pc'[p] \in {"unblock_filter", "enforce_filter"}
               => pc[p] \in {"unblock_port", "enforce_port"}
          /\ OnLr' => OnLr
      BY <1>5 DEF Calls, OnLr
    <2>2. InHandOf(p)
      BY <2>1 DEF InHand
    <2>3. QED
      BY <1>5, <2>1, <2>2 DEF Calls, InHandOf, SameWait
  <1>6. CASE Asserts(p)
    <2>1. lr[p].client_blocked /\ pc'[p] \notin {"unblock_filter", "enforce_filter"}
      BY <1>6 DEF Asserts, Copies, CopyOk, Blocking
    <2>2. QED
      BY <1>6, <2>1 DEF Asserts, InHandOf
  <1>7. CASE Restores(p)
    <2>1. /\ InHandOf(p) /\ pc[p] \in {"unblock_filter", "enforce_filter"}
          /\ pc'[p] \notin {"unblock_filter", "enforce_filter"}
      BY <1>7 DEF Restores, InHand
    <2>2. pc[p] = "enforce_filter" => lr[p].unblock_pending
      BY DEF Copies, CopyOk, Retrying
    <2>3. lr'[p].unblock_pending \/ (heard[p] = "ok" /\ ~wa_filter')
      BY <1>7, <2>2 DEF Restores
    <2>4. heard[p] = "ok" /\ ~wa_filter' => ~OnLr'
      BY <1>7, <2>1 DEF Restores, InHandOf, OnLr
    <2>5. QED
      BY <2>1, <2>3, <2>4 DEF InHandOf
  <1>8. QED
    BY <1>1, <1>2, <1>3, <1>4, <1>5, <1>6, <1>7 DEF Effect

\* Whatever still cuts the client stays in somebody's hands.
LEMMA CutStaysInHand ==
  ASSUME TypeOK, Copies, OrdersFresh, InHand, NEW p \in Procs, Effect(p), OthersRest(p),
         RestoreInHand(p) => ~Abort(p)
  PROVE  CutInHand'
  <1>0. /\ pc[p] # "idle" => CopyOk(p) /\ SameWait(seen[p], row) /\ InHandOf(p)
        /\ lr[p] \in OrmObjects
    BY DEF Copies, OrdersFresh, InHand, TypeOK
  <1>1. \A q \in Procs \ {p} : RestoreInHand(q)' <=> RestoreInHand(q)
    BY DEF OthersRest, RestoreInHand
  <1>2. CASE Starts(p)
    BY <1>1, <1>2 DEF Starts, RestoreInHand, Restoring, InHand, CutInHand, OnLr, lrDevice,
                      history
  <1>3. CASE Drops(p)
    <2>1. ~RestoreInHand(p)
      BY <1>3 DEF Drops, RestoreInHand, Intents, Restoring
    <2>2. QED
      BY <1>1, <1>3, <2>1 DEF Drops, InHand, CutInHand, OnLr, lrDevice, history
  <1>4. CASE Records(p)
    <2>1. pc[p] = "commit" /\ row' = Flushed(lr[p], seen[p])
          /\ told' = told /\ OnLr' = OnLr
      BY <1>4 DEF Records, OnLr, lrDevice, history
    <2>2. /\ row'.client_blocked = row.client_blocked
          /\ row'.unblock_pending = IF lr[p].unblock_pending # seen[p].unblock_pending
                                    THEN lr[p].unblock_pending ELSE row.unblock_pending
      BY <1>0, <2>1, FlushedOrders DEF CopyOk
    <2>3. RestoreInHand(p) => row'.unblock_pending
      BY <2>1, <2>2 DEF RestoreInHand, Restoring
    <2>4. OnLr /\ row.unblock_pending => row'.client_blocked \/ row'.unblock_pending
      <3>1. SUFFICES ASSUME OnLr, row.unblock_pending, ~row.client_blocked
                     PROVE  row'.unblock_pending
        BY <2>2
      <3>2. seen[p].unblock_pending /\ ~lr[p].client_blocked
        BY <1>0, <2>1, <3>1 DEF SameWait, CopyOk
      <3>3. lr[p].unblock_pending
        BY <1>0, <2>1, <3>1, <3>2 DEF InHandOf
      <3>4. QED
        BY <2>2, <3>1, <3>3
    <2>5. QED
      BY <1>1, <2>1, <2>2, <2>3, <2>4 DEF InHand, CutInHand
  <1>5. CASE HandsOver(p)
    BY <1>5 DEF HandsOver, CutInHand
  <1>6. CASE OrdersBlock(p)
    <2>1. row'.client_blocked
      BY <1>0, <1>6, FlushedOrders DEF OrdersBlock, SameWait
    <2>2. QED
      BY <2>1 DEF CutInHand
  <1>7. CASE OrdersUnblock(p)
    BY <1>7 DEF OrdersUnblock, CutInHand, RestoreInHand, Restoring
  <1>8. CASE Defers(p)
    BY <1>1, <1>8 DEF Defers, RestoreInHand, Restoring, InHand, CutInHand, OnLr, lrDevice,
                      history
  <1>9. CASE Calls(p)
    <2>1. RestoreInHand(p) => RestoreInHand(p)'
      BY <1>9 DEF Calls, RestoreInHand, Restoring
    <2>2. (OnLr' => OnLr) /\ row' = row /\ told' = told
      BY <1>9 DEF Calls, OnLr, history
    <2>3. QED
      BY <1>1, <2>1, <2>2 DEF InHand, CutInHand
  <1>10. CASE Asserts(p)
    BY <1>10, CutIsOrdered DEF Asserts, CutInHand
  <1>11. CASE Restores(p)
    <2>1. /\ pc[p] \in {"unblock_filter", "enforce_filter"}
          /\ (OnLr' => OnLr) /\ row' = row /\ told' = told /\ seen'[p] = seen[p]
      BY <1>11 DEF Restores, OnLr, history
    <2>2. RestoreInHand(p) /\ OnLr' => row'.unblock_pending \/ RestoreInHand(p)'
      <3>1. SUFFICES ASSUME RestoreInHand(p), OnLr'
                     PROVE  row'.unblock_pending \/ RestoreInHand(p)'
        OBVIOUS
      <3>2. pc[p] = "unblock_filter" /\ pc'[p] = "commit"
        BY <1>11, <2>1, <3>1 DEF Restores, RestoreInHand, Restoring
      <3>3. lr'[p].unblock_pending
        BY <1>0, <1>11, <3>1, <3>2 DEF Restores, InHandOf, OnLr
      <3>4. seen[p].unblock_pending => row.unblock_pending
        BY <1>0, <3>2 DEF SameWait
      <3>5. QED
        BY <2>1, <3>2, <3>3, <3>4 DEF RestoreInHand
    <2>3. QED
      BY <1>1, <2>1, <2>2 DEF InHand, CutInHand
  <1>12. QED
    BY <1>2, <1>3, <1>4, <1>5, <1>6, <1>7, <1>8, <1>9, <1>10, <1>11 DEF Effect

\* InHand is inductive along such executions.
LEMMA InHandStep ==
  ASSUME TypeOK, Copies, OrdersFresh, InHand, [Next]_vars,
         \A p \in Procs : RestoreInHand(p) => ~Abort(p)
  PROVE  InHand'
  <1>1. CASE Elsewhere
    <2>1. /\ OnLr' => OnLr
          /\ port_down' => port_down
          /\ told' = told
          /\ SameWait(row', row)
          /\ UNCHANGED <<lr, seen, pc, heard>>
      BY <1>1 DEF Elsewhere, OnLr, history
    <2>2. QED
      BY <2>1 DEF InHand, InHandOf, CutInHand, RestoreInHand, SameWait
  <1>2. ASSUME NEW p \in Procs, Effect(p), OthersRest(p)
        PROVE  InHand'
    BY <1>2, OthersInHand, OwnInHand, CutStaysInHand DEF InHand
  <1>3. QED
    BY <1>1, <1>2, StepEffect

\* A client whose LR is still cut is selected by the enforcement job, or the
\* operator was told, in every execution in which no order is committed under
\* a handler at work and no unblock dies between its two commits.
THEOREM NobodyForgotten ==
  Spec /\ []OrdersFresh /\ UnblocksSurvive => []NothingForgotten
  <1>1. Init => InHand
    BY DEF Init, InHand, CutInHand, OnLr
  <1>2. /\ TypeOK /\ Copies /\ OrdersFresh /\ InHand /\ [Next]_vars
        /\ [\A p \in Procs : RestoreInHand(p) => ~Abort(p)]_vars
        => InHand'
    <2>1. ASSUME UNCHANGED vars, NEW p \in Procs, RestoreInHand(p), Abort(p)
          PROVE  FALSE
      BY <2>1 DEF vars, Abort, TypeOK, RestoreInHand, Restoring
    <2>2. QED
      BY <2>1, InHandStep
  <1>3. InHand => NothingForgotten
    BY DEF InHand, CutInHand, RestoreInHand, Restoring, NothingForgotten, Quiet, Selected
  <1>4. QED
    BY <1>1, <1>2, <1>3, TypeCorrect, CopiesInit, CopiesStep, PTL
       DEF Spec, UnblocksSurvive

-----------------------------------------------------------------------------
(* The row says "cut by the LR" only of a cut that was made.  A pass that    *)
(* ends after an unblock would stamp a row without order: hence the          *)
(* hypothesis that no commit changes, under a handler at work, the order or  *)
(* whether its cut is confirmed.                                             *)

StampsFresh ==
    \A p \in Procs : pc[p] # "idle" =>
        /\ seen[p].client_blocked = row.client_blocked
        /\ (seen[p].enforced_at = "null") <=> (row.enforced_at = "null")

StampsAreTrue ==
    /\ row.enforced_at # "null" => cut_done
    /\ \A p \in Procs : pc[p] # "idle" /\ lr[p].enforced_at = "now" => cut_done

\* A lifted order erases the stamp, and nobody at work holds another.
LEMMA LiftedStamps ==
  ASSUME TypeOK, Copies, StampsFresh, StampsFresh', NEW p \in Procs, OthersRest(p),
         pc[p] # "idle", NEW l \in OrmObjects,
         ~l.client_blocked, l.enforced_at = "null", row' = Flushed(l, seen[p]),
         (pc[p] # "idle" => lr[p].enforced_at # "now")'
  PROVE  StampsAreTrue'
  <1>1. row'.enforced_at = "null" /\ ~row'.client_blocked
    <2>1. /\ seen[p].client_blocked = row.client_blocked
          /\ (seen[p].enforced_at = "null") <=> (row.enforced_at = "null")
      BY DEF StampsFresh
    <2>2. QED
      BY <2>1, FlushedOrders
  <1>2. ASSUME NEW q \in Procs \ {p}, pc[q] # "idle", lr[q].enforced_at = "now"
        PROVE  FALSE
    <2>1. CopyOk(q)
      BY <1>2 DEF Copies
    <2>2. seen[q].client_blocked
      BY <2>1, <1>2 DEF CopyOk
    <2>3. pc'[q] # "idle" /\ seen'[q].client_blocked
      BY <1>2, <2>2 DEF OthersRest
    <2>4. row'.client_blocked
      BY <2>3 DEF StampsFresh
    <2>5. QED
      BY <1>1, <2>4
  <1>3. QED
    BY <1>1, <1>2 DEF StampsAreTrue, OthersRest

\* StampsAreTrue is inductive along such executions.
LEMMA StampsStep ==
  ASSUME TypeOK, Copies, StampsFresh, StampsFresh', StampsAreTrue, [Next]_vars
  PROVE  StampsAreTrue'
  <1>1. CASE Elsewhere
    BY <1>1 DEF Elsewhere, StampsAreTrue, history
  <1>2. ASSUME NEW p \in Procs, Effect(p), OthersRest(p)
        PROVE  StampsAreTrue'
    <2>0. /\ pc[p] # "idle" => CopyOk(p)
          /\ lr[p] \in OrmObjects /\ row.enforced_at # "now"
      BY DEF Copies, TypeOK, Rows, RowsWith, EnforcedStamps
    <2>1. CASE Starts(p)
      BY <1>2, <2>0, <2>1 DEF Starts, OthersRest, StampsAreTrue, history
    <2>2. CASE Drops(p)
      BY <1>2, <2>2 DEF Drops, OthersRest, StampsAreTrue, history
    <2>3. CASE Records(p)
      <3>1. row'.enforced_at = IF lr[p].enforced_at = seen[p].enforced_at
                               THEN row.enforced_at ELSE "set"
        BY <2>0, <2>3, FlushedOrders DEF Records, CopyOk
      <3>2. lr[p].enforced_at = seen[p].enforced_at \/ lr[p].enforced_at = "now"
        BY <2>0, <2>3 DEF Records, CopyOk
      <3>3. QED
        BY <1>2, <2>3, <3>1, <3>2 DEF Records, OthersRest, StampsAreTrue, history
    <2>4. CASE HandsOver(p)
      <3>1. /\ pc[p] # "idle" /\ pc'[p] = "idle" /\ row' = Flushed(lr[p], seen[p])
            /\ ~lr[p].client_blocked /\ lr[p].enforced_at = "null"
        BY <2>0, <2>4 DEF HandsOver, CopyOk
      <3>2. QED
        BY <1>2, <2>0, <3>1, LiftedStamps
    <2>5. CASE OrdersBlock(p)
      <3>1. lr'[p].enforced_at = seen[p].enforced_at /\ lr'[p].enforced_at # "now"
        BY <2>0, <2>5 DEF OrdersBlock, CopyOk, Intents
      <3>2. row'.enforced_at = row.enforced_at
        BY <2>5, <3>1, FlushedOrders DEF OrdersBlock
      <3>3. QED
        BY <1>2, <2>5, <3>1, <3>2 DEF OrdersBlock, OthersRest, StampsAreTrue
    <2>6. CASE OrdersUnblock(p)
      <3>1. /\ pc[p] # "idle" /\ row' = Flushed(lr'[p], seen[p]) /\ lr'[p] \in OrmObjects
            /\ ~lr'[p].client_blocked /\ lr'[p].enforced_at = "null"
        BY <2>6 DEF OrdersUnblock
      <3>2. QED
        BY <1>2, <3>1, LiftedStamps
    <2>7. CASE Defers(p)
      BY <1>2, <2>7 DEF Defers, OthersRest, StampsAreTrue, history
    <2>8. CASE Calls(p) \/ Restores(p)
      BY <1>2, <2>8 DEF Calls, Restores, OthersRest, StampsAreTrue, history
    <2>9. CASE Asserts(p)
      BY <1>2, <2>9 DEF Asserts, OthersRest, StampsAreTrue
    <2>10. QED
      BY <1>2, <2>1, <2>2, <2>3, <2>4, <2>5, <2>6, <2>7, <2>8, <2>9 DEF Effect
  <1>3. QED
    BY <1>1, <1>2, StepEffect

\* The row says "cut by the LR" only of a client whose LR has confirmed a cut
\* since the last lifted order, so the router's cover is never withheld on
\* the word of a cut that was not made, unless a commit changes the order, or
\* whether its cut is confirmed, under a handler at work.
THEOREM EnforcedAlwaysMeansCut == Spec /\ []StampsFresh => []EnforcedMeansCut
  <1>1. Init => StampsAreTrue
    BY DEF Init, StampsAreTrue, NewRow
  <1>2. TypeOK /\ Copies /\ StampsFresh /\ StampsFresh' /\ StampsAreTrue /\ [Next]_vars
          => StampsAreTrue'
    BY StampsStep
  <1>3. StampsAreTrue => EnforcedMeansCut
    BY DEF StampsAreTrue, EnforcedMeansCut, EnforcementState
  <1>4. QED
    BY <1>1, <1>2, <1>3, TypeCorrect, CopiesInit, CopiesStep, PTL DEF Spec

=============================================================================
