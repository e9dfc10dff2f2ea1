------------------------ MODULE ContentFilterProofs ------------------------
(* What TLAPS proves about ContentFilter. *)
EXTENDS ContentFilter, TLAPS

-----------------------------------------------------------------------------
(* Rows, copies and orders *)

Rows == RowsWith(Abandons)
Copies == RowsWith(Abandons \cup {"now"})

\* The values of blocked_categories: NULL is none of the sets.
LEMMA NullFacts ==
    /\ Null \notin SUBSET Categories
    /\ Adult \notin Categories
    /\ Known(Null) = {} /\ Known({}) = {}
    /\ \A s \in SUBSET Categories : Known(s) = s /\ s # Null
  BY CategoriesAssumption DEF Null, Adult, Known

\* What a copy is, column by column.
LEMMA CopyFacts ==
  ASSUME NEW l \in Copies
  PROVE  /\ l.blocked_categories \in {Null} \cup SUBSET Categories
         /\ l.content_block_mode \in Directions
         /\ l.block_adult_content \in BOOLEAN
         /\ Known(l.blocked_categories) \in SUBSET Categories
  BY DEF Copies, RowsWith, Known

\* A row is a copy of itself.
LEMMA RowsAreCopies == Rows \subseteq Copies
  BY DEF Rows, Copies, RowsWith

\* The row of a client without a filter.
LEMMA NewRowType == NewRow \in Rows /\ NewRow \in Copies
  BY DEF NewRow, Rows, Copies, RowsWith, Directions, Abandons

\* A flush leaves dates, and no stamp being taken.
LEMMA FlushedType ==
  ASSUME NEW l \in Copies, NEW s, row \in Rows
  PROVE  Flushed(l, s) \in Rows
  <1>1. Stored(l) \in Rows
    BY DEF Stored, Rows, Copies, RowsWith, Abandons
  <1>2. QED
    BY <1>1 DEF Flushed, Rows, RowsWith

\* An order makes a copy out of a copy.
LEMMA OrderedType ==
  ASSUME NEW l \in Copies, NEW categories \in SUBSET Categories,
         NEW direction \in Directions \cup {"keep"}, NEW adult \in {"keep", "on", "off"}
  PROVE  Ordered(l, categories, direction, adult) \in Copies
  BY CopyFacts DEF Ordered, Copies, RowsWith, Directions

\* The set and the direction an order for platforms comes to.
LEMMA TargetType ==
  ASSUME NEW l \in Copies, NEW requested \in SUBSET Categories, NEW blocked \in BOOLEAN
  PROVE  /\ Target(l, requested, blocked).categories \in SUBSET Categories
         /\ Target(l, requested, blocked).direction \in Directions
  BY CopyFacts DEF Target, Directions

\* So does an order for platforms.
LEMMA PlatformOrderType ==
  ASSUME NEW l \in Copies, NEW platforms \in SUBSET Platforms, NEW blocked \in BOOLEAN
  PROVE  PlatformOrder(l, platforms, blocked) \in Copies
  <1> DEFINE requested == platforms \cap Categories
             adult == IF Adult \notin platforms THEN "keep"
                      ELSE IF blocked THEN "on" ELSE "off"
  <1>1. requested \in SUBSET Categories /\ adult \in {"keep", "on", "off"}
    OBVIOUS
  <1>2. CASE requested = {}
    <2>1. Ordered(l, Known(l.blocked_categories), "keep", adult) \in Copies
      BY <1>1, CopyFacts, OrderedType
    <2>2. QED
      BY <1>2, <2>1 DEF PlatformOrder
  <1>3. CASE requested # {}
    <2> DEFINE target == Target(l, requested, blocked)
    <2>1. Ordered(l, target.categories, target.direction, adult) \in Copies
      BY <1>1, TargetType, OrderedType
    <2>2. QED
      BY <1>3, <2>1 DEF PlatformOrder
  <1>4. QED
    BY <1>2, <1>3

\* What is recorded of an answer.
LEMMA RecordedType ==
  ASSUME TypeOK, NEW p \in Procs
  PROVE  Recorded(p) \in Copies
  <1>1. orm[p] \in Copies
    BY DEF TypeOK, Copies
  <1>2. QED
    BY <1>1, CopyFacts DEF Recorded, Copies, RowsWith, Abandons

\* What a session may leave on the LR.
LEMMA SessionType ==
  ASSUME TypeOK, NEW p \in Procs, NEW outcome, ApplyOnLr(orm[p], outcome)
  PROVE  dns' \in DnsBlocks /\ dnat' \in BOOLEAN
  <1>1. orm[p] \in Copies
    BY DEF TypeOK, Copies
  <1>2. WantedBlock(orm[p]) \in DnsBlocks
    BY <1>1, CopyFacts DEF WantedBlock, DnsBlocks
  <1>3. WantedDnat(orm[p]) \in BOOLEAN
    BY DEF WantedDnat, Active
  <1>4. QED
    BY <1>2, <1>3 DEF ApplyOnLr, TypeOK

-----------------------------------------------------------------------------
(* Type correctness *)

Labels == {"idle", "order", "session", "record"}

\* The end of a handler.
LEMMA CloseType ==
  ASSUME TypeOK, NEW p \in Procs, Close(p)
  PROVE  /\ orm' \in [Procs -> Copies]
         /\ seen' \in [Procs -> Copies]
         /\ pc' \in [Procs -> Labels]
         /\ heard' \in [Procs -> {"ok", "transient", "structural"}]
  BY NewRowType DEF Close, Goto, TypeOK, Copies, Labels

\* The beginning of one.
LEMMA LoadType ==
  ASSUME TypeOK, NEW p \in Procs, NEW label \in Labels, Load(p, label)
  PROVE  TypeOK'
  <1>1. row \in Copies
    BY RowsAreCopies DEF TypeOK, Rows
  <1>2. QED
    BY <1>1 DEF Load, Goto, TypeOK, Copies, Labels, lrDevice

\* The commit of an order.
LEMMA CommitType ==
  ASSUME TypeOK, NEW p \in Procs, NEW l \in Copies, CommitOrder(p, l)
  PROVE  TypeOK'
  <1>1. row' \in Rows
    BY FlushedType DEF CommitOrder, TypeOK, Rows
  <1>2. QED
    BY <1>1 DEF CommitOrder, Goto, TypeOK, Copies, Rows, lrDevice

\* An order, of either API.
LEMMA OrderType ==
  ASSUME TypeOK, NEW p \in Procs, Order(p)
  PROVE  TypeOK'
  <1>1. orm[p] \in Copies
    BY DEF TypeOK, Copies
  <1>2. ASSUME NEW categories \in SUBSET Categories, NEW direction \in Directions \cup {"keep"},
               NEW adult \in {"keep", "on", "off"},
               OrderFilter(p, categories, direction, adult)
        PROVE  TypeOK'
    BY <1>1, <1>2, OrderedType, CommitType DEF OrderFilter
  <1>3. ASSUME NEW platforms \in SUBSET Platforms, NEW blocked \in BOOLEAN,
               OrderPlatforms(p, platforms, blocked)
        PROVE  TypeOK'
    BY <1>1, <1>3, PlatformOrderType, CommitType DEF OrderPlatforms
  <1>4. QED
    BY <1>2, <1>3 DEF Order

\* What moves outside the handlers.
LEMMA WorldType ==
  ASSUME TypeOK,
         \/ \E on \in BOOLEAN : WhatsappOrder(on)
         \/ WhatsappSession \/ BlockAbandons \/ RetryDelayPasses \/ LrReboot
  PROVE  TypeOK'
  <1>1. ASSUME NEW on \in BOOLEAN, WhatsappOrder(on)
        PROVE  TypeOK'
    <2>1. row' \in Rows
      BY <1>1 DEF WhatsappOrder, TypeOK, Rows, RowsWith
    <2>2. QED
      BY <1>1, <2>1 DEF WhatsappOrder, TypeOK, Rows, lrDevice
  <1>2. CASE WhatsappSession
    <2>1. dnat' \in BOOLEAN
      BY <1>2 DEF WhatsappSession, TypeOK, RowsWith
    <2>2. QED
      BY <1>2, <2>1 DEF WhatsappSession, TypeOK
  <1>3. CASE BlockAbandons \/ RetryDelayPasses
    <2>1. row' \in Rows
      BY <1>3 DEF BlockAbandons, RetryDelayPasses, TypeOK, Rows, RowsWith, Abandons
    <2>2. QED
      BY <1>3, <2>1 DEF BlockAbandons, RetryDelayPasses, TypeOK, Rows, lrDevice
  <1>4. CASE LrReboot
    BY <1>4 DEF LrReboot, TypeOK, DnsBlocks
  <1>5. QED
    BY <1>1, <1>2, <1>3, <1>4

\* One case per action of Next.
LEMMA TypeNext == TypeOK /\ [Next]_vars => TypeOK'
  <1> SUFFICES ASSUME TypeOK, [Next]_vars PROVE TypeOK'
    OBVIOUS
  <1>1. ASSUME NEW p \in Requests, Request(p) \/ Refused(p) \/ Order(p)
        PROVE  TypeOK'
    <2>1. p \in Procs
      BY DEF Procs
    <2>2. CASE Request(p)
      BY <2>1, <2>2, LoadType DEF Request, Labels
    <2>3. CASE Refused(p)
      BY <2>1, <2>3, CloseType DEF Refused, TypeOK, Copies, Labels, lrDevice
    <2>4. CASE Order(p)
      BY <2>1, <2>4, OrderType
    <2>5. QED
      BY <1>1, <2>2, <2>3, <2>4
  <1>2. ASSUME NEW p \in Procs, Sessions(p) \/ Record(p) \/ Abort(p)
        PROVE  TypeOK'
    <2>1. CASE Sessions(p)
      <3>1. PICK outcome \in {"ok", "transient", "structural"} : Session(p, outcome)
        BY <2>1 DEF Sessions
      <3>2. dns' \in DnsBlocks /\ dnat' \in BOOLEAN
        BY <3>1, SessionType DEF Session
      <3>3. QED
        BY <3>1, <3>2 DEF Session, Goto, TypeOK
    <2>2. CASE Record(p)
      <3>1. row' \in Rows
        BY <2>2, RecordedType, FlushedType DEF Record, TypeOK, Rows
      <3>2. QED
        BY <2>2, <3>1, CloseType DEF Record, TypeOK, Copies, Labels, Rows, lrDevice
    <2>3. CASE Abort(p)
      BY <2>3, CloseType DEF Abort, TypeOK, Copies, Labels, lrDevice
    <2>4. QED
      BY <1>2, <2>1, <2>2, <2>3
  <1>3. CASE Enforce
    BY <1>3, LoadType DEF Enforce, Procs, Labels
  <1>4. CASE \/ \E on \in BOOLEAN : WhatsappOrder(on)
             \/ WhatsappSession \/ BlockAbandons \/ RetryDelayPasses \/ LrReboot
    BY <1>4, WorldType
  <1>5. CASE UNCHANGED vars
    BY <1>5 DEF vars, TypeOK
  <1>6. QED
    BY <1>1, <1>2, <1>3, <1>4, <1>5 DEF Next

\* The state keeps its shape, whatever the catalogue, the number of requests
\* and their overlap; in particular the row never holds an unflushed stamp.
THEOREM TypeCorrect == Spec => []TypeOK
  <1>1. Init => TypeOK
    BY NewRowType DEF Init, TypeOK, Rows, Copies, DnsBlocks
  <1>2. QED
    BY <1>1, TypeNext, PTL DEF Spec
-----------------------------------------------------------------------------
(* Orders for platforms *)

\* A handler that has not yet committed its order has what it loaded.
LoadedAsIs == \A p \in Procs : pc[p] = "order" => seen[p] = orm[p]

\* Loading is the only way to the label "order".
LEMMA LoadedAsIsNext == TypeOK /\ LoadedAsIs /\ [Next]_vars => LoadedAsIs'
  <1> SUFFICES ASSUME TypeOK, LoadedAsIs, [Next]_vars PROVE LoadedAsIs'
    OBVIOUS
  <1>1. ASSUME NEW p \in Procs, NEW label, label # "order", Goto(p, label),
               \A q \in Procs \ {p} : seen'[q] = seen[q] /\ orm'[q] = orm[q]
        PROVE  LoadedAsIs'
    BY <1>1 DEF LoadedAsIs, Goto, TypeOK
  <1>2. ASSUME NEW p \in Procs, Close(p)
        PROVE  LoadedAsIs'
    <2>1. \A q \in Procs \ {p} : seen'[q] = seen[q] /\ orm'[q] = orm[q]
      BY <1>2 DEF Close, TypeOK
    <2>2. QED
      BY <1>1, <1>2, <2>1 DEF Close
  <1>3. ASSUME NEW p \in Procs, NEW label, Load(p, label)
        PROVE  LoadedAsIs'
    <2>1. \A q \in Procs : q # p => seen'[q] = seen[q] /\ orm'[q] = orm[q] /\ pc'[q] = pc[q]
      BY <1>3 DEF Load, Goto, TypeOK
    <2>2. seen'[p] = row /\ orm'[p] = row
      BY <1>3 DEF Load, TypeOK
    <2>3. QED
      BY <2>1, <2>2 DEF LoadedAsIs
  <1>4. ASSUME NEW p \in Procs, NEW l, CommitOrder(p, l)
        PROVE  LoadedAsIs'
    <2>1. \A q \in Procs \ {p} : seen'[q] = seen[q] /\ orm'[q] = orm[q]
      BY <1>4 DEF CommitOrder, TypeOK
    <2>2. QED
      BY <1>1, <1>4, <2>1 DEF CommitOrder
  <1>5. ASSUME NEW p \in Requests, Request(p) \/ Refused(p) \/ Order(p)
        PROVE  LoadedAsIs'
    <2>1. p \in Procs
      BY DEF Procs
    <2>2. QED
      BY <1>2, <1>3, <1>4, <1>5, <2>1 DEF Request, Refused, Order, OrderFilter, OrderPlatforms
  <1>6. ASSUME NEW p \in Procs, Sessions(p) \/ Record(p) \/ Abort(p)
        PROVE  LoadedAsIs'
    <2>1. CASE Sessions(p)
      BY <1>1, <2>1 DEF Sessions, Session
    <2>2. CASE Record(p) \/ Abort(p)
      BY <1>2, <2>2 DEF Record, Abort
    <2>3. QED
      BY <1>6, <2>1, <2>2
  <1>7. CASE Enforce
    BY <1>3, <1>7 DEF Enforce, Procs
  <1>8. CASE \/ \E on \in BOOLEAN : WhatsappOrder(on)
             \/ WhatsappSession \/ BlockAbandons \/ RetryDelayPasses \/ LrReboot
             \/ UNCHANGED vars
    <2>1. UNCHANGED <<pc, orm, seen>>
      BY <1>8 DEF WhatsappOrder, WhatsappSession, BlockAbandons, RetryDelayPasses, LrReboot, vars
    <2>2. QED
      BY <2>1 DEF LoadedAsIs
  <1>9. QED
    BY <1>5, <1>6, <1>7, <1>8 DEF Next

\* What an order makes of the row it was decided on: its three columns.
LEMMA CommittedColumns ==
  ASSUME NEW p \in Procs, NEW l \in Copies, row \in Rows, CommitOrder(p, l),
         seen[p] = row
  PROVE  /\ row'.blocked_categories = l.blocked_categories
         /\ row'.content_block_mode = l.content_block_mode
         /\ row'.block_adult_content = l.block_adult_content
  <1>1. row' = Flushed(l, row)
    BY DEF CommitOrder
  <1>2. /\ Stored(l).blocked_categories = l.blocked_categories
        /\ Stored(l).content_block_mode = l.content_block_mode
        /\ Stored(l).block_adult_content = l.block_adult_content
    BY DEF Stored, Copies, RowsWith
  <1>3. DOMAIN row = {"blocked_categories", "content_block_mode", "block_adult_content",
                      "unenforceable", "wa_block"}
    BY DEF Rows, RowsWith
  <1>4. QED
    BY <1>1, <1>2, <1>3 DEF Flushed

\* What a set of categories cuts in a direction, and what the row's does.
Cutting(categories, direction) ==
    IF categories = {} THEN {}
    ELSE IF direction = "allowlist" THEN Categories \ categories
    ELSE categories

Cut(l) == Cutting(Known(l.blocked_categories), l.content_block_mode)

\* What an order for some platforms is meant to make of a set of them.
Edited(cut, platforms, blocked) ==
    IF blocked THEN cut \cup platforms ELSE cut \ platforms

\* Either way round.
LEMMA EditedFacts ==
  ASSUME NEW cut, NEW platforms, NEW blocked \in BOOLEAN
  PROVE  /\ blocked => Edited(cut, platforms, blocked) = cut \cup platforms
         /\ ~blocked => Edited(cut, platforms, blocked) = cut \ platforms
  BY DEF Edited

\* The set and the direction resolved for an order, on their own, cut what
\* the row cut, and the categories asked for; or no longer.
LEMMA TargetCuts ==
  ASSUME NEW l \in Copies, NEW requested \in SUBSET Categories, NEW blocked \in BOOLEAN,
         requested # {}, ~Conflict(l, requested, blocked),
         NEW target, target = Target(l, requested, blocked)
  PROVE  Cutting(target.categories, target.direction) = Edited(Cut(l), requested, blocked)
  <1> DEFINE active == Known(l.blocked_categories)
             allows == active # {} /\ l.content_block_mode = "allowlist"
  <1>1. active \in SUBSET Categories
    BY CopyFacts
  <1>2. /\ allows /\ blocked => target.categories = active \ requested
        /\ ~allows /\ ~blocked => target.categories = active \ requested
        /\ allows /\ ~blocked => target.categories = active \cup requested
        /\ ~allows /\ blocked => target.categories = active \cup requested
        /\ allows => target.direction = "allowlist"
        /\ ~allows => target.direction = "denylist"
    BY DEF Target
  <1>3. /\ allows => Cut(l) = Categories \ active
        /\ ~allows => Cut(l) = active
    BY DEF Cut, Cutting
  <1>4. blocked /\ allows => target.categories # {}
    BY DEF Conflict
  <1> HIDE DEF active, allows
  <1>5. ASSUME allows, blocked
        PROVE  Cutting(target.categories, target.direction) = Cut(l) \cup requested
    BY <1>1, <1>2, <1>3, <1>4, <1>5 DEF Cutting
  <1>6. ASSUME allows, ~blocked
        PROVE  Cutting(target.categories, target.direction) = Cut(l) \ requested
    BY <1>1, <1>2, <1>3, <1>6 DEF Cutting
  <1>7. ASSUME ~allows, blocked
        PROVE  Cutting(target.categories, target.direction) = Cut(l) \cup requested
    BY <1>1, <1>2, <1>3, <1>7 DEF Cutting
  <1>8. ASSUME ~allows, ~blocked
        PROVE  Cutting(target.categories, target.direction) = Cut(l) \ requested
    BY <1>1, <1>2, <1>3, <1>8 DEF Cutting
  <1>9. QED
    BY <1>5, <1>6, <1>7, <1>8, EditedFacts

\* What an order writes, column by column.
LEMMA OrderedColumns ==
  ASSUME NEW l \in Copies, NEW categories \in SUBSET Categories,
         NEW direction \in Directions \cup {"keep"}, NEW adult \in {"keep", "on", "off"},
         NEW o, o = Ordered(l, categories, direction, adult)
  PROVE  /\ Known(o.blocked_categories) = categories
         /\ o.content_block_mode = IF direction = "keep" THEN l.content_block_mode ELSE direction
         /\ o.block_adult_content = IF adult = "keep" THEN l.block_adult_content ELSE adult = "on"
  <1> DEFINE wants == IF adult = "keep" THEN l.block_adult_content ELSE adult = "on"
  <1>1. /\ o.blocked_categories = IF categories # {} THEN categories
                                  ELSE IF wants THEN Null ELSE {}
        /\ o.content_block_mode = IF direction = "keep" THEN l.content_block_mode ELSE direction
        /\ o.block_adult_content = wants
    BY DEF Ordered, Copies, RowsWith
  <1>2. QED
    BY <1>1, NullFacts

\* An order for platforms, decided on the row as it is.
LEMMA PlatformsExact ==
  ASSUME TypeOK, LoadedAsIs, NEW p \in Procs, pc[p] = "order", orm[p] = row,
         NEW platforms \in SUBSET Platforms, platforms # {}, NEW blocked \in BOOLEAN,
         OrderPlatforms(p, platforms, blocked)
  PROVE  EffectiveBlocked(row') = Edited(EffectiveBlocked(row), platforms, blocked)
  <1> DEFINE l == PlatformOrder(row, platforms, blocked)
             requested == platforms \cap Categories
             adult == IF Adult \notin platforms THEN "keep"
                      ELSE IF blocked THEN "on" ELSE "off"
             kept == IF row.block_adult_content THEN {Adult} ELSE {}
             wanted == IF (adult = "keep" /\ row.block_adult_content) \/ adult = "on"
                       THEN {Adult} ELSE {}
  <1>1. row \in Rows /\ row \in Copies /\ seen[p] = row
    BY RowsAreCopies DEF TypeOK, Rows, LoadedAsIs
  <1>2. l \in Copies
    BY <1>1, PlatformOrderType
  <1>3. CommitOrder(p, l) /\ ~Conflict(row, requested, blocked)
    BY DEF OrderPlatforms
  <1>4. /\ row'.blocked_categories = l.blocked_categories
        /\ row'.content_block_mode = l.content_block_mode
        /\ row'.block_adult_content = l.block_adult_content
    BY <1>1, <1>2, <1>3, CommittedColumns
  <1>5. EffectiveBlocked(row) = kept \cup Cut(row)
    BY DEF EffectiveBlocked, Cut, Cutting
  <1>6. Cut(row) \in SUBSET Categories /\ Adult \notin Categories
    BY <1>1, CopyFacts, NullFacts DEF Cut, Cutting
  <1>7. wanted = IF Adult \notin platforms THEN kept
                 ELSE IF blocked THEN {Adult} ELSE {}
    BY <1>1, CopyFacts
  <1>8. adult \in {"keep", "on", "off"} /\ requested \in SUBSET Categories
    OBVIOUS
  <1>9. EffectiveBlocked(row') =
            wanted \cup Edited(Cut(row), requested, blocked)
    <2>1. CASE requested = {}
      <3> DEFINE known == Known(row.blocked_categories)
      <3>1. l = Ordered(row, known, "keep", adult)
        BY <2>1 DEF PlatformOrder
      <3>2. known \in SUBSET Categories
        BY <1>1, CopyFacts
      <3>3. Cut(row) = Edited(Cut(row), requested, blocked)
        BY <2>1 DEF Edited
      <3> HIDE DEF l, known, adult
      <3>4. /\ Known(l.blocked_categories) = known
            /\ l.content_block_mode = row.content_block_mode
            /\ l.block_adult_content = IF adult = "keep" THEN row.block_adult_content
                                       ELSE adult = "on"
        BY <1>1, <1>8, <3>1, <3>2, OrderedColumns
      <3>5. EffectiveBlocked(row') = wanted \cup Cut(row)
        BY <1>4, <3>4 DEF EffectiveBlocked, Cut, Cutting, known
      <3>6. QED
        BY <3>3, <3>5
    <2>2. CASE requested # {}
      <3> DEFINE target == Target(row, requested, blocked)
      <3>1. l = Ordered(row, target.categories, target.direction, adult)
        BY <2>2 DEF PlatformOrder
      <3>2. target.categories \in SUBSET Categories /\ target.direction \in Directions
        BY <1>1, <1>8, TargetType
      <3> HIDE DEF l, adult, requested
      <3>4. Cutting(target.categories, target.direction) = Edited(Cut(row), requested, blocked)
        BY <1>1, <1>3, <1>8, <2>2, TargetCuts
      <3> HIDE DEF target
      <3>5. target.direction # "keep"
        BY <3>2 DEF Directions
      <3>6. /\ Known(l.blocked_categories) = target.categories
            /\ l.content_block_mode = target.direction
            /\ l.block_adult_content = IF adult = "keep" THEN row.block_adult_content
                                       ELSE adult = "on"
        BY <1>1, <1>8, <3>1, <3>2, <3>5, OrderedColumns
      <3>7. EffectiveBlocked(row') =
              wanted \cup Cutting(target.categories, target.direction)
        BY <1>4, <3>6 DEF EffectiveBlocked, Cutting
      <3>8. QED
        BY <3>4, <3>7
    <2>3. QED
      BY <2>1, <2>2
  <1>10. platforms = requested \cup (IF Adult \in platforms THEN {Adult} ELSE {})
    BY DEF Platforms
  <1> HIDE DEF l, requested, adult, wanted
  <1>11. ASSUME blocked
         PROVE  EffectiveBlocked(row') = EffectiveBlocked(row) \cup platforms
    <2>1. wanted = kept \cup (IF Adult \in platforms THEN {Adult} ELSE {})
      BY <1>7, <1>11
    <2>2. Edited(Cut(row), requested, blocked) = Cut(row) \cup requested
      BY <1>11, EditedFacts
    <2> HIDE DEF kept
    <2>3. QED
      BY <1>5, <1>9, <1>10, <2>1, <2>2
  <1>12. ASSUME ~blocked
         PROVE  EffectiveBlocked(row') = EffectiveBlocked(row) \ platforms
    BY <1>5, <1>6, <1>7, <1>8, <1>9, <1>10, <1>12, EditedFacts
  <1>13. QED
    BY <1>11, <1>12, EditedFacts

\* An order for some platforms changes what is out of reach by exactly these
\* platforms, for every catalogue and every row it may meet.
THEOREM PlatformOrdersAreExact == Spec => PlatformOrdersExact
  <1> DEFINE Exact ==
        \A p \in Requests :
          pc[p] = "order" /\ pc'[p] = "session" /\ orm[p] = row =>
              \A platforms \in (SUBSET Platforms) \ {{}}, blocked \in BOOLEAN :
                  OrderPlatforms(p, platforms, blocked) =>
                      EffectiveBlocked(row') =
                          IF blocked THEN EffectiveBlocked(row) \cup platforms
                          ELSE EffectiveBlocked(row) \ platforms
  <1>1. Init => LoadedAsIs
    BY DEF Init, LoadedAsIs
  <1>2. TypeOK /\ LoadedAsIs => Exact
    <2>1. SUFFICES ASSUME TypeOK, LoadedAsIs, NEW p \in Requests,
                          pc[p] = "order", orm[p] = row,
                          NEW platforms \in (SUBSET Platforms) \ {{}}, NEW blocked \in BOOLEAN,
                          OrderPlatforms(p, platforms, blocked)
                   PROVE  EffectiveBlocked(row') =
                            Edited(EffectiveBlocked(row), platforms, blocked)
      BY DEF Edited
    <2>2. p \in Procs
      BY <2>1 DEF Procs
    <2> HIDE DEF Exact
    <2>3. QED
      BY <2>1, <2>2, PlatformsExact
  <1>3. TypeOK /\ LoadedAsIs => [Exact]_vars
    BY <1>2
  <1> HIDE DEF Exact
  <1>4. Spec => [][Exact]_vars
    BY <1>1, <1>3, LoadedAsIsNext, TypeCorrect, PTL DEF Spec
  <1>5. QED
    BY <1>4 DEF PlatformOrdersExact, Exact

-----------------------------------------------------------------------------
(* A filter left on the LR is in the job's hands *)

\* The three columns that say what is cut.
Same(l, m) ==
    /\ l.blocked_categories = m.blocked_categories
    /\ l.content_block_mode = m.content_block_mode
    /\ l.block_adult_content = m.block_adult_content

\* A handler that carries out or records a filter has flushed its copy.
Busy(p) == pc[p] \in {"session", "record"}
Settled == \A p \in Procs : Busy(p) => seen[p] = orm[p]

\* Handlers overlap, and none carries out or records a filter that an order of
\* another one, or the end of a removal, has replaced in the row since.
CopiesFresh == \A p \in Procs : Busy(p) => Same(orm[p], row)

\* A block in the LR's dnsmasq.conf, at any moment.
Claimed == dns # NoBlock => Selected(row)

\* A success heard and not yet recorded: the LR carries the filter asked for,
\* or has rebooted since.
Landed ==
    \A p \in Procs :
        pc[p] = "record" /\ heard[p] = "ok" => dns \in {NoBlock, WantedBlock(orm[p])}

InHand == Settled /\ Claimed /\ Landed

\* The same columns are selected, and ask for the same block.
LEMMA SameFacts ==
  ASSUME NEW l, NEW m, Same(l, m)
  PROVE  Selected(l) = Selected(m) /\ WantedBlock(l) = WantedBlock(m)
  BY DEF Same, Selected, WantedBlock, Active, Known

\* A flush of a copy that agreed with the row leaves its columns in the row.
LEMMA FlushedColumns ==
  ASSUME NEW l \in Copies, NEW s, row \in Rows, Same(s, row)
  PROVE  Same(Flushed(l, s), l)
  <1>1. Same(Stored(l), l)
    BY DEF Same, Stored, Copies, RowsWith
  <1>2. DOMAIN row = {"blocked_categories", "content_block_mode", "block_adult_content",
                      "unenforceable", "wa_block"}
    BY DEF Rows, RowsWith
  <1>3. QED
    BY <1>1, <1>2 DEF Flushed, Same

\* Every order leaves the row to the job, a removal included.
LEMMA OrderedSelected ==
  ASSUME NEW l \in Copies, NEW categories \in SUBSET Categories, NEW direction,
         NEW adult \in {"keep", "on", "off"}
  PROVE  Selected(Ordered(l, categories, direction, adult))
  <1> DEFINE wants == IF adult = "keep" THEN l.block_adult_content ELSE adult = "on"
             o == Ordered(l, categories, direction, adult)
  <1>1. /\ o.blocked_categories = IF categories # {} THEN categories
                                  ELSE IF wants THEN Null ELSE {}
        /\ o.block_adult_content = wants
    BY DEF Ordered, Copies, RowsWith
  <1>2. {} # Null /\ categories # Null
    BY NullFacts
  <1> HIDE DEF o
  <1>3. Selected(o)
    <2>1. CASE categories # {}
      BY <1>1, <1>2, <2>1 DEF Selected
    <2>2. CASE wants
      BY <1>1, <2>2 DEF Selected
    <2>3. CASE categories = {} /\ ~wants
      BY <1>1, <1>2, <2>3 DEF Selected
    <2>4. QED
      BY <2>1, <2>2, <2>3
  <1>4. QED
    BY <1>3 DEF o

\* The order for platforms is such an order.
LEMMA PlatformOrderSelected ==
  ASSUME NEW l \in Copies, NEW platforms \in SUBSET Platforms, NEW blocked \in BOOLEAN
  PROVE  Selected(PlatformOrder(l, platforms, blocked))
  <1> DEFINE requested == platforms \cap Categories
             adult == IF Adult \notin platforms THEN "keep"
                      ELSE IF blocked THEN "on" ELSE "off"
             target == Target(l, requested, blocked)
  <1>1. requested \in SUBSET Categories /\ adult \in {"keep", "on", "off"}
    OBVIOUS
  <1>2. target.categories \in SUBSET Categories
    BY <1>1, TargetType
  <1>3. Known(l.blocked_categories) \in SUBSET Categories
    BY CopyFacts
  <1>4. /\ Selected(Ordered(l, Known(l.blocked_categories), "keep", adult))
        /\ Selected(Ordered(l, target.categories, target.direction, adult))
    BY <1>1, <1>2, <1>3, OrderedSelected
  <1>5. QED
    BY <1>4 DEF PlatformOrder

\* A block that is asked for is asked for by a row the job selects.
LEMMA WantedSelected ==
  ASSUME NEW l \in Copies, WantedBlock(l) # NoBlock
  PROVE  Selected(l)
  BY NullFacts DEF WantedBlock, Active, Selected

\* What is recorded of an answer is selected as before, but for the success
\* of a removal.
LEMMA RecordedSelected ==
  ASSUME TypeOK, NEW p \in Procs
  PROVE  /\ heard[p] # "ok" => Same(Recorded(p), orm[p])
         /\ heard[p] = "ok" /\ WantedBlock(orm[p]) # NoBlock => Selected(Recorded(p))
  <1> DEFINE l == orm[p]
             known == Known(l.blocked_categories)
  <1>1. l \in Copies /\ known \in SUBSET Categories
    BY CopyFacts DEF TypeOK, Copies
  <1>2. ASSUME heard[p] # "ok"
        PROVE  Same(Recorded(p), l)
    BY <1>1, <1>2 DEF Recorded, Same, Copies, RowsWith
  <1>3. ASSUME heard[p] = "ok", WantedBlock(l) # NoBlock
        PROVE  Selected(Recorded(p))
    <2>1. Active(l)
      BY <1>3 DEF WantedBlock
    <2>2. /\ Recorded(p).blocked_categories = IF known = {} THEN Null ELSE known
          /\ Recorded(p).block_adult_content = l.block_adult_content
      <3>1. Recorded(p) = [[l EXCEPT !.blocked_categories = IF known = {} THEN Null ELSE known]
                           EXCEPT !.unenforceable = "no"]
        BY <1>3 DEF Recorded
      <3> HIDE DEF known
      <3>2. QED
        BY <1>1, <3>1 DEF Copies, RowsWith
    <2>3. QED
      BY <1>1, <2>1, <2>2, NullFacts DEF Active, Selected
  <1>4. QED
    BY <1>2, <1>3

\* A handler that begins has the row.
LEMMA LoadInHand ==
  ASSUME TypeOK, InHand, NEW p \in Procs, NEW label \in {"order", "session"}, Load(p, label)
  PROVE  InHand'
  <1>1. /\ row' = row /\ dns' = dns /\ heard' = heard
        /\ orm'[p] = row /\ seen'[p] = row /\ pc'[p] = label
        /\ \A q \in Procs : q # p =>
                pc'[q] = pc[q] /\ orm'[q] = orm[q] /\ seen'[q] = seen[q]
    BY DEF Load, Goto, TypeOK, lrDevice
  <1>2. Settled'
    BY <1>1 DEF InHand, Settled, Busy
  <1>3. Landed'
    BY <1>1 DEF InHand, Landed, WantedBlock, Active
  <1>4. Claimed'
    BY <1>1 DEF InHand, Claimed
  <1>5. QED
    BY <1>2, <1>3, <1>4 DEF InHand

\* A handler that ends, dies or refuses leaves the others as they are; what is
\* left to show is that the row is still selected.
LEMMA CloseInHand ==
  ASSUME TypeOK, InHand, NEW p \in Procs, Close(p), dns' = dns,
         dns # NoBlock => Selected(row')
  PROVE  InHand'
  <1>1. /\ pc'[p] = "idle"
        /\ \A q \in Procs : q # p =>
                /\ pc'[q] = pc[q] /\ orm'[q] = orm[q] /\ seen'[q] = seen[q]
                /\ heard'[q] = heard[q]
    BY DEF Close, Goto, TypeOK
  <1>2. Settled' /\ Landed'
    BY <1>1 DEF InHand, Settled, Busy, Landed, WantedBlock, Active
  <1>3. Claimed'
    BY DEF Claimed, Selected
  <1>4. QED
    BY <1>2, <1>3 DEF InHand

\* The commit of an order that the job selects.
LEMMA CommitInHand ==
  ASSUME TypeOK, InHand, CopiesFresh', NEW p \in Procs, NEW l \in Copies, Selected(l),
         CommitOrder(p, l)
  PROVE  InHand'
  <1>1. /\ dns' = dns /\ heard' = heard
        /\ orm'[p] = l /\ seen'[p] = l /\ pc'[p] = "session"
        /\ \A q \in Procs : q # p =>
                pc'[q] = pc[q] /\ orm'[q] = orm[q] /\ seen'[q] = seen[q]
    BY DEF CommitOrder, Goto, TypeOK, lrDevice
  <1>2. Same(l, row')
    BY <1>1 DEF CopiesFresh, Busy, Same
  <1>3. Settled' /\ Landed'
    BY <1>1 DEF InHand, Settled, Busy, Landed, WantedBlock, Active
  <1>4. Selected(row')
    BY <1>2, SameFacts
  <1>5. Claimed'
    BY <1>4 DEF Claimed, Selected
  <1>6. QED
    BY <1>3, <1>5 DEF InHand

\* A session carries out a filter that the row asks for, as any other session
\* under way does.
LEMMA SessionInHand ==
  ASSUME TypeOK, InHand, CopiesFresh, NEW p \in Procs,
         NEW outcome \in {"ok", "transient", "structural"}, Session(p, outcome)
  PROVE  InHand'
  <1>1. /\ row' = row /\ orm' = orm /\ seen' = seen /\ pc[p] = "session"
        /\ pc'[p] = "record" /\ heard'[p] = outcome
        /\ \A q \in Procs : q # p => pc'[q] = pc[q] /\ heard'[q] = heard[q]
        /\ dns' \in {dns, WantedBlock(orm[p])}
        /\ outcome = "ok" => dns' = WantedBlock(orm[p])
    BY DEF Session, Goto, ApplyOnLr, TypeOK
  <1>2. Settled'
    BY <1>1 DEF InHand, Settled, Busy
  <1>3. \A q \in Procs : WantedBlock(orm[q])' = WantedBlock(orm[q])
    BY <1>1 DEF WantedBlock, Active
  <1>4. \A q \in Procs : pc[q] = "record" => WantedBlock(orm[q]) = WantedBlock(orm[p])
    <2>1. \A q \in Procs : Busy(q) => WantedBlock(orm[q]) = WantedBlock(row)
      BY SameFacts DEF CopiesFresh
    <2>2. QED
      BY <1>1, <2>1 DEF Busy
  <1>5. Landed'
    BY <1>1, <1>3, <1>4 DEF InHand, Landed
  <1>6. WantedBlock(orm[p]) # NoBlock => Selected(row)
    <2>1. orm[p] \in Copies
      BY DEF TypeOK, Copies
    <2>2. Same(orm[p], row)
      BY <1>1 DEF CopiesFresh, Busy
    <2>3. QED
      BY <2>1, <2>2, SameFacts, WantedSelected
  <1>7. dns' # NoBlock => Selected(row)
    BY <1>1, <1>6 DEF InHand, Claimed
  <1>8. Claimed'
    BY <1>1, <1>7 DEF Claimed, Selected
  <1>9. QED
    BY <1>2, <1>5, <1>8 DEF InHand

\* What is recorded of an answer leaves a block on the LR selected.
LEMMA RecordInHand ==
  ASSUME TypeOK, InHand, CopiesFresh, NEW p \in Procs, Record(p)
  PROVE  InHand'
  <1> DEFINE r == Recorded(p)
  <1>1. r \in Copies
    BY RecordedType
  <1>2. Same(seen[p], row) /\ Same(orm[p], row) /\ row \in Rows
    BY DEF InHand, Settled, CopiesFresh, Busy, Record, TypeOK, Rows
  <1> HIDE DEF r
  <1>3. row' = Flushed(r, seen[p]) /\ dns' = dns /\ Close(p) /\ pc[p] = "record"
    BY DEF Record, lrDevice, r
  <1>4. Same(row', r)
    BY <1>1, <1>2, <1>3, FlushedColumns
  <1>5. Selected(row') = Selected(r)
    BY <1>4, SameFacts
  <1>6. ASSUME dns # NoBlock
        PROVE  Selected(r)
    <2>1. CASE heard[p] = "ok"
      <3>1. WantedBlock(orm[p]) # NoBlock
        BY <1>3, <1>6, <2>1 DEF InHand, Landed
      <3>2. QED
        BY <2>1, <3>1, RecordedSelected DEF r
    <2>2. CASE heard[p] # "ok"
      <3>1. Same(r, orm[p])
        BY <2>2, RecordedSelected DEF r
      <3>2. Selected(r) = Selected(row)
        BY <1>2, <3>1, SameFacts
      <3>3. QED
        BY <1>6, <3>2 DEF InHand, Claimed
    <2>3. QED
      BY <2>1, <2>2
  <1>7. QED
    BY <1>3, <1>5, <1>6, CloseInHand

\* The WhatsApp-only block, the clock and reboots touch none of the columns,
\* and put no block on the LR.
LEMMA WorldInHand ==
  ASSUME TypeOK, InHand,
         \/ \E on \in BOOLEAN : WhatsappOrder(on)
         \/ WhatsappSession \/ BlockAbandons \/ RetryDelayPasses \/ LrReboot
         \/ UNCHANGED vars
  PROVE  InHand'
  <1>1. pc' = pc /\ orm' = orm /\ seen' = seen /\ heard' = heard
    BY DEF WhatsappOrder, WhatsappSession, BlockAbandons, RetryDelayPasses, LrReboot, vars
  <1>2. dns' \in {dns, NoBlock}
    BY DEF WhatsappOrder, WhatsappSession, BlockAbandons, RetryDelayPasses, LrReboot, vars, lrDevice
  <1>3. Same(row', row)
    <2>1. CASE \E on \in BOOLEAN : WhatsappOrder(on)
      BY <2>1 DEF WhatsappOrder, TypeOK, RowsWith, Same
    <2>2. CASE BlockAbandons \/ RetryDelayPasses
      BY <2>2 DEF BlockAbandons, RetryDelayPasses, TypeOK, RowsWith, Same
    <2>3. CASE WhatsappSession \/ LrReboot \/ UNCHANGED vars
      BY <2>3 DEF WhatsappSession, LrReboot, vars, Same
    <2>4. QED
      BY <2>1, <2>2, <2>3
  <1>4. Settled'
    BY <1>1 DEF InHand, Settled, Busy
  <1>5. \A q \in Procs : WantedBlock(orm[q])' = WantedBlock(orm[q])
    BY <1>1 DEF WantedBlock, Active
  <1>6. Landed'
    BY <1>1, <1>2, <1>5 DEF InHand, Landed
  <1>7. Selected(row') = Selected(row)
    BY <1>3, SameFacts
  <1>8. dns' # NoBlock => Selected(row')
    BY <1>2, <1>7 DEF InHand, Claimed
  <1>9. Claimed'
    BY <1>8 DEF Claimed, Selected
  <1>10. QED
    BY <1>4, <1>6, <1>9 DEF InHand

\* One case per action of Next.
LEMMA InHandNext ==
  ASSUME TypeOK, InHand, CopiesFresh, CopiesFresh', [Next]_vars
  PROVE  InHand'
  <1>1. ASSUME NEW p \in Requests, Request(p) \/ Refused(p) \/ Order(p)
        PROVE  InHand'
    <2>1. p \in Procs
      BY DEF Procs
    <2>2. CASE Request(p)
      BY <2>1, <2>2, LoadInHand DEF Request
    <2>3. CASE Refused(p)
      <3>1. row' = row /\ dns' = dns /\ Close(p)
        BY <2>3 DEF Refused, lrDevice
      <3>2. QED
        BY <2>1, <3>1, CloseInHand DEF InHand, Claimed
    <2>4. CASE Order(p)
      <3>1. orm[p] \in Copies
        BY <2>1 DEF TypeOK, Copies
      <3>2. ASSUME NEW categories \in SUBSET Categories,
                   NEW direction \in Directions \cup {"keep"},
                   NEW adult \in {"keep", "on", "off"},
                   OrderFilter(p, categories, direction, adult)
            PROVE  InHand'
        BY <2>1, <3>1, <3>2, OrderedType, OrderedSelected, CommitInHand DEF OrderFilter
      <3>3. ASSUME NEW platforms \in SUBSET Platforms, NEW blocked \in BOOLEAN,
                   OrderPlatforms(p, platforms, blocked)
            PROVE  InHand'
        BY <2>1, <3>1, <3>3, PlatformOrderType, PlatformOrderSelected, CommitInHand
        DEF OrderPlatforms
      <3>4. QED
        BY <2>4, <3>2, <3>3 DEF Order
    <2>5. QED
      BY <1>1, <2>2, <2>3, <2>4
  <1>2. ASSUME NEW p \in Procs, Sessions(p) \/ Record(p) \/ Abort(p)
        PROVE  InHand'
    <2>1. CASE Sessions(p)
      BY <2>1, SessionInHand DEF Sessions
    <2>2. CASE Record(p)
      BY <2>2, RecordInHand
    <2>3. CASE Abort(p)
      <3>1. row' = row /\ dns' = dns /\ Close(p)
        BY <2>3 DEF Abort, lrDevice
      <3>2. QED
        BY <3>1, CloseInHand DEF InHand, Claimed
    <2>4. QED
      BY <1>2, <2>1, <2>2, <2>3
  <1>3. CASE Enforce
    BY <1>3, LoadInHand DEF Enforce, Procs
  <1>4. CASE \/ \E on \in BOOLEAN : WhatsappOrder(on)
             \/ WhatsappSession \/ BlockAbandons \/ RetryDelayPasses \/ LrReboot
             \/ UNCHANGED vars
    BY <1>4, WorldInHand
  <1>5. QED
    BY <1>1, <1>2, <1>3, <1>4 DEF Next

\* A filter left on the LR always belongs to a row that the job selects:
\* through failed sessions, half-run scripts, reboots, any number of deaths of
\* the process, and handlers side by side.  What they must not do is carry out
\* or record a filter that the row no longer holds.
THEOREM FilterStaysInHand == Spec /\ []CopiesFresh => []FilterInHand
  <1>1. Init => InHand
    BY DEF Init, InHand, Settled, Busy, Claimed, Landed
  <1>2. TypeOK /\ InHand /\ CopiesFresh /\ CopiesFresh' /\ [Next]_vars => InHand'
    BY InHandNext
  <1>3. InHand => FilterInHand
    BY DEF InHand, Claimed, FilterInHand
  <1>4. QED
    BY <1>1, <1>2, <1>3, TypeCorrect, PTL DEF Spec

=============================================================================
