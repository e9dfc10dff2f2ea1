-------------------------- MODULE PingSweepProofs --------------------------
(* What TLAPS proves about PingSweep. *)
EXTENDS PingSweep, TLAPS

-----------------------------------------------------------------------------
(* Type correctness *)

\* The constants as the provers like them: -1 and 0 are counts, and the
\* threshold is at least 1.
LEMMA CountsFacts ==
    /\ Threshold \in Nat /\ Threshold >= 1
    /\ NoRow \in Counts /\ 0 \in Counts /\ 1 \in Counts
    /\ Counts \subseteq Int /\ Threshold \in Counts
    /\ \A n \in Counts : n < Threshold => n + 1 \in Counts
  BY ThresholdAssumption DEF Counts, NoRow

\* Every job is one of the four.
LEMMA ProcsFacts ==
    /\ Sweeps \subseteq Procs /\ Keepers \subseteq Procs
    /\ "discovery" \notin Sweeps /\ "hygiene" \notin Sweeps
  BY SweepsAssumption DEF Procs

\* What a row is.
Row == [ip: Ips \cup {NoIp}, status: Statuses, kind: Kinds]

\* The fields of a row, one by one.
LEMMA RowFacts ==
  ASSUME TypeOK, NEW d \in Devices
  PROVE  /\ row[d] \in Row
         /\ row[d].ip \in Ips \cup {NoIp}
         /\ row[d].status \in Statuses
         /\ row[d].kind \in Kinds
  BY DEF TypeOK, Row

\* Writing some fields of a row leaves the others alone.
LEMMA RowWritten ==
  ASSUME NEW r \in Row, NEW ip \in Ips \cup {NoIp}, NEW status \in Statuses
  PROVE  /\ [r EXCEPT !.status = status] =
                [ip |-> r.ip, status |-> status, kind |-> r.kind]
         /\ [r EXCEPT !.ip = ip] = [ip |-> ip, status |-> r.status, kind |-> r.kind]
         /\ [r EXCEPT !.ip = ip, !.status = status] =
                [ip |-> ip, status |-> status, kind |-> r.kind]
         /\ [ip |-> ip, status |-> status, kind |-> r.kind] \in Row
         /\ [ip |-> r.ip, status |-> status, kind |-> r.kind] \in Row
         /\ [ip |-> ip, status |-> r.status, kind |-> r.kind] \in Row
  <1>1. [r EXCEPT !.status = status] = [ip |-> r.ip, status |-> status, kind |-> r.kind]
    BY DEF Row
  <1>2. [r EXCEPT !.ip = ip] = [ip |-> ip, status |-> r.status, kind |-> r.kind]
    BY DEF Row
  <1>3. [r EXCEPT !.ip = ip, !.status = status] =
            [ip |-> ip, status |-> status, kind |-> r.kind]
    <2> DEFINE w == [r EXCEPT !.ip = ip, !.status = status]
    <2>1. w \in Row /\ w.ip = ip /\ w.status = status /\ w.kind = r.kind
      BY DEF Row
    <2> HIDE DEF w
    <2>2. w = [ip |-> w.ip, status |-> w.status, kind |-> w.kind]
      BY <2>1 DEF Row
    <2>3. QED
      BY <2>1, <2>2 DEF w
  <1>4. QED
    BY <1>1, <1>2, <1>3 DEF Row

\* What a session loads has the shape of a loaded device.
LEMMA LoadAllType ==
  ASSUME TypeOK, NEW ds
  PROVE  LoadAll(ds) \in [Devices -> Loaded]
  <1>1. Unloaded \in Loaded
    BY CountsFacts DEF Unloaded, Loaded, Statuses, Kinds
  <1>2. ASSUME NEW d \in Devices
        PROVE  Load(d) \in Loaded
    BY DEF TypeOK, Load, Loaded
  <1>3. QED
    BY <1>1, <1>2 DEF LoadAll

\* A session that ends leaves the variables of sessions well typed.
LEMMA CloseType ==
  ASSUME TypeOK, NEW p \in Procs, Close(p)
  PROVE  /\ pc' \in [Procs -> Labels]
         /\ targets' \in [Procs -> [Devices -> Ips \cup {NoIp}]]
         /\ heard' \in [Procs -> SUBSET Ips]
         /\ orm' \in [Procs -> [Devices -> Loaded]]
         /\ todo' \in [Procs -> SUBSET Devices]
  <1>1. LoadAll({}) \in [Devices -> Loaded]
    BY LoadAllType
  <1>2. "idle" \in Labels
    BY DEF Labels
  <1>3. QED
    BY <1>1, <1>2 DEF Close, TypeOK

\* The initial states are well typed.
LEMMA TypeInit == Init => TypeOK
  <1> SUFFICES ASSUME Init PROVE TypeOK
    OBVIOUS
  <1>1. row \in [Devices -> [ip: Ips \cup {NoIp}, status: Statuses, kind: Kinds]]
    BY FirstIpAssumption, FirstKindAssumption DEF Init, Statuses
  <1>2. counter \in [Devices -> Counts] /\ outages \in [Devices -> SUBSET Kinds]
        /\ silent \in [Devices -> 0..Threshold]
    BY CountsFacts DEF Init
  <1>3. LoadAll({}) \in [Devices -> Loaded]
    BY CountsFacts DEF LoadAll, Unloaded, Loaded, Statuses, Kinds
  <1>4. orm \in [Procs -> [Devices -> Loaded]]
    BY <1>3 DEF Init
  <1>5. pc \in [Procs -> Labels]
    BY DEF Init, Labels
  <1>6. lease \in [Ips -> Devices \cup {NoDevice}]
    BY DEF Init
  <1>7. QED
    BY <1>1, <1>2, <1>4, <1>5, <1>6, BoundsAssumption DEF Init, TypeOK

\* A sweep reads: the addresses are those of rows.
LEMMA SweepReadType ==
  ASSUME TypeOK, NEW s \in Sweeps, SweepRead(s)
  PROVE  TypeOK'
  <1>1. [d \in Devices |-> IF InScope(s, d) THEN row[d].ip ELSE NoIp]
            \in [Devices -> Ips \cup {NoIp}]
    BY DEF TypeOK
  <1>2. targets' \in [Procs -> [Devices -> Ips \cup {NoIp}]]
    BY <1>1, ProcsFacts DEF SweepRead, TypeOK
  <1>3. pc' \in [Procs -> Labels]
    BY ProcsFacts DEF SweepRead, TypeOK, Labels
  <1>4. QED
    BY <1>2, <1>3 DEF SweepRead, TypeOK, tables, network

\* A sweep pings: it hears known addresses, and counts in vain up to the
\* threshold.
LEMMA SweepPingType ==
  ASSUME TypeOK, NEW s \in Sweeps, NEW answered \in SUBSET Ips, SweepPing(s, answered)
  PROVE  TypeOK'
  <1>1. silent' \in [Devices -> 0..Threshold]
    BY CountsFacts DEF SweepPing, TypeOK
  <1>2. targets' \in [Procs -> [Devices -> Ips \cup {NoIp}]]
    BY ProcsFacts DEF SweepPing, TypeOK
  <1>3. todo' \in [Procs -> SUBSET Devices] /\ heard' \in [Procs -> SUBSET Ips]
    BY ProcsFacts DEF SweepPing, TypeOK, Dealt
  <1>4. pc' \in [Procs -> Labels]
    BY ProcsFacts DEF SweepPing, TypeOK, Labels
  <1>5. QED
    BY <1>1, <1>2, <1>3, <1>4 DEF SweepPing, TypeOK, tables, network

\* A sweep loads the devices it has pinged.
LEMMA SweepLoadType ==
  ASSUME TypeOK, NEW s \in Sweeps, SweepLoad(s)
  PROVE  TypeOK'
  <1>1. LoadAll(todo[s]) \in [Devices -> Loaded]
    BY LoadAllType
  <1>2. orm' \in [Procs -> [Devices -> Loaded]]
    BY <1>1, ProcsFacts DEF SweepLoad, TypeOK
  <1>3. pc' \in [Procs -> Labels]
    BY ProcsFacts DEF SweepLoad, TypeOK, Labels
  <1>4. QED
    BY <1>2, <1>3 DEF SweepLoad, TypeOK, tables, network

\* What a sweep writes of one device: a status, a count, types of incidents.
LEMMA OutcomeType ==
  ASSUME TypeOK, NEW s \in Sweeps, NEW d \in Devices
  PROVE  /\ NewStatus(s, d) \in Statuses \cup {orm[s][d].status}
         /\ NewCounter(s, d) \in Counts
         /\ StoredCounter(s, d) \in Counts
         /\ NewOutages(s, d) \in SUBSET Kinds
  <1>1. orm[s][d] \in Loaded
    BY ProcsFacts DEF TypeOK
  <1>2. orm[s][d].counter \in Counts /\ orm[s][d].kind \in Kinds
    BY <1>1 DEF Loaded
  <1>3. NewStatus(s, d) \in Statuses \cup {orm[s][d].status}
    BY DEF NewStatus, Statuses
  <1>4. NewCounter(s, d) \in Counts
    BY <1>2, CountsFacts DEF NewCounter
  <1>5. StoredCounter(s, d) \in Counts
    BY <1>4 DEF StoredCounter, TypeOK
  <1>6. NewOutages(s, d) \in SUBSET Kinds
    BY <1>2 DEF NewOutages, TypeOK
  <1>7. QED
    BY <1>3, <1>4, <1>5, <1>6

\* A batch writes statuses, and neither addresses nor kinds.
LEMMA CommitRow ==
  ASSUME TypeOK, NEW s \in Sweeps, SweepCommit(s)
  PROVE  /\ row' \in [Devices -> Row]
         /\ \A d \in Devices :
               /\ row'[d].ip = row[d].ip
               /\ row'[d].kind = row[d].kind
               /\ row'[d].status =
                     IF d \in Batch(s)
                     THEN Written(NewStatus(s, d), orm[s][d].status, row[d].status)
                     ELSE row[d].status
  <1>1. ASSUME NEW d \in Devices
        PROVE  /\ row'[d] \in Row
               /\ row'[d].ip = row[d].ip
               /\ row'[d].kind = row[d].kind
               /\ row'[d].status =
                     IF d \in Batch(s)
                     THEN Written(NewStatus(s, d), orm[s][d].status, row[d].status)
                     ELSE row[d].status
    <2> DEFINE new == Written(NewStatus(s, d), orm[s][d].status, row[d].status)
    <2>1. new \in Statuses
      BY OutcomeType, RowFacts DEF Written
    <2>2. row'[d] = IF d \in Batch(s) THEN [row[d] EXCEPT !.status = new] ELSE row[d]
      BY DEF SweepCommit
    <2> HIDE DEF new
    <2>3. /\ [row[d] EXCEPT !.status = new] =
                [ip |-> row[d].ip, status |-> new, kind |-> row[d].kind]
          /\ [ip |-> row[d].ip, status |-> new, kind |-> row[d].kind] \in Row
      BY <2>1, RowFacts, RowWritten
    <2>4. QED
      BY <2>2, <2>3, RowFacts DEF new
  <1>2. row' = [d \in Devices |-> row'[d]]
    BY DEF SweepCommit
  <1>3. QED
    BY <1>1, <1>2

\* A batch is committed.
LEMMA SweepCommitType ==
  ASSUME TypeOK, NEW s \in Sweeps, SweepCommit(s)
  PROVE  TypeOK'
  <1>1. row' \in [Devices -> [ip: Ips \cup {NoIp}, status: Statuses, kind: Kinds]]
    BY CommitRow DEF Row
  <1>2. counter' \in [Devices -> Counts] /\ outages' \in [Devices -> SUBSET Kinds]
    BY OutcomeType DEF SweepCommit, TypeOK
  <1>3. /\ pc' \in [Procs -> Labels]
        /\ targets' \in [Procs -> [Devices -> Ips \cup {NoIp}]]
        /\ heard' \in [Procs -> SUBSET Ips]
        /\ orm' \in [Procs -> [Devices -> Loaded]]
        /\ todo' \in [Procs -> SUBSET Devices]
    <2>1. CASE todo[s] = Batch(s)
      BY <2>1, CloseType, ProcsFacts DEF SweepCommit
    <2>2. CASE todo[s] # Batch(s)
      <3>1. todo' = [todo EXCEPT ![s] = @ \ Batch(s)]
        BY <2>2 DEF SweepCommit
      <3>2. todo[s] \ Batch(s) \in SUBSET Devices
        BY ProcsFacts DEF TypeOK
      <3>3. todo' \in [Procs -> SUBSET Devices]
        BY <3>1, <3>2 DEF TypeOK
      <3>4. QED
        BY <2>2, <3>3 DEF SweepCommit, TypeOK
    <2>3. QED
      BY <2>1, <2>2
  <1>4. QED
    BY <1>1, <1>2, <1>3 DEF SweepCommit, TypeOK, network

\* A batch or a sweep is lost.
LEMMA SweepLostType ==
  ASSUME TypeOK, NEW s \in Sweeps, SweepClash(s) \/ SweepAbort(s)
  PROVE  TypeOK'
  <1>1. aborts' \in 0..MaxAborts
    BY BoundsAssumption DEF SweepClash, SweepAbort, TypeOK
  <1>2. Close(s) /\ UNCHANGED <<tables, network, silent>>
    BY DEF SweepClash, SweepAbort
  <1>3. QED
    BY <1>1, <1>2, CloseType, ProcsFacts DEF TypeOK, tables, network

\* A row freed of its address keeps its kind, and is a row.
LEMMA FreedFacts ==
  ASSUME TypeOK, NEW p, NEW d \in Devices
  PROVE  /\ Freed(p, d) \in Row
         /\ Freed(p, d).ip = NoIp
         /\ Freed(p, d).kind = row[d].kind
         /\ Freed(p, d).status = Written("unknown", orm[p][d].status, row[d].status)
  <1> DEFINE new == Written("unknown", orm[p][d].status, row[d].status)
  <1>1. new \in Statuses
    BY RowFacts DEF Written, Statuses
  <1>2. Freed(p, d) = [row[d] EXCEPT !.ip = NoIp, !.status = new]
    BY DEF Freed
  <1> HIDE DEF new
  <1>3. /\ Freed(p, d) = [ip |-> NoIp, status |-> new, kind |-> row[d].kind]
        /\ [ip |-> NoIp, status |-> new, kind |-> row[d].kind] \in Row
    BY <1>1, <1>2, RowFacts, RowWritten
  <1>4. QED
    BY <1>3 DEF new

\* Discovery reads what a radio reports.
LEMMA DiscoveryPollType ==
  ASSUME TypeOK, "discovery" \in Keepers, NEW d \in Devices, NEW ip \in Ips,
         DiscoveryPoll(d, ip)
  PROVE  TypeOK'
  <1>1. LoadAll(Lrs) \in [Devices -> Loaded]
    BY LoadAllType
  <1>2. orm' \in [Procs -> [Devices -> Loaded]]
    BY <1>1, ProcsFacts DEF DiscoveryPoll, TypeOK
  <1>3. targets' \in [Procs -> [Devices -> Ips \cup {NoIp}]]
    BY ProcsFacts DEF DiscoveryPoll, TypeOK
  <1>4. pc' \in [Procs -> Labels]
    BY ProcsFacts DEF DiscoveryPoll, TypeOK, Labels
  <1>5. QED
    BY <1>2, <1>3, <1>4 DEF DiscoveryPoll, TypeOK, tables, network

\* Discovery reads the holder of the address.
LEMMA DiscoveryReleaseType ==
  ASSUME TypeOK, "discovery" \in Keepers, NEW d \in Devices, DiscoveryRelease(d)
  PROVE  TypeOK'
  <1>1. UNCHANGED <<tables, network, silent, aborts>>
    BY DEF DiscoveryRelease
  <1> DEFINE holders == Holders(targets["discovery"][d], d)
  <1>2. CASE ~(holders \subseteq Lrs)
    <2>1. Close("discovery")
      BY <1>2 DEF DiscoveryRelease
    <2>2. QED
      BY <1>1, <2>1, CloseType, ProcsFacts DEF TypeOK, tables, network
  <1>3. CASE holders \subseteq Lrs
    <2>1. /\ todo' = [todo EXCEPT !["discovery"] = holders]
          /\ pc' = [pc EXCEPT !["discovery"] = "bind"]
          /\ UNCHANGED <<targets, heard, orm>>
      BY <1>3 DEF DiscoveryRelease
    <2>2. holders \in SUBSET Devices
      BY DEF Holders
    <2>3. todo' \in [Procs -> SUBSET Devices]
      BY <2>1, <2>2 DEF TypeOK
    <2>4. pc' \in [Procs -> Labels]
      BY <2>1 DEF TypeOK, Labels
    <2>5. QED
      BY <1>1, <2>1, <2>3, <2>4 DEF TypeOK, tables, network
  <1>4. QED
    BY <1>2, <1>3

\* Discovery gives an address to d and frees those who held it; or leaves
\* all as it was.
LEMMA BindRow ==
  ASSUME TypeOK, NEW d \in Devices, DiscoveryBind(d), "discovery" \in Keepers,
         NEW ip, ip = targets["discovery"][d],
         NEW e \in Devices
  PROVE  /\ row'[e] \in Row
         /\ row'[e].kind = row[e].kind
         /\ Holders(ip, d) \subseteq todo["discovery"] =>
               /\ e = d => row'[e].ip = ip /\ row'[e].status = row[e].status
               /\ e # d /\ e \in todo["discovery"] =>
                     /\ row'[e].ip = NoIp
                     /\ row'[e].status =
                           Written("unknown", orm["discovery"][e].status, row[e].status)
               /\ e # d /\ e \notin todo["discovery"] => row'[e] = row[e]
         /\ ~(Holders(ip, d) \subseteq todo["discovery"]) => row'[e] = row[e]
  <1>1. ip \in Ips \cup {NoIp}
    BY ProcsFacts DEF TypeOK
  <1>2. CASE ~(Holders(ip, d) \subseteq todo["discovery"])
    BY <1>2, RowFacts DEF DiscoveryBind
  <1>3. CASE Holders(ip, d) \subseteq todo["discovery"]
    <2>1. row'[e] = IF e = d THEN [row[d] EXCEPT !.ip = ip]
                    ELSE IF e \in todo["discovery"] THEN Freed("discovery", e)
                    ELSE row[e]
      BY <1>3 DEF DiscoveryBind
    <2>2. CASE e = d
      <3>1. /\ [row[d] EXCEPT !.ip = ip] =
                   [ip |-> ip, status |-> row[d].status, kind |-> row[d].kind]
            /\ [ip |-> ip, status |-> row[d].status, kind |-> row[d].kind] \in Row
        BY <1>1, RowFacts, RowWritten
      <3>2. QED
        BY <1>3, <2>1, <2>2, <3>1
    <2>3. CASE e # d
      BY <1>3, <2>1, <2>3, FreedFacts, RowFacts
    <2>4. QED
      BY <2>2, <2>3
  <1>4. QED
    BY <1>2, <1>3

\* Discovery moves an address from its holders to a station.
LEMMA DiscoveryBindType ==
  ASSUME TypeOK, "discovery" \in Keepers, NEW d \in Devices, DiscoveryBind(d)
  PROVE  TypeOK'
  <1>1. row' = [e \in Devices |-> row'[e]]
    BY DEF DiscoveryBind, TypeOK
  <1>2. row' \in [Devices -> [ip: Ips \cup {NoIp}, status: Statuses, kind: Kinds]]
    BY <1>1, BindRow DEF Row
  <1>3. counter' \in [Devices -> Counts] /\ silent' \in [Devices -> 0..Threshold]
    <2>1. CASE Holders(targets["discovery"][d], d) \subseteq todo["discovery"]
      BY <2>1, CountsFacts DEF DiscoveryBind, TypeOK
    <2>2. CASE ~(Holders(targets["discovery"][d], d) \subseteq todo["discovery"])
      BY <2>2 DEF DiscoveryBind, TypeOK
    <2>3. QED
      BY <2>1, <2>2
  <1>4. Close("discovery") /\ UNCHANGED <<outages, network, aborts>>
    BY DEF DiscoveryBind
  <1>5. QED
    BY <1>2, <1>3, <1>4, CloseType, ProcsFacts DEF TypeOK, network

\* The hygiene job reads, then clears.
LEMMA HygieneType ==
  ASSUME TypeOK, "hygiene" \in Keepers, HygienePlan \/ HygieneClear
  PROVE  TypeOK'
  <1>1. CASE HygienePlan
    <2>1. LoadAll(Unconfirmed) \in [Devices -> Loaded]
      BY LoadAllType
    <2>2. orm' \in [Procs -> [Devices -> Loaded]]
      BY <1>1, <2>1, ProcsFacts DEF HygienePlan, TypeOK
    <2>3. [d \in Devices |-> IF d \in Unconfirmed THEN row[d].ip ELSE NoIp]
              \in [Devices -> Ips \cup {NoIp}]
      BY DEF TypeOK
    <2>4. targets' \in [Procs -> [Devices -> Ips \cup {NoIp}]]
      BY <1>1, <2>3, ProcsFacts DEF HygienePlan, TypeOK
    <2>5. pc' \in [Procs -> Labels]
      BY <1>1, ProcsFacts DEF HygienePlan, TypeOK, Labels
    <2>6. QED
      BY <1>1, <2>2, <2>4, <2>5 DEF HygienePlan, TypeOK, tables, network
  <1>2. CASE HygieneClear
    <2>1. row' \in [Devices -> [ip: Ips \cup {NoIp}, status: Statuses, kind: Kinds]]
      BY <1>2, FreedFacts DEF HygieneClear, TypeOK, Row
    <2>2. counter' \in [Devices -> Counts] /\ silent' \in [Devices -> 0..Threshold]
      BY <1>2, CountsFacts DEF HygieneClear, TypeOK
    <2>3. Close("hygiene") /\ UNCHANGED <<outages, network, aborts>>
      BY <1>2 DEF HygieneClear
    <2>4. QED
      BY <2>1, <2>2, <2>3, CloseType, ProcsFacts DEF TypeOK, network
  <1>3. QED
    BY <1>1, <1>2

\* The environment: kinds, power, leases, operators.
LEMMA WorldType ==
  ASSUME TypeOK, NEW d \in Devices,
         \/ \E kind \in Kinds : Convert(d, kind)
         \/ PowerChange(d)
         \/ \E ip \in Ips : LeaseMove(ip, d) \/ OperatorSets(d, ip)
  PROVE  TypeOK'
  <1>1. ASSUME NEW kind \in Kinds, Convert(d, kind)
        PROVE  TypeOK'
    <2>1. row' \in [Devices -> [ip: Ips \cup {NoIp}, status: Statuses, kind: Kinds]]
      BY <1>1 DEF Convert, TypeOK
    <2>2. outages' \in [Devices -> SUBSET Kinds]
      BY <1>1 DEF Convert, TypeOK
    <2>3. QED
      BY <1>1, <2>1, <2>2 DEF Convert, TypeOK, sessions, network
  <1>2. CASE PowerChange(d)
    BY <1>2 DEF PowerChange, TypeOK, tables, sessions
  <1>3. ASSUME NEW ip \in Ips, LeaseMove(ip, d)
        PROVE  TypeOK'
    <2>1. lease' \in [Ips -> Devices \cup {NoDevice}] /\ moves' \in 0..MaxMoves
      BY <1>3, BoundsAssumption DEF LeaseMove, TypeOK
    <2>2. QED
      BY <1>3, <2>1 DEF LeaseMove, TypeOK, tables, sessions
  <1>4. ASSUME NEW ip \in Ips, OperatorSets(d, ip)
        PROVE  TypeOK'
    <2>1. row' \in [Devices -> [ip: Ips \cup {NoIp}, status: Statuses, kind: Kinds]]
      <3>1. /\ [row[d] EXCEPT !.ip = ip] =
                   [ip |-> ip, status |-> row[d].status, kind |-> row[d].kind]
            /\ [ip |-> ip, status |-> row[d].status, kind |-> row[d].kind] \in Row
        BY RowFacts, RowWritten
      <3>2. row' = [row EXCEPT ![d] = [row[d] EXCEPT !.ip = ip]]
        BY <1>4 DEF OperatorSets, TypeOK
      <3>3. QED
        BY <3>1, <3>2 DEF TypeOK, Row
    <2>2. edits' \in 0..MaxEdits
      BY <1>4, BoundsAssumption DEF OperatorSets, TypeOK
    <2>3. QED
      BY <1>4, <2>1, <2>2 DEF OperatorSets, TypeOK, sessions
  <1>5. QED
    BY <1>1, <1>2, <1>3, <1>4

\* One case per action of Next.
LEMMA TypeNext == TypeOK /\ [Next]_vars => TypeOK'
  <1> SUFFICES ASSUME TypeOK, [Next]_vars PROVE TypeOK'
    OBVIOUS
  <1>1. ASSUME NEW s \in Sweeps, SweepStep(s) \/ SweepAbort(s)
        PROVE  TypeOK'
    BY <1>1, SweepReadType, SweepPingType, SweepLoadType, SweepCommitType, SweepLostType
       DEF SweepStep
  <1>2. CASE DiscoveryStep
    BY <1>2, DiscoveryPollType, DiscoveryReleaseType, DiscoveryBindType DEF DiscoveryStep
  <1>3. CASE HygieneStep
    BY <1>3, HygieneType DEF HygieneStep
  <1>4. ASSUME NEW d \in Devices,
               \/ \E kind \in Kinds : Convert(d, kind)
               \/ PowerChange(d)
               \/ \E ip \in Ips : LeaseMove(ip, d) \/ OperatorSets(d, ip)
        PROVE  TypeOK'
    BY <1>4, WorldType
  <1>5. CASE UNCHANGED vars
    BY <1>5 DEF TypeOK, vars
  <1>6. QED
    BY <1>1, <1>2, <1>3, <1>4, <1>5 DEF Next

\* The state keeps its shape, whatever runs, overlaps, moves or dies.
THEOREM TypeCorrect == Spec => []TypeOK
  BY TypeInit, TypeNext, PTL DEF Spec

-----------------------------------------------------------------------------
(* What the steps do to a row *)

\* The hygiene job frees some rows, and leaves the others as they are.
LEMMA ClearRow ==
  ASSUME TypeOK, HygieneClear, NEW d \in Devices
  PROVE  IF d \in Dealt("hygiene")
         THEN /\ row'[d].ip = NoIp
              /\ row'[d].kind = row[d].kind
              /\ row'[d].status =
                    Written("unknown", orm["hygiene"][d].status, row[d].status)
         ELSE row'[d] = row[d]
  <1>1. row'[d] = IF d \in Dealt("hygiene") THEN Freed("hygiene", d) ELSE row[d]
    BY DEF HygieneClear
  <1>2. QED
    BY <1>1, FreedFacts

\* A device that changes kind keeps its address and its status.
LEMMA ConvertRow ==
  ASSUME TypeOK, NEW e \in Devices, NEW kind \in Kinds, Convert(e, kind),
         NEW d \in Devices
  PROVE  /\ row'[d].ip = row[d].ip
         /\ row'[d].status = row[d].status
         /\ row'[d].kind = IF d = e THEN kind ELSE row[d].kind
  <1>1. row'[d] = IF d = e THEN [row[d] EXCEPT !.kind = kind] ELSE row[d]
    BY DEF Convert, TypeOK
  <1>2. row[d] \in Row
    BY RowFacts
  <1>3. [row[d] EXCEPT !.kind = kind] =
            [ip |-> row[d].ip, status |-> row[d].status, kind |-> kind]
    BY <1>2 DEF Row
  <1>4. QED
    BY <1>1, <1>3

\* What moves outside the jobs: kinds, power, leases, operators.
WorldStep ==
    \/ \E d \in Devices : \E kind \in Kinds : Convert(d, kind)
    \/ \E d \in Devices :
          PowerChange(d) \/ \E ip \in Ips : LeaseMove(ip, d) \/ OperatorSets(d, ip)

\* It leaves the jobs and the statuses alone, and takes no address away.
LEMMA WorldRow ==
  ASSUME TypeOK, WorldStep
  PROVE  /\ UNCHANGED <<counter, pc, sessions, silent>>
         /\ \A d \in Devices : /\ row'[d].ip # row[d].ip => row'[d].ip # NoIp
                               /\ row'[d].status = row[d].status
  <1> DEFINE Gentle == /\ UNCHANGED <<counter, pc, sessions, silent>>
                       /\ \A d \in Devices : /\ row'[d].ip # row[d].ip => row'[d].ip # NoIp
                                             /\ row'[d].status = row[d].status
  <1>1. ASSUME NEW e \in Devices, NEW kind \in Kinds, Convert(e, kind)
        PROVE  Gentle
    <2>1. UNCHANGED <<counter, pc, sessions, silent>>
      BY <1>1 DEF Convert
    <2>2. QED
      BY <1>1, <2>1, ConvertRow
  <1>2. ASSUME NEW d \in Devices, PowerChange(d) \/ \E ip \in Ips : LeaseMove(ip, d)
        PROVE  Gentle
    <2>1. UNCHANGED <<counter, pc, sessions, silent>> /\ UNCHANGED row
      BY <1>2 DEF PowerChange, LeaseMove, tables, sessions
    <2>2. QED
      BY <2>1
  <1>3. ASSUME NEW d \in Devices, NEW ip \in Ips, OperatorSets(d, ip)
        PROVE  Gentle
    <2>1. UNCHANGED <<counter, pc, sessions, silent>>
      BY <1>3 DEF OperatorSets
    <2>2. row' = [row EXCEPT ![d] = [row[d] EXCEPT !.ip = ip]]
      BY <1>3 DEF OperatorSets, TypeOK
    <2>3. [row[d] EXCEPT !.ip = ip] =
              [ip |-> ip, status |-> row[d].status, kind |-> row[d].kind]
      BY RowFacts, RowWritten
    <2>4. \A e \in Devices : row'[e] = IF e = d THEN [row[d] EXCEPT !.ip = ip] ELSE row[e]
      BY <2>2 DEF TypeOK
    <2>5. ip # NoIp
      BY NoIpAssumption
    <2>6. ASSUME NEW e \in Devices
          PROVE  /\ row'[e].ip # row[e].ip => row'[e].ip # NoIp
                 /\ row'[e].status = row[e].status
      <3>1. CASE e = d
        <4>1. row'[e] = [ip |-> ip, status |-> row[e].status, kind |-> row[e].kind]
          BY <2>3, <2>4, <3>1
        <4>2. QED
          BY <2>5, <4>1
      <3>2. CASE e # d
        BY <2>4, <3>2
      <3>3. QED
        BY <3>1, <3>2
    <2>7. QED
      BY <2>1, <2>6
  <1>4. QED
    BY <1>1, <1>2, <1>3 DEF WorldStep

\* The four kinds of steps.
LEMMA NextCases ==
  ASSUME Next
  PROVE  \/ \E s \in Sweeps : SweepStep(s) \/ SweepAbort(s)
         \/ DiscoveryStep
         \/ HygieneStep
         \/ WorldStep
  BY DEF Next, WorldStep

\* What a job leaves of the sessions of the others.
LEMMA OthersKept ==
  ASSUME TypeOK, NEW p \in Procs, NEW q \in Procs, q # p,
         \/ p \in Sweeps /\ (SweepStep(p) \/ SweepAbort(p))
         \/ p = "discovery" /\ DiscoveryStep
         \/ p = "hygiene" /\ HygieneStep
  PROVE  /\ pc'[q] = pc[q] /\ todo'[q] = todo[q]
         /\ orm'[q] = orm[q] /\ targets'[q] = targets[q]
         /\ heard'[q] = heard[q]
  <1> DEFINE Kept == /\ pc'[q] = pc[q] /\ todo'[q] = todo[q]
                     /\ orm'[q] = orm[q] /\ targets'[q] = targets[q]
                     /\ heard'[q] = heard[q]
  <1>1. Close(p) => Kept
    BY DEF Close, TypeOK
  <1>2. CASE p \in Sweeps /\ (SweepStep(p) \/ SweepAbort(p))
    <2>1. SweepRead(p) \/ (\E answered \in SUBSET Ips : SweepPing(p, answered))
          \/ SweepLoad(p) => Kept
      BY DEF SweepRead, SweepPing, SweepLoad, TypeOK
    <2>2. SweepCommit(p) => Kept
      <3>1. SweepCommit(p) /\ todo[p] # Batch(p) => Kept
        BY DEF SweepCommit, TypeOK
      <3>2. SweepCommit(p) /\ todo[p] = Batch(p) => Close(p)
        BY DEF SweepCommit
      <3>3. QED
        BY <1>1, <3>1, <3>2
    <2>3. SweepClash(p) \/ SweepAbort(p) => Kept
      BY <1>1 DEF SweepClash, SweepAbort
    <2>4. QED
      BY <1>2, <2>1, <2>2, <2>3 DEF SweepStep
  <1>3. CASE p = "discovery" /\ DiscoveryStep
    <2>1. ASSUME NEW d \in Devices, NEW ip \in Ips, DiscoveryPoll(d, ip)
          PROVE  Kept
      BY <1>3, <2>1 DEF DiscoveryPoll, TypeOK
    <2>2. ASSUME NEW d \in Devices, DiscoveryRelease(d)
          PROVE  Kept
      <3>1. CASE Close("discovery")
        BY <1>1, <1>3, <3>1
      <3>2. CASE ~Close("discovery")
        BY <1>3, <2>2, <3>2 DEF DiscoveryRelease, TypeOK
      <3>3. QED
        BY <3>1, <3>2
    <2>3. ASSUME NEW d \in Devices, DiscoveryBind(d)
          PROVE  Kept
      BY <1>1, <1>3, <2>3 DEF DiscoveryBind
    <2>4. QED
      BY <1>3, <2>1, <2>2, <2>3 DEF DiscoveryStep
  <1>4. CASE p = "hygiene" /\ HygieneStep
    <2>1. HygienePlan => Kept
      BY <1>4 DEF HygienePlan, TypeOK
    <2>2. HygieneClear => Kept
      BY <1>1, <1>4 DEF HygieneClear
    <2>3. QED
      BY <1>4, <2>1, <2>2 DEF HygieneStep
  <1>5. QED
    BY <1>2, <1>3, <1>4

\* A step is one of sweep s, or leaves its session alone.
LEMMA MineOrNot ==
  ASSUME TypeOK, [Next]_vars, NEW s \in Sweeps, ~(SweepStep(s) \/ SweepAbort(s))
  PROVE  /\ pc'[s] = pc[s] /\ todo'[s] = todo[s]
         /\ orm'[s] = orm[s] /\ targets'[s] = targets[s]
         /\ heard'[s] = heard[s]
  <1> DEFINE Kept == /\ pc'[s] = pc[s] /\ todo'[s] = todo[s]
                     /\ orm'[s] = orm[s] /\ targets'[s] = targets[s]
                     /\ heard'[s] = heard[s]
  <1> USE ProcsFacts
  <1>1. ASSUME NEW r \in Sweeps, SweepStep(r) \/ SweepAbort(r)
        PROVE  Kept
    <2>1. r # s
      BY <1>1
    <2>2. QED
      BY <1>1, <2>1, OthersKept
  <1>2. CASE DiscoveryStep
    <2>1. "discovery" \in Procs
      BY <1>2 DEF DiscoveryStep
    <2>2. QED
      BY <1>2, <2>1, OthersKept
  <1>3. CASE HygieneStep
    <2>1. "hygiene" \in Procs
      BY <1>3 DEF HygieneStep
    <2>2. QED
      BY <1>3, <2>1, OthersKept
  <1>4. CASE WorldStep
    BY <1>4, WorldRow DEF sessions
  <1>5. CASE UNCHANGED vars
    BY <1>5 DEF vars
  <1>6. QED
    BY <1>1, <1>2, <1>3, <1>4, <1>5, NextCases

-----------------------------------------------------------------------------
(* What is not pinged is unknown *)

\* The devices that a sweep has in hand, from its reading to its last commit.
InHand(s) == Dealt(s) \cup todo[s]

\* Hypothesis on an execution: no device loses its address while a sweep has
\* it in hand.
AddressesStay == \A s \in Sweeps : \A d \in InHand(s) : row[d].ip # NoIp

\* The devices that a writer of addresses has loaded.
Read(p) == {d \in Devices : orm[p][d].status # "unread"}

\* Hypothesis on an execution: no status changes while a writer of addresses
\* has its device loaded.
StatusesStay ==
    \A p \in Keepers : \A d \in Read(p) :
        orm'[p] = orm[p] => row'[d].status = row[d].status

\* The writers of addresses have no stale copy of a status: they loaded what
\* the row says, or will read the row when they free it.
KeepersAreCurrent ==
    \A p \in Keepers : \A d \in Read(p) : orm[p][d].status = row[d].status

\* A row is freed of its status too, unless the session has a stale copy.
LEMMA FreedIsUnknown ==
  ASSUME NEW loaded, NEW stored, loaded \in {"unread", stored}
  PROVE  Written("unknown", loaded, stored) = "unknown"
  BY DEF Written

\* What a session loads is what the rows say, or is not read yet.
LEMMA LoadedIsCurrent ==
  ASSUME NEW ds, NEW d \in Devices
  PROVE  LoadAll(ds)[d].status \in {"unread", row[d].status}
  <1>1. LoadAll(ds)[d] \in {Unloaded, Load(d)}
    BY DEF LoadAll
  <1>2. Unloaded.status = "unread" /\ Load(d).status = row[d].status
    BY DEF Unloaded, Load
  <1>3. QED
    BY <1>1, <1>2

\* A session that ends keeps nothing.
LEMMA ClosedReadsNothing ==
  ASSUME NEW d \in Devices
  PROVE  LoadAll({})[d].status = "unread"
  BY DEF LoadAll, Unloaded

\* A writer of addresses keeps what it loaded, loads rows as they are, or ends.
LEMMA KeeperLoads ==
  ASSUME TypeOK, [Next]_vars, NEW p \in Keepers
  PROVE  \/ orm'[p] = orm[p]
         \/ orm'[p] = LoadAll({})
         \/ UNCHANGED row /\ \E ds \in SUBSET Devices : orm'[p] = LoadAll(ds)
  <1> DEFINE Loads == \/ orm'[p] = orm[p]
                      \/ orm'[p] = LoadAll({})
                      \/ UNCHANGED row /\ \E ds \in SUBSET Devices : orm'[p] = LoadAll(ds)
  <1> USE ProcsFacts
  <1>1. p \notin Sweeps /\ p \in {"discovery", "hygiene"}
    BY KeepersAssumption, SweepsAssumption
  <1>2. ASSUME NEW s \in Sweeps, SweepStep(s) \/ SweepAbort(s)
        PROVE  Loads
    BY <1>1, <1>2, OthersKept
  <1>3. CASE DiscoveryStep
    <2>1. "discovery" \in Procs
      BY <1>3 DEF DiscoveryStep
    <2>2. CASE p = "hygiene"
      BY <1>3, <2>1, <2>2, OthersKept
    <2>3. CASE p = "discovery"
      <3>1. ASSUME NEW d \in Devices, NEW ip \in Ips, DiscoveryPoll(d, ip)
            PROVE  Loads
        <4>1. orm'[p] = LoadAll(Lrs) /\ UNCHANGED row
          BY <2>1, <2>3, <3>1 DEF DiscoveryPoll, TypeOK, tables
        <4>2. Lrs \in SUBSET Devices
          BY DEF Lrs
        <4>3. QED
          BY <4>1, <4>2
      <3>2. Close(p) => Loads
        BY DEF Close, TypeOK
      <3>3. ASSUME NEW d \in Devices, DiscoveryRelease(d)
            PROVE  Loads
        BY <2>3, <3>2, <3>3 DEF DiscoveryRelease
      <3>4. ASSUME NEW d \in Devices, DiscoveryBind(d)
            PROVE  Loads
        BY <2>3, <3>2, <3>4 DEF DiscoveryBind
      <3>5. QED
        BY <1>3, <3>1, <3>3, <3>4 DEF DiscoveryStep
    <2>4. QED
      BY <1>1, <2>2, <2>3
  <1>4. CASE HygieneStep
    <2>1. "hygiene" \in Procs
      BY <1>4 DEF HygieneStep
    <2>2. CASE p = "discovery"
      BY <1>4, <2>1, <2>2, OthersKept
    <2>3. CASE p = "hygiene"
      <3>1. CASE HygienePlan
        <4>1. orm'[p] = LoadAll(Unconfirmed) /\ UNCHANGED row
          BY <2>1, <2>3, <3>1 DEF HygienePlan, TypeOK, tables
        <4>2. Unconfirmed \in SUBSET Devices
          BY DEF Unconfirmed, Lrs
        <4>3. QED
          BY <4>1, <4>2
      <3>2. CASE HygieneClear
        BY <2>1, <2>3, <3>2 DEF HygieneClear, Close, TypeOK
      <3>3. QED
        BY <1>4, <3>1, <3>2 DEF HygieneStep
    <2>4. QED
      BY <1>1, <2>2, <2>3
  <1>5. CASE WorldStep
    BY <1>5, WorldRow DEF sessions
  <1>6. CASE UNCHANGED vars
    BY <1>6 DEF vars
  <1>7. QED
    BY <1>2, <1>3, <1>4, <1>5, <1>6, NextCases

\* The writers of addresses stay current when no status moves under them.
LEMMA KeepersNext ==
  ASSUME TypeOK, KeepersAreCurrent, StatusesStay, [Next]_vars
  PROVE  KeepersAreCurrent'
  <1> SUFFICES ASSUME NEW p \in Keepers, NEW d \in Devices, orm'[p][d].status # "unread"
               PROVE  orm'[p][d].status = row'[d].status
    BY DEF KeepersAreCurrent, Read
  <1>1. CASE orm'[p] = orm[p]
    BY <1>1 DEF KeepersAreCurrent, StatusesStay, Read
  <1>2. CASE orm'[p] = LoadAll({})
    BY <1>2, ClosedReadsNothing
  <1>3. CASE UNCHANGED row /\ \E ds \in SUBSET Devices : orm'[p] = LoadAll(ds)
    BY <1>3, LoadedIsCurrent
  <1>4. QED
    BY <1>1, <1>2, <1>3, KeeperLoads

\* Addresses go away with the status; statuses come to rows with an address.
LEMMA UnpingedNext ==
  ASSUME TypeOK, AddressesStay, KeepersAreCurrent, UnpingedIsUnknown, [Next]_vars
  PROVE  UnpingedIsUnknown'
  <1> USE ProcsFacts
  <1> SUFFICES ASSUME NEW d \in Devices, row'[d].ip = NoIp
               PROVE  row'[d].status = "unknown"
    BY DEF UnpingedIsUnknown
  <1>1. ASSUME row'[d].ip = row[d].ip, row'[d].status = row[d].status
        PROVE  row'[d].status = "unknown"
    BY <1>1 DEF UnpingedIsUnknown
  <1>2. \A p \in Keepers : orm[p][d].status \in {"unread", row[d].status}
    BY DEF KeepersAreCurrent, Read
  <1>3. ASSUME NEW s \in Sweeps, SweepStep(s) \/ SweepAbort(s)
        PROVE  row'[d].status = "unknown"
    <2>1. CASE SweepCommit(s)
      <3>1. row'[d].ip = row[d].ip
        BY <2>1, CommitRow
      <3>2. d \notin Batch(s)
        BY <3>1 DEF AddressesStay, InHand, Batch
      <3>3. QED
        BY <1>1, <2>1, <3>1, <3>2, CommitRow
    <2>2. CASE ~SweepCommit(s)
      <3>1. UNCHANGED row
        BY <1>3, <2>2 DEF SweepStep, SweepRead, SweepPing, SweepLoad, SweepClash,
                          SweepAbort, tables
      <3>2. QED
        BY <1>1, <3>1
    <2>3. QED
      BY <2>1, <2>2
  <1>4. CASE DiscoveryStep
    <2>1. "discovery" \in Keepers
      BY <1>4 DEF DiscoveryStep
    <2>2. ASSUME NEW e \in Devices, NEW ip \in Ips, DiscoveryPoll(e, ip)
          PROVE  row'[d].status = "unknown"
      BY <1>1, <2>2 DEF DiscoveryPoll, tables
    <2>3. ASSUME NEW e \in Devices, DiscoveryRelease(e)
          PROVE  row'[d].status = "unknown"
      BY <1>1, <2>3 DEF DiscoveryRelease, tables
    <2>4. ASSUME NEW e \in Devices, DiscoveryBind(e)
          PROVE  row'[d].status = "unknown"
      <3> DEFINE ip == targets["discovery"][e]
                 freed == todo["discovery"]
      <3>1. ip # NoIp
        BY <2>4 DEF DiscoveryBind
      <3>2. CASE ~(Holders(ip, e) \subseteq freed) \/ (d # e /\ d \notin freed)
        <4>1. row'[d] = row[d]
          BY <2>1, <2>4, <3>2, BindRow
        <4>2. QED
          BY <1>1, <4>1
      <3>3. CASE Holders(ip, e) \subseteq freed /\ d = e
        BY <2>1, <2>4, <3>1, <3>3, BindRow
      <3>4. CASE Holders(ip, e) \subseteq freed /\ d # e /\ d \in freed
        <4>1. row'[d].status = Written("unknown", orm["discovery"][d].status, row[d].status)
          BY <2>1, <2>4, <3>4, BindRow
        <4>2. QED
          BY <1>2, <2>1, <4>1, FreedIsUnknown
      <3>5. QED
        BY <3>2, <3>3, <3>4
    <2>5. QED
      BY <1>4, <2>2, <2>3, <2>4 DEF DiscoveryStep
  <1>5. CASE HygieneStep
    <2>1. CASE HygienePlan
      BY <1>1, <2>1 DEF HygienePlan, tables
    <2>2. CASE HygieneClear
      <3>1. CASE d \in Dealt("hygiene")
        <4>1. row'[d].status = Written("unknown", orm["hygiene"][d].status, row[d].status)
          BY <2>2, <3>1, ClearRow
        <4>2. "hygiene" \in Keepers
          BY <1>5 DEF HygieneStep
        <4>3. QED
          BY <1>2, <4>1, <4>2, FreedIsUnknown
      <3>2. CASE d \notin Dealt("hygiene")
        BY <1>1, <2>2, <3>2, ClearRow
      <3>3. QED
        BY <3>1, <3>2
    <2>3. QED
      BY <1>5, <2>1, <2>2 DEF HygieneStep
  <1>6. CASE WorldStep
    BY <1>1, <1>6, WorldRow
  <1>7. CASE UNCHANGED vars
    BY <1>1, <1>7 DEF vars
  <1>8. QED
    BY <1>3, <1>4, <1>5, <1>6, <1>7, NextCases

\* Whatever overlaps, moves, dies or changes kind: in an execution where no
\* device loses its address while a sweep has it in hand, and no status changes
\* while a writer of addresses has its device loaded, a device without an
\* address is "unknown" (_release_ip_if_held, run_cleanup).
THEOREM UnpingedStaysUnknown ==
  Spec /\ []AddressesStay /\ [][StatusesStay]_vars => []UnpingedIsUnknown
  <1> DEFINE Inv == KeepersAreCurrent /\ UnpingedIsUnknown
  <1>1. Init => Inv
    <2>1. Init => KeepersAreCurrent
      <3> SUFFICES ASSUME Init, NEW p \in Keepers, NEW d \in Devices
                   PROVE  orm[p][d].status = "unread"
        BY DEF KeepersAreCurrent, Read
      <3>1. QED
        BY ClosedReadsNothing, ProcsFacts DEF Init
    <2>2. Init => UnpingedIsUnknown
      BY DEF Init, UnpingedIsUnknown
    <2>3. QED
      BY <2>1, <2>2
  <1>2. Inv /\ TypeOK /\ AddressesStay /\ StatusesStay /\ [Next]_vars => Inv'
    BY KeepersNext, UnpingedNext
  <1>3. Inv /\ UNCHANGED vars => Inv'
    BY DEF vars, KeepersAreCurrent, Read, UnpingedIsUnknown
  <1>4. Inv => UnpingedIsUnknown
    OBVIOUS
  <1> HIDE DEF Inv
  <1>5. QED
    BY <1>1, <1>2, <1>3, <1>4, TypeCorrect, PTL DEF Spec

-----------------------------------------------------------------------------
(* Down is measured *)

\* Hypothesis on an execution: while a sweep has a device in hand, nobody else
\* writes its address, status or counter, or pings it.
SweepsUndisturbed ==
    \A s \in Sweeps : \A d \in InHand(s) \cap InHand(s)' :
        /\ row'[d].ip = row[d].ip
        /\ row'[d].status = row[d].status
        /\ counter'[d] = counter[d]
        /\ d \in todo[s] => silent'[d] = silent[d]

\* Hypothesis on an execution: no sweep dies between its pings and its last
\* commit.
SweepsSurvive == \A s \in Sweeps : todo[s] # {} /\ todo'[s] = {} => aborts' = aborts

\* A sweep knows the rows of the devices it has in hand as they are.
SweepIsCurrent(s) ==
    /\ pc[s] \in {"idle", "ping"} => todo[s] = {}
    /\ pc[s] = "ping" =>
          \A d \in Devices : targets[s][d] # NoIp => targets[s][d] = row[d].ip
    /\ \A d \in todo[s] : row[d].ip # NoIp
    /\ pc[s] = "write" =>
          \A d \in todo[s] : /\ orm[s][d].ip = row[d].ip
                             /\ orm[s][d].status = row[d].status
                             /\ orm[s][d].counter = counter[d]

SweepsAreCurrent == \A s \in Sweeps : SweepIsCurrent(s)

\* What a counter says was really measured, and what it is about to say too.
Measured ==
    /\ \A d \in Devices :
          (\A s \in Sweeps : d \notin todo[s]) => counter[d] <= silent[d]
    /\ \A s \in Sweeps : \A d \in todo[s] :
          \/ row[d].ip \in heard[s]
          \/ silent[d] = Threshold
          \/ silent[d] >= 1 /\ silent[d] >= counter[d] + 1

\* The steps of a sweep leave what it has still to do as it knows it.
LEMMA SweepStaysCurrent ==
  ASSUME TypeOK, NEW s \in Sweeps, SweepIsCurrent(s), SweepStep(s) \/ SweepAbort(s)
  PROVE  SweepIsCurrent(s)'
  <1> USE ProcsFacts
  <1>1. SweepIsCurrent(s)
    OBVIOUS
  <1>2. CASE SweepRead(s)
    <2>1. pc[s] = "idle" /\ pc'[s] = "ping" /\ UNCHANGED <<row, todo>>
      BY <1>2 DEF SweepRead, MayStart, TypeOK, tables
    <2>2. todo'[s] = {}
      BY <1>1, <2>1 DEF SweepIsCurrent
    <2>3. \A d \in Devices : targets'[s][d] = IF InScope(s, d) THEN row[d].ip ELSE NoIp
      BY <1>2 DEF SweepRead, TypeOK
    <2>4. QED
      BY <2>1, <2>2, <2>3 DEF SweepIsCurrent
  <1>3. ASSUME NEW answered \in SUBSET Ips, SweepPing(s, answered)
        PROVE  SweepIsCurrent(s)'
    <2>1. pc[s] = "ping" /\ pc'[s] = "load" /\ UNCHANGED row
      BY <1>3 DEF SweepPing, TypeOK, tables
    <2>2. todo'[s] = Dealt(s)
      BY <1>3 DEF SweepPing, TypeOK
    <2>3. \A d \in Dealt(s) : row[d].ip # NoIp
      BY <1>1, <2>1 DEF SweepIsCurrent, Dealt
    <2>4. QED
      BY <2>1, <2>2, <2>3 DEF SweepIsCurrent
  <1>4. CASE SweepLoad(s)
    <2>1. pc[s] = "load" /\ pc'[s] = "write" /\ UNCHANGED <<row, counter, todo>>
      BY <1>4 DEF SweepLoad, TypeOK, tables
    <2>2. todo[s] \subseteq Devices
      BY DEF TypeOK
    <2>3. orm'[s] = LoadAll(todo[s])
      BY <1>4 DEF SweepLoad, TypeOK
    <2>4. \A d \in todo[s] : orm'[s][d] = Load(d)
      BY <2>2, <2>3 DEF LoadAll
    <2>5. \A d \in todo[s] : /\ orm'[s][d].ip = row[d].ip
                             /\ orm'[s][d].status = row[d].status
                             /\ orm'[s][d].counter = counter[d]
      <3>1. \A d \in todo[s] : /\ Load(d).ip = row[d].ip
                               /\ Load(d).status = row[d].status
                               /\ Load(d).counter = counter[d]
        BY DEF Load
      <3>2. QED
        BY <2>4, <3>1
    <2>6. QED
      BY <1>1, <2>1, <2>5 DEF SweepIsCurrent
  <1>5. CASE SweepCommit(s)
    <2>1. pc[s] = "write"
      BY <1>5 DEF SweepCommit
    <2>2. CASE todo[s] = Batch(s)
      <3>1. pc'[s] = "idle" /\ todo'[s] = {}
        BY <1>5, <2>2 DEF SweepCommit, Close, TypeOK
      <3>2. QED
        BY <3>1 DEF SweepIsCurrent
    <2>3. CASE todo[s] # Batch(s)
      <3>1. /\ pc'[s] = "write" /\ orm'[s] = orm[s]
            /\ todo'[s] = todo[s] \ Batch(s)
        BY <1>5, <2>1, <2>3 DEF SweepCommit, TypeOK
      <3>2. \A d \in todo'[s] : d \in Devices /\ row'[d].ip = row[d].ip
        BY <1>5, <3>1, CommitRow DEF TypeOK
      <3>3. \A d \in todo'[s] : row'[d].status = row[d].status /\ counter'[d] = counter[d]
        <4>1. SUFFICES ASSUME NEW d \in todo'[s]
                       PROVE  row'[d].status = row[d].status /\ counter'[d] = counter[d]
          OBVIOUS
        <4>2. d \in Devices /\ d \notin Batch(s)
          BY <3>1, <3>2
        <4>3. QED
          BY <1>5, <4>2, CommitRow DEF SweepCommit
      <3>4. QED
        BY <1>1, <2>1, <3>1, <3>2, <3>3 DEF SweepIsCurrent
    <2>4. QED
      BY <2>2, <2>3
  <1>6. CASE SweepClash(s) \/ SweepAbort(s)
    <2>1. pc'[s] = "idle" /\ todo'[s] = {}
      BY <1>6 DEF SweepClash, SweepAbort, Close, TypeOK
    <2>2. QED
      BY <2>1 DEF SweepIsCurrent
  <1>7. QED
    BY <1>2, <1>3, <1>4, <1>5, <1>6 DEF SweepStep

\* Sweeps stay current when nobody disturbs them.
LEMMA SweepsNext ==
  ASSUME TypeOK, SweepsAreCurrent, SweepsUndisturbed, [Next]_vars
  PROVE  SweepsAreCurrent'
  <1> USE ProcsFacts
  <1> SUFFICES ASSUME NEW s \in Sweeps PROVE SweepIsCurrent(s)'
    BY DEF SweepsAreCurrent
  <1>1. SweepIsCurrent(s)
    BY DEF SweepsAreCurrent
  <1>2. CASE SweepStep(s) \/ SweepAbort(s)
    BY <1>1, <1>2, SweepStaysCurrent
  <1>3. CASE ~(SweepStep(s) \/ SweepAbort(s))
    <2>1. /\ pc'[s] = pc[s] /\ todo'[s] = todo[s]
          /\ orm'[s] = orm[s] /\ targets'[s] = targets[s]
      BY <1>3, MineOrNot
    <2>2. InHand(s)' = InHand(s) /\ InHand(s) \subseteq Devices
      BY <2>1 DEF InHand, Dealt, TypeOK
    <2>3. \A d \in InHand(s) : /\ row'[d].ip = row[d].ip
                               /\ row'[d].status = row[d].status
                               /\ counter'[d] = counter[d]
      BY <2>2 DEF SweepsUndisturbed
    <2>4. \A d \in Devices : targets[s][d] # NoIp => d \in InHand(s)
      BY DEF InHand, Dealt
    <2>5. \A d \in todo[s] : d \in InHand(s)
      BY DEF InHand
    <2>6. QED
      BY <1>1, <2>1, <2>3, <2>4, <2>5 DEF SweepIsCurrent
  <1>4. QED
    BY <1>2, <1>3

\* What a sweep is about to count for a device that did not answer is not
\* more than the pings that really went unanswered.
LEMMA CountedIsMeasured ==
  ASSUME TypeOK, NEW s \in Sweeps, NEW d \in Devices,
         \/ silent[d] = Threshold
         \/ silent[d] >= 1 /\ silent[d] >= counter[d] + 1,
         orm[s][d].counter = counter[d], ~Reachable(s, d)
  PROVE  /\ NewCounter(s, d) <= silent[d]
         /\ StoredCounter(s, d) <= silent[d]
  <1>1. counter[d] \in Counts /\ silent[d] \in 0..Threshold
    BY DEF TypeOK
  <1>2. NewCounter(s, d) <= silent[d]
    BY <1>1, CountsFacts DEF NewCounter, Counts, NoRow
  <1>3. QED
    BY <1>2 DEF StoredCounter

\* A batch counts what its sweep has measured.
LEMMA CommitIsMeasured ==
  ASSUME TypeOK, NEW s \in Sweeps, SweepIsCurrent(s), Measured, SweepCommit(s),
         NEW d \in Batch(s)
  PROVE  /\ d \in Devices /\ d \in todo[s]
         /\ orm[s][d].status = row[d].status
         /\ counter'[d] <= silent[d]
         /\ ~Reachable(s, d) => NewCounter(s, d) <= silent[d]
  <1>1. d \in Devices /\ d \in todo[s]
    BY ProcsFacts DEF Batch, TypeOK
  <1>2. /\ orm[s][d].ip = row[d].ip
        /\ orm[s][d].status = row[d].status
        /\ orm[s][d].counter = counter[d]
    BY <1>1 DEF SweepCommit, SweepIsCurrent
  <1>3. counter'[d] = StoredCounter(s, d)
    BY <1>1 DEF SweepCommit
  <1>4. CASE Reachable(s, d)
    <2>1. StoredCounter(s, d) = 0
      BY <1>2, <1>4 DEF StoredCounter, NewCounter
    <2>2. silent[d] \in 0..Threshold
      BY <1>1 DEF TypeOK
    <2>3. QED
      BY <1>1, <1>2, <1>3, <1>4, <2>1, <2>2, CountsFacts
  <1>5. CASE ~Reachable(s, d)
    <2>1. \/ silent[d] = Threshold
          \/ silent[d] >= 1 /\ silent[d] >= counter[d] + 1
      BY <1>1, <1>2, <1>5 DEF Measured, Reachable
    <2>2. QED
      BY <1>1, <1>2, <1>3, <1>5, <2>1, CountedIsMeasured
  <1>6. QED
    BY <1>4, <1>5

\* What a sweep has still to do is as it was, through a step of others.
LEMMA HandUndisturbed ==
  ASSUME TypeOK, SweepsUndisturbed, NEW s \in Sweeps, todo'[s] = todo[s], NEW d \in todo[s]
  PROVE  /\ d \in Devices
         /\ row'[d].ip = row[d].ip
         /\ counter'[d] = counter[d] /\ silent'[d] = silent[d]
  <1>1. d \in InHand(s) \cap InHand(s)'
    BY DEF InHand
  <1>2. QED
    BY <1>1, ProcsFacts DEF SweepsUndisturbed, TypeOK

\* What one sweep measured stays measured through a step of others.
LEMMA StaysMeasured ==
  ASSUME TypeOK, SweepsUndisturbed, Measured, NEW s \in Sweeps,
         todo'[s] = todo[s], heard'[s] = heard[s], NEW d \in todo'[s]
  PROVE  \/ row'[d].ip \in heard'[s]
         \/ silent'[d] = Threshold
         \/ silent'[d] >= 1 /\ silent'[d] >= counter'[d] + 1
  BY HandUndisturbed DEF Measured

\* Every unanswered ping is counted in silent before a sweep counts it.
LEMMA PingMeasures ==
  ASSUME TypeOK, SweepsAreCurrent, Measured, SweepsUndisturbed,
         NEW s \in Sweeps, NEW answered \in SUBSET Ips, SweepPing(s, answered)
  PROVE  Measured'
  <1> USE ProcsFacts
  <1>1. /\ pc[s] = "ping" /\ UNCHANGED <<row, counter>> /\ heard'[s] = answered
        /\ todo'[s] = Dealt(s)
    BY DEF SweepPing, tables, TypeOK
  <1>2. SweepIsCurrent(s) /\ todo[s] = {}
    BY <1>1 DEF SweepsAreCurrent, SweepIsCurrent
  <1>3. \A d \in Devices : d \notin Dealt(s) => silent'[d] = silent[d]
    BY DEF SweepPing
  <1>4. \A r \in Sweeps : r # s => todo'[r] = todo[r] /\ heard'[r] = heard[r]
    BY DEF SweepPing, TypeOK
  <1>5. ASSUME NEW d \in Dealt(s)
        PROVE  \/ row[d].ip \in answered
               \/ silent'[d] = Threshold
               \/ silent'[d] >= 1 /\ silent'[d] >= counter[d] + 1
    <2>1. d \in Devices /\ targets[s][d] = row[d].ip
      BY <1>1, <1>2 DEF SweepIsCurrent, Dealt
    <2>2. counter[d] \in Int /\ silent[d] \in 0..Threshold
      BY <2>1, CountsFacts DEF TypeOK
    <2>3. row[d].ip \notin answered =>
            silent'[d] = IF silent[d] < Threshold THEN silent[d] + 1 ELSE Threshold
      BY <2>1 DEF SweepPing
    <2>4. CASE \A r \in Sweeps : d \notin todo[r]
      <3>1. counter[d] <= silent[d]
        BY <2>1, <2>4 DEF Measured
      <3>2. QED
        BY <2>2, <2>3, <3>1, CountsFacts
    <2>5. ASSUME NEW r \in Sweeps, d \in todo[r]
          PROVE  row[d].ip \in answered \/ silent'[d] = Threshold
      <3>1. todo'[r] = todo[r]
        BY <1>2, <1>4, <2>5
      <3>2. silent'[d] = silent[d]
        BY <2>5, <3>1, HandUndisturbed
      <3>3. QED
        BY <2>2, <2>3, <3>2, CountsFacts
    <2>6. QED
      BY <2>4, <2>5
  <1>6. ASSUME NEW d \in Devices, \A r \in Sweeps : d \notin todo'[r]
        PROVE  counter'[d] <= silent'[d]
    <2>1. d \notin Dealt(s) /\ \A r \in Sweeps : d \notin todo[r]
      BY <1>1, <1>2, <1>4, <1>6
    <2>2. QED
      BY <1>1, <1>3, <2>1 DEF Measured
  <1>7. ASSUME NEW r \in Sweeps, NEW d \in todo'[r]
        PROVE  \/ row'[d].ip \in heard'[r]
               \/ silent'[d] = Threshold
               \/ silent'[d] >= 1 /\ silent'[d] >= counter'[d] + 1
    <2>1. CASE r = s
      BY <1>1, <1>5, <1>7, <2>1
    <2>2. CASE r # s
      BY <1>4, <1>7, <2>2, StaysMeasured
    <2>3. QED
      BY <2>1, <2>2
  <1>8. QED
    BY <1>6, <1>7 DEF Measured

\* A batch takes its devices out of the hand of its sweep, and no other.
LEMMA CommitHand ==
  ASSUME TypeOK, NEW s \in Sweeps, SweepCommit(s)
  PROVE  /\ UNCHANGED silent /\ pc[s] = "write"
         /\ \A d \in Devices : d \notin Batch(s) => counter'[d] = counter[d]
         /\ todo'[s] = todo[s] \ Batch(s)
         /\ todo'[s] # {} => heard'[s] = heard[s]
         /\ \A r \in Sweeps : r # s => todo'[r] = todo[r] /\ heard'[r] = heard[r]
  <1> USE ProcsFacts
  <1>1. UNCHANGED silent /\ pc[s] = "write"
        /\ \A d \in Devices : d \notin Batch(s) => counter'[d] = counter[d]
    BY DEF SweepCommit
  <1>2. CASE todo[s] = Batch(s)
    <2>1. Close(s)
      BY <1>2 DEF SweepCommit
    <2>2. QED
      BY <1>1, <1>2, <2>1 DEF Close, TypeOK
  <1>3. CASE todo[s] # Batch(s)
    <2>1. todo' = [todo EXCEPT ![s] = @ \ Batch(s)] /\ heard' = heard
      BY <1>3 DEF SweepCommit
    <2>2. QED
      BY <1>1, <2>1 DEF TypeOK
  <1>4. QED
    BY <1>2, <1>3

\* A batch counts what was measured.
LEMMA CommitMeasures ==
  ASSUME TypeOK, SweepsAreCurrent, Measured, SweepsUndisturbed,
         NEW s \in Sweeps, SweepCommit(s)
  PROVE  Measured'
  <1> USE ProcsFacts
  <1>1. SweepIsCurrent(s)
    BY DEF SweepsAreCurrent
  <1>2. \A d \in Batch(s) : counter'[d] <= silent[d]
    BY <1>1, CommitIsMeasured
  <1>3. ASSUME NEW d \in Devices, \A r \in Sweeps : d \notin todo'[r]
        PROVE  counter'[d] <= silent'[d]
    BY <1>2, <1>3, CommitHand DEF Measured
  <1>4. ASSUME NEW r \in Sweeps, NEW d \in todo'[r]
        PROVE  \/ row'[d].ip \in heard'[r]
               \/ silent'[d] = Threshold
               \/ silent'[d] >= 1 /\ silent'[d] >= counter'[d] + 1
    <2>1. CASE r = s
      <3>1. d \in todo[s] /\ d \notin Batch(s) /\ d \in Devices
        BY <1>4, <2>1, CommitHand DEF TypeOK
      <3>2. /\ row'[d].ip = row[d].ip /\ counter'[d] = counter[d]
            /\ heard'[s] = heard[s] /\ silent'[d] = silent[d]
        BY <1>4, <2>1, <3>1, CommitHand, CommitRow
      <3>3. QED
        BY <2>1, <3>1, <3>2 DEF Measured
    <2>2. CASE r # s
      BY <1>4, <2>2, CommitHand, StaysMeasured
    <2>3. QED
      BY <2>1, <2>2
  <1>5. QED
    BY <1>3, <1>4 DEF Measured

\* A step that leaves counts and hands alone, or frees rows of both.
LEMMA RestMeasures ==
  ASSUME TypeOK, Measured, SweepsUndisturbed,
         \A s \in Sweeps : todo'[s] = todo[s] /\ heard'[s] = heard[s],
         \A d \in Devices : \/ counter'[d] = NoRow /\ silent'[d] = 0
                            \/ counter'[d] = counter[d] /\ silent'[d] = silent[d]
  PROVE  Measured'
  <1>1. NoRow <= 0
    BY DEF NoRow
  <1>2. ASSUME NEW d \in Devices, \A s \in Sweeps : d \notin todo'[s]
        PROVE  counter'[d] <= silent'[d]
    BY <1>1, <1>2 DEF Measured
  <1>3. QED
    BY <1>2, StaysMeasured DEF Measured

\* Whatever a sweep does, its counts are measured: it neither dies with its
\* pings in hand nor clashes.
LEMMA SweepMeasures ==
  ASSUME TypeOK, SweepsAreCurrent, Measured, SweepsUndisturbed, SweepsSurvive,
         NEW s \in Sweeps, SweepStep(s) \/ SweepAbort(s)
  PROVE  Measured'
  <1> USE ProcsFacts
  <1>1. SweepIsCurrent(s)
    BY DEF SweepsAreCurrent
  <1>2. CASE SweepRead(s) \/ SweepLoad(s)
    BY <1>2, RestMeasures DEF SweepRead, SweepLoad, tables
  <1>3. ASSUME NEW answered \in SUBSET Ips, SweepPing(s, answered)
        PROVE  Measured'
    BY <1>3, PingMeasures
  <1>4. CASE SweepCommit(s)
    BY <1>4, CommitMeasures
  <1>5. ~SweepClash(s)
    <2>1. SweepClash(s) => \A d \in todo[s] : orm[s][d].counter = counter[d]
      BY <1>1 DEF SweepIsCurrent, SweepClash
    <2>2. SweepClash(s) => \E d \in todo[s] : orm[s][d].counter # counter[d]
      BY DEF SweepClash, Clash, Batch
    <2>3. QED
      BY <2>1, <2>2
  <1>6. CASE SweepAbort(s)
    <2>1. todo'[s] = {} /\ UNCHANGED <<row, counter, silent>>
          /\ \A r \in Sweeps : r # s => todo'[r] = todo[r] /\ heard'[r] = heard[r]
      BY <1>6 DEF SweepAbort, Close, TypeOK, tables
    <2>2. aborts' # aborts
      BY <1>6 DEF SweepAbort, TypeOK
    <2>3. todo[s] = {}
      BY <2>1, <2>2 DEF SweepsSurvive
    <2>4. \A r \in Sweeps : todo'[r] = todo[r]
      BY <2>1, <2>3
    <2>5. \A r \in Sweeps : \A d \in todo[r] : heard'[r] = heard[r]
      BY <2>1, <2>3
    <2>6. QED
      BY <2>1, <2>4, <2>5 DEF Measured
  <1>7. QED
    BY <1>2, <1>3, <1>4, <1>5, <1>6 DEF SweepStep

\* A row freed of its address starts to count again, here and in its counter.
LEMMA MeasuredNext ==
  ASSUME TypeOK, SweepsAreCurrent, Measured, SweepsUndisturbed, SweepsSurvive,
         [Next]_vars
  PROVE  Measured'
  <1> USE ProcsFacts
  <1>1. ASSUME NEW s \in Sweeps, SweepStep(s) \/ SweepAbort(s)
        PROVE  Measured'
    BY <1>1, SweepMeasures
  <1>2. CASE ~\E s \in Sweeps : SweepStep(s) \/ SweepAbort(s)
    <2>1. \A s \in Sweeps : todo'[s] = todo[s] /\ heard'[s] = heard[s]
      BY <1>2, MineOrNot
    <2>2. \A d \in Devices : \/ counter'[d] = NoRow /\ silent'[d] = 0
                             \/ counter'[d] = counter[d] /\ silent'[d] = silent[d]
      <3>1. CASE DiscoveryStep
        <4>1. ASSUME NEW e \in Devices, NEW ip \in Ips, DiscoveryPoll(e, ip)
              PROVE  UNCHANGED <<counter, silent>>
          BY <4>1 DEF DiscoveryPoll, tables
        <4>2. ASSUME NEW e \in Devices, DiscoveryRelease(e)
              PROVE  UNCHANGED <<counter, silent>>
          BY <4>2 DEF DiscoveryRelease, tables
        <4>3. ASSUME NEW e \in Devices, DiscoveryBind(e), NEW d \in Devices
              PROVE  \/ counter'[d] = NoRow /\ silent'[d] = 0
                     \/ counter'[d] = counter[d] /\ silent'[d] = silent[d]
          <5>1. CASE Holders(targets["discovery"][e], e) \subseteq todo["discovery"]
            BY <4>3, <5>1 DEF DiscoveryBind
          <5>2. CASE ~(Holders(targets["discovery"][e], e) \subseteq todo["discovery"])
            BY <4>3, <5>2 DEF DiscoveryBind
          <5>3. QED
            BY <5>1, <5>2
        <4>4. QED
          BY <3>1, <4>1, <4>2, <4>3 DEF DiscoveryStep
      <3>2. CASE HygieneStep
        <4>1. CASE HygienePlan
          BY <4>1 DEF HygienePlan, tables
        <4>2. CASE HygieneClear
          BY <4>2 DEF HygieneClear
        <4>3. QED
          BY <3>2, <4>1, <4>2 DEF HygieneStep
      <3>3. CASE WorldStep
        BY <3>3, WorldRow
      <3>4. CASE UNCHANGED vars
        BY <3>4 DEF vars
      <3>5. QED
        BY <1>2, <3>1, <3>2, <3>3, <3>4, NextCases
    <2>3. QED
      BY <2>1, <2>2, RestMeasures
  <1>3. QED
    BY <1>1, <1>2

\* A step that declares a device down is the commit of a sweep that counted
\* up to the threshold.
LEMMA DownStep ==
  ASSUME TypeOK, SweepsAreCurrent, Measured, [Next]_vars,
         NEW d \in Devices, row[d].status # "down", row'[d].status = "down"
  PROVE  silent[d] >= Threshold
  <1> USE ProcsFacts
  <1>1. row'[d].status # row[d].status
    OBVIOUS
  <1>2. \A old, loaded : Written("unknown", loaded, old) \in {"unknown", old}
    BY DEF Written
  <1>3. ASSUME NEW s \in Sweeps, SweepStep(s) \/ SweepAbort(s)
        PROVE  silent[d] >= Threshold
    <2>1. SweepCommit(s)
      BY <1>1, <1>3 DEF SweepStep, SweepRead, SweepPing, SweepLoad, SweepClash,
                        SweepAbort, tables
    <2>2. d \in Batch(s)
      BY <1>1, <2>1, CommitRow
    <2>3. SweepIsCurrent(s)
      BY DEF SweepsAreCurrent
    <2>4. orm[s][d].status = row[d].status
      BY <2>1, <2>2, <2>3, CommitIsMeasured
    <2>5. NewStatus(s, d) = "down"
      BY <2>1, <2>2, <2>4, CommitRow DEF Written
    <2>6. Down(s, d)
      BY <2>4, <2>5 DEF NewStatus
    <2>7. NewCounter(s, d) <= silent[d] /\ NewCounter(s, d) >= Threshold
      BY <2>1, <2>2, <2>3, <2>6, CommitIsMeasured DEF Down
    <2>8. NewCounter(s, d) \in Int /\ silent[d] \in Int
      <3>1. NewCounter(s, d) \in Counts
        BY OutcomeType
      <3>2. silent[d] \in 0..Threshold
        BY DEF TypeOK
      <3>3. QED
        BY <3>1, <3>2, CountsFacts DEF Counts, NoRow
    <2>9. QED
      BY <2>7, <2>8, CountsFacts
  <1>4. CASE DiscoveryStep
    <2>1. ASSUME NEW e \in Devices, NEW ip \in Ips, DiscoveryPoll(e, ip)
          PROVE  FALSE
      BY <1>1, <2>1 DEF DiscoveryPoll, tables
    <2>2. ASSUME NEW e \in Devices, DiscoveryRelease(e)
          PROVE  FALSE
      BY <1>1, <2>2 DEF DiscoveryRelease, tables
    <2>3. ASSUME NEW e \in Devices, DiscoveryBind(e)
          PROVE  FALSE
      <3>1. "discovery" \in Keepers
        BY <1>4 DEF DiscoveryStep
      <3>2. \/ row'[d].status = row[d].status
            \/ row'[d].status =
                  Written("unknown", orm["discovery"][d].status, row[d].status)
        BY <2>3, <3>1, BindRow
      <3>3. QED
        BY <1>1, <1>2, <3>2
    <2>4. QED
      BY <1>4, <2>1, <2>2, <2>3 DEF DiscoveryStep
  <1>5. CASE HygieneStep
    <2>1. CASE HygienePlan
      BY <1>1, <2>1 DEF HygienePlan, tables
    <2>2. CASE HygieneClear
      <3>1. \/ row'[d].status = row[d].status
            \/ row'[d].status = Written("unknown", orm["hygiene"][d].status, row[d].status)
        BY <2>2, ClearRow
      <3>2. QED
        BY <1>1, <1>2, <3>1
    <2>3. QED
      BY <1>5, <2>1, <2>2 DEF HygieneStep
  <1>6. CASE WorldStep
    BY <1>1, <1>6, WorldRow
  <1>7. CASE UNCHANGED vars
    BY <1>1, <1>7 DEF vars
  <1>8. QED
    BY <1>3, <1>4, <1>5, <1>6, <1>7, NextCases

\* Whatever overlaps, moves or changes kind: in an execution where nobody writes
\* or pings a device that a sweep has in hand, and no sweep dies between its
\* pings and its last commit, a device is declared down only after
\* ping_down_threshold consecutive sweeps that pinged it in vain.
THEOREM DownIsMeasured ==
  Spec /\ [][SweepsUndisturbed /\ SweepsSurvive]_vars => DownWasMeasured
  <1> DEFINE Inv == TypeOK /\ SweepsAreCurrent /\ Measured
             Hyp == SweepsUndisturbed /\ SweepsSurvive
             Step == \A d \in Devices :
                        row[d].status # "down" /\ row'[d].status = "down" => silent[d] >= Threshold
  <1>1. Init => Inv
    <2>1. Init => SweepsAreCurrent
      BY ProcsFacts DEF Init, SweepsAreCurrent, SweepIsCurrent
    <2>2. Init => Measured
      <3>1. NoRow <= 0
        BY DEF NoRow
      <3>2. QED
        BY <3>1, ProcsFacts DEF Init, Measured
    <2>3. QED
      BY <2>1, <2>2, TypeInit
  <1>2. Inv /\ Hyp /\ [Next]_vars => Inv'
    BY SweepsNext, MeasuredNext, TypeNext
  <1>3. Inv /\ UNCHANGED vars => Inv'
    <2>1. TypeOK /\ UNCHANGED vars => TypeOK'
      BY TypeNext
    <2>2. SweepsAreCurrent /\ UNCHANGED vars => SweepsAreCurrent'
      BY DEF SweepsAreCurrent, SweepIsCurrent, vars
    <2>3. Measured /\ UNCHANGED vars => Measured'
      BY DEF Measured, vars
    <2>4. QED
      BY <2>1, <2>2, <2>3
  <1>4. Inv /\ [Next]_vars => Step
    BY DownStep
  <1>5. Spec /\ [][Hyp]_vars => [][Step]_vars
    <2> HIDE DEF Inv, Step, Hyp
    <2>1. QED
      BY <1>1, <1>2, <1>3, <1>4, PTL DEF Spec
  <1>6. QED
    BY <1>5 DEF DownWasMeasured
=============================================================================
