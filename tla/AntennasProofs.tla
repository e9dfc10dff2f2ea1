--------------------------- MODULE AntennasProofs ---------------------------
(***************************************************************************)
(* What TLAPS proves about Antennas, for every set of antennas, sites and  *)
(* clients, every row they start with and every replacement asked for.     *)
(***************************************************************************)
EXTENDS Antennas, TLAPS

\* The constants mean what their comments say; replace_antenna refuses to
\* replace an antenna by itself.
Sane ==
    /\ None \notin Macs /\ None \notin Sites /\ None \notin Row /\ None # "absent"
    /\ "absent" \notin Sites
    /\ Owner \in [Sites -> Clients]
    /\ \A m \in Macs : Rows[m] \subseteq Row \union {None}
    /\ \A r \in Replacements :
          r.client \in Clients /\ r.old \in Macs /\ r.new \in Macs /\ r.old # r.new
    /\ MaxMoves \in Nat

-----------------------------------------------------------------------------
(* The invariant: what a call under way has decided on.                    *)
Places == Sites \union {None, "absent"}

Calls ==
    [op : {"replace", "delete", "assign"}, client : Clients \union {None},
     old : Macs \union {None}, new : Macs \union {None}, site : Sites \union {None},
     force : BOOLEAN, step : {"attach", "await", "associate", "remove", "commit"},
     from : Places, lost : SUBSET Macs, inUisp : BOOLEAN, inBase : BOOLEAN]

\* What the caller asked for: it does not change.
Asked ==
    /\ call.op # "delete" => call.new \in Macs /\ call.site \in SitesOf(call.client)
    /\ call.op = "replace" => call.old # call.new
    /\ call.op = "delete" => call.step \in {"remove", "commit"}

\* Where UISP has the new antenna: only a call moves an antenna that UISP
\* knows, so it stays where the call found it or put it.
Reached ==
    /\ call.step = "associate" => InUisp(call.new) /\ call.from = uisp[call.new]
    /\ call.op = "replace" /\ call.step \in {"remove", "commit"} => uisp[call.new] = call.site

Serving == call # None => call \in Calls /\ Asked /\ Reached

\* The shape of the state, and the call.
Shape == TypeOK /\ Serving

\* The row that a call is about to delete is not blocked.
Spared == call # None /\ call.inBase /\ rows[call.old] # None => ~rows[call.old].blocked

-----------------------------------------------------------------------------
(* The beginning of a call.                                                *)
LEMMA CalledType ==
  ASSUME NEW op \in {"replace", "delete", "assign"}, NEW client \in Clients \union {None},
         NEW old \in Macs \union {None}, NEW new \in Macs \union {None},
         NEW site \in Sites \union {None}, NEW force \in BOOLEAN,
         NEW step \in {"attach", "await", "associate", "remove", "commit"}
  PROVE  Called(op, client, old, new, site, force, step) \in Calls
  BY DEF Called, Calls, Places

\* Owners of sites are clients.
LEMMA SiteOwners ==
  ASSUME Sane
  PROVE  \A s \in Sites : Owner[s] \in Clients /\ s \in SitesOf(Owner[s])
  BY DEF Sane, SitesOf

\* A call that begins is one, whatever it asks for.
LEMMA BeginServes ==
  ASSUME Sane, Shape, Replace \/ Delete \/ Assign
  PROVE  Serving'
  <1>1. uisp' = uisp
    BY DEF Replace, Replaces, Delete, Assign
  <1>2. CASE Replace
    <2>0. PICK r \in Replacements : \E site \in TargetSites(r) :
              call' = Called("replace", r.client, r.old, r.new, site, FALSE,
                             IF Gone(r.old) THEN "attach" ELSE FirstStep)
      BY <1>2 DEF Replace, Replaces
    <2>1. PICK site \in TargetSites(r) :
              call' = Called("replace", r.client, r.old, r.new, site, FALSE,
                             IF Gone(r.old) THEN "attach" ELSE FirstStep)
      BY <2>0
    <2>2. r.client \in Clients /\ r.old \in Macs /\ r.new \in Macs /\ r.old # r.new
      BY DEF Sane
    <2>3. site \in SitesOf(r.client) /\ site \in Sites
      BY DEF TargetSites, SitesOf
    <2>4. call' = Called("replace", r.client, r.old, r.new, site, FALSE, "attach")
      BY <2>1 DEF FirstStep
    <2>5. call' \in Calls
      BY <2>2, <2>3, <2>4, CalledType
    <2>6. /\ call'.op = "replace" /\ call'.client = r.client /\ call'.old = r.old
          /\ call'.new = r.new /\ call'.site = site /\ call'.step = "attach"
      BY <2>4 DEF Called
    <2>7. QED
      BY <2>2, <2>3, <2>5, <2>6 DEF Serving, Asked, Reached, SitesOf
  <1>3. CASE Delete
    <2>1. PICK m \in Macs : call' = Called("delete", None, m, None, None, FALSE, "remove")
      BY <1>3 DEF Delete
    <2>2. call' \in Calls
      BY <2>1, CalledType
    <2>3. call'.op = "delete" /\ call'.step = "remove"
      BY <2>1 DEF Called
    <2>4. QED
      BY <2>2, <2>3 DEF Serving, Asked, Reached
  <1>4. CASE Assign
    <2>1. PICK m \in Macs, site \in Sites, force \in BOOLEAN :
              call' = Called("assign", Owner[site], None, m, site, force, "attach")
      BY <1>4 DEF Assign
    <2>2. Owner[site] \in Clients /\ site \in SitesOf(Owner[site])
      BY SiteOwners
    <2>3. call' \in Calls
      BY <2>1, <2>2, CalledType
    <2>4. /\ call'.op = "assign" /\ call'.client = Owner[site] /\ call'.new = m
          /\ call'.site = site /\ call'.step = "attach"
      BY <2>1 DEF Called
    <2>5. QED
      BY <2>2, <2>3, <2>4 DEF Serving, Asked, Reached, SitesOf
  <1>5. QED
    BY <1>2, <1>3, <1>4

-----------------------------------------------------------------------------
(* The steps of a call.                                                    *)
\* A step changes the place the call has reached, and what it has found.
LEMMA StepServes ==
  ASSUME Shape, call # None, NEW c \in Calls, call' = c,
         c.op = call.op, c.client = call.client, c.old = call.old, c.new = call.new,
         c.site = call.site, c.op = "delete" => c.step \in {"remove", "commit"},
         c.step = "associate" => uisp'[c.new] # "absent" /\ c.from = uisp'[c.new],
         c.op = "replace" /\ c.step \in {"remove", "commit"} => uisp'[c.new] = c.site
  PROVE  Serving'
  BY DEF Shape, Serving, Asked, Reached, SitesOf, InUisp

\* The search for the new antenna, and the key it is given.
LEMMA SearchServes ==
  ASSUME Sane, Shape, Found \/ InjectKey
  PROVE  Serving'
  <1>1. call # None /\ call \in Calls /\ Asked /\ uisp' = uisp
    BY DEF Found, InjectKey, Shape, Serving
  <1>2. call.op # "delete" /\ call.new \in Macs
    BY <1>1 DEF Found, InjectKey, Asked, Calls
  <1>3. CASE Found
    <2> DEFINE c == [call EXCEPT !.step = "associate", !.from = uisp[call.new]]
    <2>1. uisp[call.new] \in Places
      BY <1>2 DEF Shape, TypeOK, Places
    <2>2. c \in Calls
      BY <1>1, <2>1 DEF Calls
    <2>3. /\ c.op = call.op /\ c.client = call.client /\ c.old = call.old
          /\ c.new = call.new /\ c.site = call.site /\ c.step = "associate"
          /\ c.from = uisp[call.new]
      BY <1>1 DEF Calls
    <2>4. call' = c /\ InUisp(call.new)
      BY <1>3 DEF Found
    <2> HIDE DEF c
    <2>5. QED
      BY <1>1, <1>2, <2>2, <2>3, <2>4, StepServes DEF InUisp
  <1>4. CASE InjectKey
    <2> DEFINE c == [call EXCEPT !.step = "await"]
    <2>1. c \in Calls
      BY <1>1 DEF Calls
    <2>2. /\ c.op = call.op /\ c.client = call.client /\ c.old = call.old
          /\ c.new = call.new /\ c.site = call.site /\ c.step = "await"
      BY <1>1 DEF Calls
    <2>3. call' = c
      BY <1>4 DEF InjectKey
    <2> HIDE DEF c
    <2>4. QED
      BY <1>1, <1>2, <2>1, <2>2, <2>3, StepServes
  <1>5. QED
    BY <1>3, <1>4

\* The new antenna is attached.
LEMMA AttachServes ==
  ASSUME Sane, Shape, AlreadyThere \/ Associate
  PROVE  Serving'
  <1>1. /\ call # None /\ call \in Calls /\ Asked /\ Reached
        /\ call.step = "associate"
    BY DEF AlreadyThere, Associate, Shape, Serving
  <1>2. /\ call.op # "delete" /\ call.new \in Macs /\ call.site \in Sites
        /\ InUisp(call.new) /\ call.from = uisp[call.new]
    BY <1>1 DEF Asked, Reached, SitesOf
  <1>3. uisp'[call.new] = call.site \/ call' = None
    <2>1. CASE AlreadyThere
      BY <1>2, <2>1 DEF AlreadyThere
    <2>2. CASE Associate
      BY <1>2, <2>2 DEF Associate, Ends, Shape, TypeOK
    <2>3. QED
      BY <2>1, <2>2
  <1>4. call' = None \/ call' = Attached
    BY DEF AlreadyThere, Associate, Ends
  <1>5. CASE call' = None
    BY <1>5 DEF Serving
  <1>6. CASE call' # None
    <2> DEFINE step == IF call.op = "assign" THEN "commit" ELSE "remove"
               c == [[call EXCEPT !.step = step] EXCEPT !.lost = call.lost \ {call.new}]
    <2>1. call' = c
      BY <1>1, <1>4, <1>6 DEF Attached, Calls
    <2>2. c \in Calls
      BY <1>1 DEF Calls
    <2>3. /\ c.op = call.op /\ c.client = call.client /\ c.old = call.old
          /\ c.new = call.new /\ c.site = call.site /\ c.step = step
      BY <1>1 DEF Calls
    <2>4. step \in {"remove", "commit"}
      OBVIOUS
    <2> HIDE DEF c, step
    <2>5. QED
      BY <1>1, <1>3, <1>6, <2>1, <2>2, <2>3, <2>4, StepServes
  <1>7. QED
    BY <1>5, <1>6

\* The old antenna is taken out of UISP: it is not the new one.
LEMMA RemoveServes ==
  ASSUME Sane, Shape, RemoveFromUisp
  PROVE  /\ Serving'
         /\ call.op = "replace" =>
                call.new \in Macs /\ uisp'[call.new] \in SitesOf(call.client)
  <1>1. /\ call # None /\ call \in Calls /\ Asked /\ Reached
        /\ call.step = "remove"
    BY DEF RemoveFromUisp, Shape, Serving
  <1>2. call.op = "replace" =>
            /\ call.new \in Macs /\ call.new # call.old
            /\ uisp[call.new] = call.site /\ call.site \in SitesOf(call.client)
    BY <1>1 DEF Asked, Reached
  <1>3. call.op = "replace" => uisp'[call.new] = call.site
    BY <1>2 DEF RemoveFromUisp, Shape, TypeOK
  <1>4. call' = None \/ call' = [call EXCEPT !.step = "commit"]
    BY DEF RemoveFromUisp, Ends
  <1>5. CASE call' = None
    BY <1>2, <1>3, <1>5 DEF Serving
  <1>6. CASE call' # None
    <2> DEFINE c == [call EXCEPT !.step = "commit"]
    <2>1. call' = c
      BY <1>4, <1>6
    <2>2. c \in Calls
      BY <1>1 DEF Calls
    <2>3. /\ c.op = call.op /\ c.client = call.client /\ c.old = call.old
          /\ c.new = call.new /\ c.site = call.site /\ c.step = "commit"
      BY <1>1 DEF Calls
    <2> HIDE DEF c
    <2>4. Serving'
      BY <1>1, <1>3, <2>1, <2>2, <2>3, StepServes
    <2>5. QED
      BY <1>2, <1>3, <2>4
  <1>7. QED
    BY <1>5, <1>6

\* The import notes which of the rows a call has read are gone.
LEMMA SyncServes ==
  ASSUME Sane, Shape, SyncEnd
  PROVE  Serving'
  <1>1. CASE call = None
    BY <1>1 DEF SyncEnd, Imports, Serving
  <1>2. CASE call # None
    <2>0. PICK sites \in BOOLEAN : Imports(sites)
      BY DEF SyncEnd
    <2> DEFINE gone == {m \in Macs : rows[m] # None /\ RowAfterSync(m, sites) = None}
               c == [call EXCEPT !.lost = @ \union gone]
    <2>1. call' = c /\ uisp' = uisp
      BY <1>2, <2>0 DEF Imports
    <2>2. call \in Calls /\ Asked /\ Reached
      BY <1>2 DEF Shape, Serving
    <2> HIDE DEF gone
    <2>3. gone \subseteq Macs
      BY DEF gone
    <2>4. c \in Calls
      BY <2>2, <2>3 DEF Calls
    <2>5. /\ c.op = call.op /\ c.client = call.client /\ c.old = call.old
          /\ c.new = call.new /\ c.site = call.site /\ c.step = call.step
          /\ c.from = call.from
      BY <2>2 DEF Calls
    <2> HIDE DEF c
    <2>6. QED
      BY <1>2, <2>1, <2>2, <2>4, <2>5, StepServes DEF Asked, Reached, InUisp
  <1>3. QED
    BY <1>1, <1>2

\* One case per action of Next.
LEMMA ServingNext == Sane /\ Shape /\ [Next]_vars => Serving'
  <1> SUFFICES ASSUME Sane, Shape, [Next]_vars PROVE Serving'
    OBVIOUS
  <1>1. CASE Replace \/ Delete \/ Assign
    BY <1>1, BeginServes
  <1>2. CASE Found \/ InjectKey
    BY <1>2, SearchServes
  <1>3. CASE AlreadyThere \/ Associate
    BY <1>3, AttachServes
  <1>4. CASE RemoveFromUisp
    BY <1>4, RemoveServes
  <1>5. CASE NotReached \/ NotAssociated \/ NotRemoved \/ RowLost \/ Commit
    BY <1>5 DEF NotReached, NotAssociated, NotRemoved, RowLost, Commit, Ends, Serving
  <1>6. CASE SyncEnd
    BY <1>6, SyncServes
  <1>7. CASE Register
    <2>1. PICK m \in Macs : uisp[m] = "absent" /\ uisp' = [uisp EXCEPT ![m] = None]
      BY <1>7 DEF Register, Shape, TypeOK, InUisp
    <2>2. call' = call
      BY <1>7 DEF Register
    <2>3. ASSUME call # None, Asked, Reached
          PROVE  Reached'
      <3>1. CASE call.step = "associate"
        BY <2>1, <2>2, <2>3, <3>1 DEF Reached, InUisp, Shape, TypeOK
      <3>2. CASE call.op = "replace" /\ call.step \in {"remove", "commit"}
        <4>1. uisp[call.new] # "absent"
          BY <2>3, <3>2 DEF Asked, Reached, SitesOf, Sane
        <4>2. QED
          BY <2>1, <2>2, <2>3, <3>2, <4>1 DEF Reached, Shape, TypeOK
      <3>3. QED
        BY <2>2, <3>1, <3>2 DEF Reached
    <2>4. QED
      BY <2>2, <2>3 DEF Shape, Serving, Asked, SitesOf
  <1>8. CASE SyncStart \/ Discover \/ Power \/ Block \/ Unblock \/ Enforce \/ UNCHANGED vars
    <2>1. call' = call /\ uisp' = uisp
      BY <1>8 DEF SyncStart, Discover, Power, Block, Unblock, Enforce, vars
    <2>2. QED
      BY <2>1 DEF Shape, Serving, Asked, Reached, SitesOf, InUisp
  <1>9. QED
    BY <1>1, <1>2, <1>3, <1>4, <1>5, <1>6, <1>7, <1>8 DEF Next

-----------------------------------------------------------------------------
(* Type correctness.                                                       *)
LEMMA RowTypes ==
  ASSUME Sane
  PROVE  /\ Discovered \in Row
         /\ \A row \in Row, s \in Places, sites \in BOOLEAN : Synced(row, s, sites) \in Row
  <1>1. Discovered \in Row
    BY DEF Discovered, Row
  <1>2. \A s \in Places : (IF s \in Sites THEN Owner[s] ELSE None) \in Clients \union {None}
    BY SiteOwners
  <1>3. ASSUME NEW row \in Row, NEW s \in Places, NEW sites \in BOOLEAN
        PROVE  Synced(row, s, sites) \in Row
    <2> DEFINE owner == IF ~sites THEN row.client ELSE IF s \in Sites THEN Owner[s] ELSE None
    <2>1. owner \in Clients \union {None}
      BY <1>2 DEF Row
    <2>2. Synced(row, s, sites) = [row EXCEPT !.synced = TRUE, !.client = owner]
      BY DEF Synced
    <2> HIDE DEF owner
    <2>3. QED
      BY <2>1, <2>2 DEF Row
  <1>4. QED
    BY <1>1, <1>3

\* The row of an antenna after an import, whatever the roster it has read.
LEMMA SyncedType ==
  ASSUME Sane, TypeOK, roster # None, NEW m \in Macs, NEW sites \in BOOLEAN
  PROVE  RowAfterSync(m, sites) \in Row \union {None}
  <1>1. rows[m] \in Row \union {None} /\ roster[m] \in Places
    BY DEF TypeOK, Places
  <1>2. QED
    BY <1>1, RowTypes DEF RowAfterSync

\* The row of an antenna after a call.
LEMMA WrittenType ==
  ASSUME Shape, call # None, NEW m \in Macs
  PROVE  RowsAfterCall[m] \in Row \union {None}
  <1>1. call.client \in Clients \union {None}
    BY DEF Shape, Serving, Calls
  <1>2. rows[m] \in Row \union {None}
    BY DEF Shape, TypeOK
  <1>3. rows[m] # None => Written(rows[m]) \in Row
    BY <1>1, <1>2 DEF Written, Row
  <1>4. QED
    BY <1>2, <1>3 DEF RowsAfterCall

\* What UISP knows after any step.
LEMMA UispType ==
  ASSUME Sane, Shape, [Next]_vars
  PROVE  uisp' \in [Macs -> Places]
  <1>1. uisp \in [Macs -> Places]
    BY DEF Shape, TypeOK, Places
  <1>2. CASE Associate
    <2>1. call.site \in Places
      BY <1>2 DEF Associate, Shape, Serving, Calls, Places
    <2>2. QED
      BY <1>1, <1>2, <2>1 DEF Associate
  <1>3. CASE RemoveFromUisp
    BY <1>1, <1>3 DEF RemoveFromUisp, Places
  <1>4. CASE Register
    BY <1>1, <1>4 DEF Register, Places
  <1>5. CASE uisp' = uisp
    BY <1>1, <1>5
  <1>6. QED
    BY <1>2, <1>3, <1>4, <1>5
    DEF Next, Replace, Replaces, Delete, Assign, Found, InjectKey, NotReached, AlreadyThere,
        NotAssociated, NotRemoved, RowLost, Commit, SyncStart, SyncEnd, Imports, Discover,
        Power, Block, Unblock, Enforce, vars

\* The rows after any step.
LEMMA RowsType ==
  ASSUME Sane, Shape, [Next]_vars
  PROVE  rows' \in [Macs -> Row \union {None}]
  <1>1. rows \in [Macs -> Row \union {None}]
    BY DEF Shape, TypeOK
  <1>2. CASE Commit
    BY <1>2, WrittenType DEF Commit, RowsAfterCall
  <1>3. CASE SyncEnd
    BY <1>3, SyncedType DEF SyncEnd, Imports, Shape
  <1>4. CASE Discover
    BY <1>1, <1>4, RowTypes DEF Discover
  <1>5. ASSUME NEW m \in Macs, rows[m] # None, NEW b \in BOOLEAN, NEW p \in BOOLEAN,
               NEW r \in BOOLEAN,
               rows' = [rows EXCEPT ![m] = [[[rows[m] EXCEPT !.blocked = b] EXCEPT !.pending = p]
                                            EXCEPT !.recorded = r]]
        PROVE  rows' \in [Macs -> Row \union {None}]
    <2>1. rows[m] \in Row
      BY <1>1, <1>5
    <2>2. [[[rows[m] EXCEPT !.blocked = b] EXCEPT !.pending = p] EXCEPT !.recorded = r] \in Row
      BY <2>1 DEF Row
    <2>3. QED
      BY <1>1, <1>5, <2>2
  <1>6. ASSUME NEW m \in Macs, rows[m] # None
        PROVE  /\ rows[m].blocked \in BOOLEAN /\ rows[m].recorded \in BOOLEAN
               /\ rows[m] \in Row
    BY <1>1, <1>6 DEF Row
  <1>7. CASE Block
    <2>1. PICK m \in Macs, fallback \in BOOLEAN :
            /\ rows[m] # None
            /\ rows' = [rows EXCEPT ![m].blocked = TRUE, ![m].pending = FALSE,
                                    ![m].recorded = @ \/ fallback]
      BY <1>7 DEF Block
    <2>2. rows' = [rows EXCEPT ![m] = [[[rows[m] EXCEPT !.blocked = TRUE] EXCEPT !.pending = FALSE]
                                            EXCEPT !.recorded = rows[m].recorded \/ fallback]]
      BY <1>1, <1>6, <2>1 DEF Row
    <2>3. (rows[m].recorded \/ fallback) \in BOOLEAN
      BY <1>6, <2>1
    <2>4. QED
      BY <1>5, <2>1, <2>2, <2>3
  <1>8. CASE Unblock
    <2>1. PICK m \in Macs, lifted \in BOOLEAN :
            /\ rows[m] # None
            /\ rows' = [rows EXCEPT ![m].blocked = FALSE, ![m].pending = ~lifted,
                                    ![m].recorded = @ /\ ~lifted]
      BY <1>8 DEF Unblock
    <2>2. rows' = [rows EXCEPT ![m] = [[[rows[m] EXCEPT !.blocked = FALSE] EXCEPT !.pending = ~lifted]
                                            EXCEPT !.recorded = rows[m].recorded /\ ~lifted]]
      BY <1>1, <1>6, <2>1 DEF Row
    <2>3. (rows[m].recorded /\ ~lifted) \in BOOLEAN /\ (~lifted) \in BOOLEAN
      BY <1>6, <2>1
    <2>4. QED
      BY <1>5, <2>1, <2>2, <2>3
  <1>9. CASE Enforce
    <2>1. PICK m \in Macs :
            /\ rows[m] # None
            /\ rows' = [rows EXCEPT ![m].pending = FALSE, ![m].recorded = FALSE]
      BY <1>9 DEF Enforce
    <2>2. rows' = [rows EXCEPT ![m] = [[[rows[m] EXCEPT !.blocked = rows[m].blocked]
                                          EXCEPT !.pending = FALSE] EXCEPT !.recorded = FALSE]]
      BY <1>1, <1>6, <2>1 DEF Row
    <2>3. QED
      BY <1>5, <1>6, <2>1, <2>2
  <1>10. CASE rows' = rows
    BY <1>1, <1>10
  <1>11. QED
    BY <1>2, <1>3, <1>4, <1>7, <1>8, <1>9, <1>10
    DEF Next, Replace, Replaces, Delete, Assign, Found, InjectKey, NotReached, AlreadyThere, Associate,
        RemoveFromUisp, NotAssociated, NotRemoved, RowLost, SyncStart, Register, Power, vars

\* The other variables after any step.
LEMMA TypeNext == Sane /\ Shape /\ [Next]_vars => TypeOK'
  <1> SUFFICES ASSUME Sane, Shape, [Next]_vars PROVE TypeOK'
    OBVIOUS
  <1>1. uisp' \in [Macs -> Places] /\ rows' \in [Macs -> Row \union {None}]
    BY UispType, RowsType
  <1>2. rules' \subseteq Macs /\ on' \subseteq Macs
    BY DEF Shape, TypeOK, outside, Next, Replace, Replaces, Delete, Assign, Found, InjectKey, NotReached,
           AlreadyThere, Associate, NotAssociated, RemoveFromUisp, NotRemoved, RowLost, Commit,
           SyncStart, SyncEnd, Imports, Register, Discover, Power, Block, Unblock, Enforce, vars
  <1>3. keyed' \subseteq Macs
    <2>1. CASE InjectKey
      <3>1. call.new \in Macs
        BY <2>1 DEF InjectKey, Shape, Serving, Asked
      <3>2. QED
        BY <2>1, <3>1 DEF InjectKey, Shape, TypeOK
    <2>2. CASE keyed' = keyed
      BY <2>2 DEF Shape, TypeOK
    <2>3. QED
      BY <2>1, <2>2
      DEF outside, Next, Replace, Replaces, Delete, Assign, Found, NotReached, AlreadyThere, Associate,
          NotAssociated, RemoveFromUisp, NotRemoved, RowLost, Commit, SyncStart, SyncEnd,
          Imports, Register, Discover, Power, Block, Unblock, Enforce, vars
  <1>4. roster' \in [Macs -> Places] \union {None}
    <2>1. roster' \in {roster, uisp, None}
      BY DEF outside, Next, Replace, Replaces, Delete, Assign, Found, InjectKey, NotReached, AlreadyThere,
             Associate, NotAssociated, RemoveFromUisp, NotRemoved, RowLost, Commit, SyncStart,
             SyncEnd, Imports, Register, Discover, Power, Block, Unblock, Enforce, vars
    <2>2. QED
      BY <2>1 DEF Shape, TypeOK, Places
  <1>5. moves' \in 0..MaxMoves
    <2>1. Happens \/ moves' = moves
      BY DEF outside, Next, Replace, Replaces, Delete, Assign, Found, InjectKey, NotReached, AlreadyThere,
             Associate, NotAssociated, RemoveFromUisp, NotRemoved, RowLost, Commit, SyncStart,
             SyncEnd, Imports, Register, Discover, Power, Block, Unblock, Enforce, vars
    <2>2. QED
      BY <2>1 DEF Shape, TypeOK, Happens, Sane
  <1>6. QED
    BY <1>1, <1>2, <1>3, <1>4, <1>5 DEF TypeOK, Places

\* At first no call is under way.
LEMMA ShapeInit == Sane /\ Init => Shape
  <1> SUFFICES ASSUME Sane, Init PROVE Shape
    OBVIOUS
  <1>1. rows \in [Macs -> Row \union {None}]
    BY DEF Init, Sane
  <1>2. moves \in 0..MaxMoves
    BY DEF Init, Sane
  <1>3. QED
    BY <1>1, <1>2 DEF Init, Shape, TypeOK, Serving

\* The shape of the state, and the call being served, in every state.
LEMMA ShapeAlways == ASSUME Sane PROVE Spec => []Shape
  <1>1. Init => Shape
    BY ShapeInit
  <1>2. Shape /\ [Next]_vars => Shape'
    BY ServingNext, TypeNext DEF Shape
  <1>3. QED
    BY <1>1, <1>2, PTL DEF Spec

\* Tables, lists and counters keep their shape, whatever overlaps.
THEOREM TypeCorrect == ASSUME Sane PROVE Spec => []TypeOK
  <1>1. Shape => TypeOK
    BY DEF Shape
  <1>2. QED
    BY <1>1, ShapeAlways, PTL

-----------------------------------------------------------------------------
(* What replacements and calls promise.                                    *)
\* A replacement that takes the old antenna out of UISP, heard or not, leaves
\* its client another one: whatever the import, the links or the operators do
\* between its steps, and however often its calls fail.
THEOREM ServiceIsKept == ASSUME Sane PROVE Spec => ServiceKept
  <1> DEFINE Kept == call # None /\ call.op = "replace" /\ RemoveFromUisp
                        => \E m \in Macs : uisp'[m] \in SitesOf(call.client)
  <1>1. Shape => [Kept]_vars
    BY RemoveServes
  <1> HIDE DEF Kept
  <1>2. Spec => [][Kept]_vars
    BY <1>1, ShapeAlways, PTL
  <1>3. QED
    BY <1>2 DEF ServiceKept, Kept

\* The row that a call will delete was there when it began, and not blocked.
Safe == call # None /\ call.inBase => call.old \in Macs /\ Spared

\* A step of the call, or the end of it, that leaves the rows alone.
LEMMA StepSafe ==
  ASSUME Safe, rows' = rows,
         call' # None => /\ call # None /\ call'.inBase = call.inBase
                         /\ call'.old = call.old
  PROVE  Safe'
  BY DEF Safe, Spared

\* A call begins with an old antenna that is not blocked, or has no row.
LEMMA BeginSafe ==
  ASSUME Sane, Shape, Replace \/ Delete \/ Assign
  PROVE  Safe'
  <1>1. CASE Replace
    <2>0. PICK r \in Replacements :
            /\ MayReplace(r) /\ rows' = rows
            /\ \E site \in TargetSites(r) :
                 call' = Called("replace", r.client, r.old, r.new, site, FALSE,
                                IF Gone(r.old) THEN "attach" ELSE FirstStep)
      BY <1>1 DEF Replace, Replaces
    <2>1. call'.old = r.old /\ call'.inBase = (r.old # None /\ rows[r.old] # None)
      BY <2>0 DEF Called
    <2>2. rows[r.old] # None => ~rows[r.old].blocked
      BY <2>0 DEF MayReplace, Gone, NotBlocked
    <2>3. r.old \in Macs
      BY DEF Sane
    <2>4. QED
      BY <2>0, <2>1, <2>2, <2>3 DEF Safe, Spared
  <1>2. CASE Delete
    <2>0. PICK m \in Macs :
            /\ NotBlocked(m) /\ rows' = rows
            /\ call' = Called("delete", None, m, None, None, FALSE, "remove")
      BY <1>2 DEF Delete
    <2>1. call'.old = m
      BY <2>0 DEF Called
    <2>2. QED
      BY <2>0, <2>1 DEF Safe, Spared, NotBlocked
  <1>3. CASE Assign
    <2>1. PICK m \in Macs, site \in Sites, force \in BOOLEAN :
            call' = Called("assign", Owner[site], None, m, site, force, "attach")
      BY <1>3 DEF Assign
    <2>2. ~call'.inBase
      BY <2>1 DEF Called
    <2>3. QED
      BY <2>2 DEF Safe
  <1>4. QED
    BY <1>1, <1>2, <1>3

\* The steps of a call.
LEMMA CallSafe ==
  ASSUME Sane, Shape, Safe,
         \/ Found \/ InjectKey \/ NotReached \/ AlreadyThere \/ Associate \/ NotAssociated
         \/ RemoveFromUisp \/ NotRemoved \/ RowLost \/ Commit
  PROVE  Safe'
  <1>1. CASE call' = None
    BY <1>1 DEF Safe
  <1>2. CASE call' # None
    <2>1. call # None /\ rows' = rows
      BY <1>2 DEF Found, InjectKey, NotReached, AlreadyThere, Associate, NotAssociated,
                  RemoveFromUisp, NotRemoved, RowLost, Commit, Ends, outside
    <2>2. call \in Calls
      BY <2>1 DEF Shape, Serving
    <2>3. call'.inBase = call.inBase /\ call'.old = call.old
      <3>1. CASE Found
        BY <2>2, <3>1 DEF Found, Calls
      <3>2. CASE InjectKey
        BY <2>2, <3>2 DEF InjectKey, Calls
      <3>3. CASE AlreadyThere \/ Associate
        BY <1>2, <2>2, <3>3 DEF AlreadyThere, Associate, Ends, Attached, Calls
      <3>4. CASE RemoveFromUisp
        BY <1>2, <2>2, <3>4 DEF RemoveFromUisp, Ends, Calls
      <3>5. QED
        BY <1>2, <3>1, <3>2, <3>3, <3>4
        DEF NotReached, NotAssociated, NotRemoved, RowLost, Commit, Ends
    <2>4. QED
      BY <2>1, <2>3, StepSafe
  <1>3. QED
    BY <1>1, <1>2

\* The import blocks nobody.
LEMMA SyncSafe ==
  ASSUME Sane, Shape, Safe, SyncEnd
  PROVE  Safe'
  <1>1. CASE call = None
    BY <1>1 DEF SyncEnd, Imports, Safe
  <1>2. CASE call # None
    <2>0. PICK sites \in BOOLEAN : Imports(sites)
      BY DEF SyncEnd
    <2>1. call \in Calls
      BY <1>2 DEF Shape, Serving
    <2>2. call'.inBase = call.inBase /\ call'.old = call.old
      BY <1>2, <2>0, <2>1 DEF Imports, Calls
    <2>3. ASSUME NEW m \in Macs, rows[m] # None => ~rows[m].blocked, rows'[m] # None
          PROVE  ~rows'[m].blocked
      <3>1. rows'[m] = RowAfterSync(m, sites) /\ rows[m] \in Row \union {None}
        BY <2>0 DEF Imports, Shape, TypeOK
      <3>2. CASE roster[m] # "absent"
        <4> DEFINE row == IF rows[m] = None THEN Discovered ELSE rows[m]
        <4>1. row \in Row /\ ~row.blocked
          BY <2>3, <3>1, RowTypes DEF Discovered
        <4>2. rows'[m] = Synced(row, roster[m], sites)
          BY <3>1, <3>2 DEF RowAfterSync
        <4> HIDE DEF row
        <4>3. QED
          BY <4>1, <4>2 DEF Synced, Row
      <3>3. CASE roster[m] = "absent"
        BY <2>3, <3>1, <3>3 DEF RowAfterSync
      <3>4. QED
        BY <3>2, <3>3
    <2>4. QED
      BY <1>2, <2>2, <2>3 DEF Safe, Spared
  <1>3. QED
    BY <1>1, <1>2

\* No order to block the antenna that a call takes out is given during the call,
\* that is, after the check of its row (_assert_not_blocked).
OrdersWait ==
    call # None /\ call.inBase /\ call' = call =>
        LET before == rows[call.old]
            after == rows'[call.old]
        IN  before # None /\ ~before.blocked /\ after # None => ~after.blocked

\* What goes on beside a call.
LEMMA WorldSafe ==
  ASSUME Sane, Shape, Safe, OrdersWait,
         SyncStart \/ Register \/ Discover \/ Power \/ Block \/ Unblock \/ Enforce
  PROVE  Safe'
  <1>1. call' = call
    BY DEF SyncStart, Register, Discover, Power, Block, Unblock, Enforce
  <1>2. rows \in [Macs -> Row \union {None}]
    BY DEF Shape, TypeOK
  <1>3. CASE Block
    <2>1. ASSUME call # None, call.inBase, rows'[call.old] # None
          PROVE  ~rows'[call.old].blocked
      <3>1. rows[call.old] # None
        BY <1>2, <1>3, <2>1 DEF Block, Safe
      <3>2. QED
        BY <1>1, <2>1, <3>1 DEF OrdersWait, Safe, Spared
    <2>2. QED
      BY <1>1, <2>1 DEF Safe, Spared
  <1>4. ASSUME \A m \in Macs : rows'[m] = rows[m] \/ ~rows'[m].blocked
        PROVE  Safe'
    BY <1>1, <1>4 DEF Safe, Spared
  <1>5. CASE SyncStart \/ Register \/ Power
    BY <1>4, <1>5 DEF SyncStart, Register, Power
  <1>6. CASE Discover
    <2>1. ~Discovered.blocked
      BY DEF Discovered
    <2>2. QED
      BY <1>2, <1>4, <1>6, <2>1 DEF Discover
  <1>7. CASE Unblock
    <2>1. PICK m \in Macs, lifted \in BOOLEAN :
            /\ rows[m] # None
            /\ rows' = [rows EXCEPT ![m].blocked = FALSE, ![m].pending = ~lifted,
                                    ![m].recorded = @ /\ ~lifted]
      BY <1>7 DEF Unblock
    <2>2. rows[m] \in Row
      BY <1>2, <2>1
    <2>3. rows'[m].blocked = FALSE /\ \A n \in Macs : n # m => rows'[n] = rows[n]
      BY <1>2, <2>1, <2>2 DEF Row
    <2>4. QED
      BY <1>4, <2>3
  <1>8. CASE Enforce
    <2>1. PICK m \in Macs :
            rows[m] # None /\ rows' = [rows EXCEPT ![m].pending = FALSE, ![m].recorded = FALSE]
      BY <1>8 DEF Enforce
    <2>2. rows[m] \in Row
      BY <1>2, <2>1
    <2>3. rows'[m].blocked = rows[m].blocked /\ \A n \in Macs : n # m => rows'[n] = rows[n]
      BY <1>2, <2>1, <2>2 DEF Row
    <2>4. QED
      BY <1>1, <2>1, <2>3 DEF Safe, Spared
  <1>9. QED
    BY <1>3, <1>5, <1>6, <1>7, <1>8

\* One case per kind of step.
LEMMA SafeNext ==
  ASSUME Sane, Shape, Safe, [Next]_vars, [OrdersWait]_vars
  PROVE  Safe'
  <1>1. CASE UNCHANGED vars
    BY <1>1, StepSafe DEF vars
  <1>2. CASE vars' # vars
    <2>1. Next /\ OrdersWait
      BY <1>2
    <2>2. QED
      BY <2>1, BeginSafe, CallSafe, SyncSafe, WorldSafe DEF Next
  <1>3. QED
    BY <1>1, <1>2

\* What becomes of a blocked row.
LEMMA BlockedRowKept ==
  ASSUME Sane, Shape, Safe, [Next]_vars, ~SyncEnd,
         NEW m \in Macs, rows[m] # None, rows[m].blocked
  PROVE  rows'[m] # None
  <1>1. rows \in [Macs -> Row \union {None}] /\ None \notin Row
    BY DEF Shape, TypeOK, Sane
  <1>2. CASE Commit
    <2>1. call # None /\ rows' = RowsAfterCall
      BY <1>2 DEF Commit
    <2>2. ~(m = call.old /\ call.inBase)
      BY <2>1 DEF Safe, Spared
    <2>3. call.client \in Clients \union {None}
      BY <2>1 DEF Shape, Serving, Calls
    <2>4. Written(rows[m]) \in Row
      BY <1>1, <2>3 DEF Written, Row
    <2>5. QED
      BY <1>1, <2>1, <2>2, <2>4 DEF RowsAfterCall
  <1>3. CASE Discover
    BY <1>1, <1>3 DEF Discover
  <1>4. CASE Block \/ Unblock \/ Enforce
    <2>1. rows' \in [Macs -> Row \union {None}]
      BY RowsType
    <2>2. PICK n \in Macs : /\ rows[n] # None
                            /\ \A k \in Macs : k # n => rows'[k] = rows[k]
                            /\ rows'[n] # None
      <3>1. CASE Block
        <4>1. PICK n \in Macs, fallback \in BOOLEAN :
                /\ rows[n] # None
                /\ rows' = [rows EXCEPT ![n].blocked = TRUE, ![n].pending = FALSE,
                                        ![n].recorded = @ \/ fallback]
          BY <3>1 DEF Block
        <4>2. rows[n] \in Row
          BY <1>1, <4>1
        <4>3. rows'[n] \in Row
          BY <1>1, <4>1, <4>2 DEF Row
        <4>4. QED
          BY <1>1, <4>1, <4>3
      <3>2. CASE Unblock
        <4>1. PICK n \in Macs, lifted \in BOOLEAN :
                /\ rows[n] # None
                /\ rows' = [rows EXCEPT ![n].blocked = FALSE, ![n].pending = ~lifted,
                                        ![n].recorded = @ /\ ~lifted]
          BY <3>2 DEF Unblock
        <4>2. rows[n] \in Row
          BY <1>1, <4>1
        <4>3. rows'[n] \in Row
          BY <1>1, <4>1, <4>2 DEF Row
        <4>4. QED
          BY <1>1, <4>1, <4>3
      <3>3. CASE Enforce
        <4>1. PICK n \in Macs :
                /\ rows[n] # None
                /\ rows' = [rows EXCEPT ![n].pending = FALSE, ![n].recorded = FALSE]
          BY <3>3 DEF Enforce
        <4>2. rows[n] \in Row
          BY <1>1, <4>1
        <4>3. rows'[n] \in Row
          BY <1>1, <4>1, <4>2 DEF Row
        <4>4. QED
          BY <1>1, <4>1, <4>3
      <3>4. QED
        BY <1>4, <3>1, <3>2, <3>3
    <2>3. QED
      BY <2>2
  <1>5. CASE rows' = rows
    BY <1>5
  <1>6. QED
    BY <1>2, <1>3, <1>4, <1>5
    DEF Next, Replace, Replaces, Delete, Assign, Found, InjectKey, NotReached, AlreadyThere, Associate,
        RemoveFromUisp, NotAssociated, NotRemoved, RowLost, SyncStart, Register, Power, vars

\* A call never erases an order to block with the row of its antenna, whatever
\* other orders, imports and links come between its steps: the one order it
\* must not meet is one for the antenna it is taking out, after it checked the
\* row and before it deletes it.  Only the import deletes the row of a blocked
\* client, for an antenna that UISP has lost.
THEOREM BlocksOutliveCalls ==
  ASSUME Sane
  PROVE  Spec /\ [][OrdersWait]_vars => NoBlockErased
  <1> DEFINE Outlives == \A m \in Macs : rows[m] # None /\ rows[m].blocked /\ rows'[m] = None
                            => roster # None /\ roster' = None
  <1>1. Init => Safe
    BY DEF Init, Safe
  <1>2. Shape /\ Safe /\ [Next]_vars /\ [OrdersWait]_vars => Safe'
    BY SafeNext
  <1>3. Shape /\ Safe /\ [Next]_vars => [Outlives]_vars
    BY BlockedRowKept DEF SyncEnd, Imports
  <1> HIDE DEF Outlives
  <1>4. Spec /\ [][OrdersWait]_vars => [][Outlives]_vars
    BY <1>1, <1>2, <1>3, ShapeAlways, PTL DEF Spec
  <1>5. QED
    BY <1>4 DEF NoBlockErased, Outlives
=============================================================================
