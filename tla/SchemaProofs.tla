---------------------------- MODULE SchemaProofs ----------------------------
(***************************************************************************)
(* What TLAPS proves about Schema: for whatever revisions the databases    *)
(* are at first, any number of kills and any number of downgrades, from    *)
(* the one fact that the bounds of SchemaBounds are closed, which one pass *)
(* over the files decides.                                                 *)
(***************************************************************************)
EXTENDS SchemaBounds, TLAPS

-----------------------------------------------------------------------------
(* What blurring the concurrent indexes leaves alone.                      *)
LEMMA Blurs ==
  ASSUME NEW f
  PROVE  /\ Blur(f) = f \/ (/\ f[1] = "index" /\ f[3] \in Concurrent
                            /\ Blur(f) = <<"invalid", f[2], f[3]>>)
         /\ Blur(f)[2] = f[2]
         /\ f[1] # "index" => Blur(f) = f
         /\ f[1] = "index" => Blur(f)[3] = f[3]
         /\ f[1] = "index" => Blur(f)[1] \in {"index", "invalid"}
         /\ Blur(Blur(f)) = Blur(f)
         /\ Plain(Blur(f)) => Blur(f) = f
  BY DEF Blur, Plain

LEMMA PlainSeen ==
  ASSUME NEW s, NEW f, Plain(f)
  PROVE  f \in Seen(s) <=> f \in s
  BY Blurs DEF Seen, Plain

\* What lasts is not blurred.
LEMMA LastingIsSeen == ASSUME NEW s PROVE Lasting(Seen(s)) = Lasting(s)
  <1>1. \A f : f \in Lasting(s) => f \in Lasting(Seen(s))
    BY Blurs DEF Lasting, Seen, Blur
  <1>2. ASSUME NEW g \in Lasting(Seen(s)) PROVE g \in Lasting(s)
    <2>1. PICK f \in s : g = Blur(f)
      BY <1>2 DEF Lasting, Seen
    <2>2. g[1] # "invalid"
      BY <1>2 DEF Lasting
    <2>3. g = f
      BY <2>1, <2>2 DEF Blur
    <2>4. QED
      BY <1>2, <2>1, <2>3 DEF Lasting
  <1>3. QED
    BY <1>1, <1>2

-----------------------------------------------------------------------------
(* One statement.                                                          *)
\* What is accepted on both bounds is accepted between them.
LEMMA AcceptedBetween ==
  ASSUME NEW s, NEW b, NEW st, Between(s, b), Clear(b, st)
  PROVE  Accepted(s, st)
  <1>1. CASE st.kind = "add"
    <2>1. st.needs \subseteq b.least /\ st.new \cap b.most = {}
      BY <1>1 DEF Clear, Accepted
    <2>2. \A f \in st.needs \cup st.new : Plain(f)
      BY <1>1 DEF Clear, Tame
    <2>3. st.needs \subseteq s /\ st.new \cap s = {}
      BY <2>1, <2>2, PlainSeen DEF Between
    <2>4. QED
      BY <1>1, <2>3 DEF Accepted
  <1>2. CASE st.kind = "build"
    <2>1. st.needs \subseteq b.least
      BY <1>2 DEF Clear, Accepted
    <2>2. \A f \in st.needs : Plain(f)
      BY <1>2 DEF Clear, Tame
    <2>3. st.needs \subseteq s
      BY <2>1, <2>2, PlainSeen DEF Between
    <2>4. QED
      BY <1>2, <2>3 DEF Accepted
  <1>3. CASE st.kind = "dropTable"
    <2>1. TableFact(st.table) \in b.least /\ Referrers(b.most, st.table) = {}
      BY <1>3 DEF Clear, Accepted
    <2>2. Plain(TableFact(st.table))
      BY DEF Plain, Blur, TableFact
    <2>3. TableFact(st.table) \in s
      BY <2>1, <2>2, PlainSeen DEF Between
    <2>4. ASSUME NEW f \in Referrers(s, st.table) PROVE FALSE
      <3>1. f \in s /\ Blur(f) = f
        BY Blurs DEF Referrers
      <3>2. f \in b.most
        BY <3>1 DEF Between, Seen
      <3>3. QED
        BY <2>1, <3>2 DEF Referrers
    <2>5. QED
      BY <1>3, <2>3, <2>4 DEF Accepted
  <1>4. CASE st.kind = "dropColumns"
    <2>1. Columns(st.table, st.columns) \subseteq b.least
      BY <1>4 DEF Clear, Accepted
    <2>2. \A f \in Columns(st.table, st.columns) : Plain(f)
      BY DEF Columns, ColumnFact, Plain, Blur
    <2>3. Columns(st.table, st.columns) \subseteq s
      BY <2>1, <2>2, PlainSeen DEF Between
    <2>4. QED
      BY <1>4, <2>3 DEF Accepted
  <1>5. CASE st.kind = "drop"
    <2>1. ASSUME NEW g \in Named(b.least, st.table, st.name)
          PROVE  Named(s, st.table, st.name) # {}
      <3>1. PICK f \in s : g = Blur(f)
        BY DEF Named, Between, Seen
      <3>2. f \in Named(s, st.table, st.name)
        BY <3>1, Blurs DEF Named
      <3>3. QED
        BY <3>2
    <2>2. QED
      BY <1>5, <2>1 DEF Clear, Accepted
  <1>6. CASE st.kind = "forget"
    <2>1. ColumnFact(st.fact[2], st.fact[3]) \in b.least
      BY <1>6 DEF Clear, Accepted
    <2>2. Plain(ColumnFact(st.fact[2], st.fact[3]))
      BY DEF Plain, Blur, ColumnFact
    <2>3. ColumnFact(st.fact[2], st.fact[3]) \in s
      BY <2>1, <2>2, PlainSeen DEF Between
    <2>4. QED
      BY <1>6, <2>3 DEF Accepted
  <1>7. CASE st.kind = "renameTable"
    <2>1. TableFact(st.from) \in b.least /\ TableFact(st.to) \notin b.most
      BY <1>7 DEF Clear, Accepted
    <2>2. \A t : Plain(TableFact(t))
      BY DEF Plain, Blur, TableFact
    <2>3. TableFact(st.from) \in s /\ TableFact(st.to) \notin s
      BY <2>1, <2>2, PlainSeen DEF Between
    <2>4. QED
      BY <1>7, <2>3 DEF Accepted
  <1>8. CASE st.kind = "renameColumn"
    <2>1. /\ ColumnFact(st.table, st.from) \in b.least
          /\ ColumnFact(st.table, st.to) \notin b.most
      BY <1>8 DEF Clear, Accepted
    <2>2. \A t, c : Plain(ColumnFact(t, c))
      BY DEF Plain, Blur, ColumnFact
    <2>3. ColumnFact(st.table, st.from) \in s /\ ColumnFact(st.table, st.to) \notin s
      BY <2>1, <2>2, PlainSeen DEF Between
    <2>4. QED
      BY <1>8, <2>3 DEF Accepted
  <1>9. CASE st.kind = "renameIndex"
    <2>1. PICK g \in Named(b.least, st.table, st.from) : TRUE
      BY <1>9 DEF Clear, Accepted
    <2>2. PICK f \in s : g = Blur(f)
      BY <2>1 DEF Named, Between, Seen
    <2>3. f \in Named(s, st.table, st.from)
      BY <2>1, <2>2, Blurs DEF Named
    <2>4. ASSUME NEW h \in Named(s, st.table, st.to) PROVE FALSE
      <3>1. Blur(h) \in Named(b.most, st.table, st.to)
        BY Blurs DEF Named, Between, Seen
      <3>2. QED
        BY <1>9, <3>1 DEF Clear, Accepted
    <2>5. QED
      BY <1>9, <2>3, <2>4 DEF Accepted
  <1>10. CASE st.kind = "dropBody"
    <2>1. ASSUME NEW f \in s, f[1] = "trigger", f[4] = st.function PROVE FALSE
      <3>1. f \in b.most
        BY <2>1, Blurs DEF Between, Seen
      <3>2. QED
        BY <1>10, <2>1, <3>1 DEF Clear, Accepted
    <2>2. QED
      BY <1>10, <2>1 DEF Accepted
  <1>11. CASE st.kind = "require"
    <2>1. ColumnFact(st.fact[2], st.fact[3]) \in b.least
      BY <1>11 DEF Clear, Accepted
    <2>2. Plain(ColumnFact(st.fact[2], st.fact[3]))
      BY DEF Plain, Blur, ColumnFact
    <2>3. ColumnFact(st.fact[2], st.fact[3]) \in s
      BY <2>1, <2>2, PlainSeen DEF Between
    <2>4. QED
      BY <1>11, <2>3 DEF Accepted
  <1>12. CASE st.kind \in {"body", "newBody"}
    <2>1. Readable(b.least, st) /\ \A f \in Reads(st.function, st.body) : Plain(f)
      BY <1>12 DEF Clear, Accepted, Tame
    <2>2. Readable(s, st)
      BY <2>1, PlainSeen DEF Between, Readable
    <2>3. st.kind = "newBody" => <<"function", st.function>> \notin s
      <3>1. st.kind = "newBody" => <<"function", st.function>> \notin b.most
        BY DEF Clear, Accepted
      <3>2. Plain(<<"function", st.function>>)
        BY DEF Plain, Blur
      <3>3. QED
        BY <3>1, <3>2, PlainSeen DEF Between
    <2>4. QED
      BY <1>12, <2>2, <2>3 DEF Accepted
  <1>13. QED
    BY <1>1, <1>2, <1>3, <1>4, <1>5, <1>6, <1>7, <1>8, <1>9, <1>10, <1>11, <1>12 DEF Accepted

\* The bound that is widest has the index once it may have been built.
LEMMA BuiltIsThere ==
  ASSUME NEW b, NEW st, Tame(b, st), st.kind = "build"
  PROVE  Blur(st.index) \in Step(b, st).most
  <1> DEFINE t == st.index[2]
             n == st.index[3]
             there == Blur(st.index)
  <1>1. Named(b.most, t, n) \subseteq {there}
    BY DEF Tame
  <1>2. Blur(there) = there
    BY Blurs
  <1>3. After(b.most, st) = IF Named(b.most, t, n) # {} THEN b.most ELSE b.most \cup {st.index}
    BY DEF After
  <1>4. there \in Seen(After(b.most, st))
    <2>1. CASE Named(b.most, t, n) = {}
      BY <1>3, <2>1 DEF Seen
    <2>2. CASE Named(b.most, t, n) # {}
      <3>1. there \in b.most
        BY <1>1, <2>2 DEF Named
      <3>2. QED
        BY <1>2, <1>3, <2>2, <3>1 DEF Seen
    <2>3. QED
      BY <2>1, <2>2
  <1>5. QED
    BY <1>4 DEF Step

\* A concurrent index is there or on its way, whatever was there before.
LEMMA BuiltBetween ==
  ASSUME NEW s, NEW b, NEW st, Between(s, b), Clear(b, st), st.kind = "build"
  PROVE  Between(After(s, st), Step(b, st))
  <1> DEFINE t == st.index[2]
             n == st.index[3]
             there == Blur(st.index)
  <1>1. there = <<"invalid", t, n>> /\ Named(b.most, t, n) \subseteq {there}
    BY DEF Clear, Tame, Blur
  <1>2. there[1] = "invalid" /\ there[2] = t /\ there[3] = n /\ Blur(there) = there
    BY <1>1, Blurs
  <1> HIDE DEF there
  <1>3. \A u : After(u, st) = IF Named(u, t, n) # {} THEN u ELSE u \cup {st.index}
    BY DEF After
  <1>4. ASSUME NEW u, Seen(u) \subseteq b.most
        PROVE  Seen(After(u, st)) = Seen(u) \cup {there}
    <2>1. CASE Named(u, t, n) = {}
      BY <1>3, <2>1 DEF Seen, there
    <2>2. CASE Named(u, t, n) # {}
      <3>1. PICK f \in u : f \in Named(u, t, n)
        BY <2>2 DEF Named
      <3>2. Blur(f) \in Named(b.most, t, n) /\ Blur(f) \in Seen(u)
        BY <1>4, <3>1, Blurs DEF Named, Seen
      <3>3. Blur(f) = there
        BY <1>1, <3>2
      <3>4. QED
        BY <1>3, <2>2, <3>2, <3>3
    <2>3. QED
      BY <2>1, <2>2
  <1>5. Seen(After(s, st)) = Seen(s) \cup {there}
    BY <1>4 DEF Between
  <1>6. Seen(After(b.least, st)) \subseteq Seen(s) \cup {there}
    <2>1. \A f \in b.least : Blur(f) = f
      BY Blurs DEF Between, Seen
    <2>2. Seen(b.least) \subseteq b.most
      BY <2>1 DEF Between, Seen
    <2>3. Seen(b.least) \subseteq Seen(s)
      BY <2>1 DEF Between, Seen
    <2>4. QED
      BY <1>4, <2>2, <2>3
  <1>7. Seen(s) \cup {there} \subseteq Seen(After(b.most, st))
    <2>1. ASSUME NEW f \in s PROVE Blur(f) \in Seen(After(b.most, st))
      <3>1. Blur(f) \in After(b.most, st)
        BY <1>3 DEF Between, Seen
      <3>2. QED
        BY <3>1, Blurs DEF Seen
    <2>2. there \in Seen(After(b.most, st))
      BY BuiltIsThere DEF Clear, Step, there
    <2>3. QED
      BY <2>1, <2>2 DEF Seen
  <1>8. QED
    BY <1>5, <1>6, <1>7 DEF Between, Step

\* A statement that takes facts away, or puts others in their place.
LEMMA ReplacedBetween ==
  ASSUME NEW s, NEW b, NEW st, Between(s, b),
         NEW gone, NEW low, NEW high,
         \A f \in s : f \in gone => Blur(f) \in low \/ Blur(f) \notin b.least,
         \A f \in s : Blur(f) \in high => f \in gone,
         NEW new, NEW few, NEW many, few \subseteq new, new \subseteq many,
         After(s, st) = (s \ gone) \cup new,
         After(b.least, st) = (b.least \ low) \cup few,
         After(b.most, st) = (b.most \ high) \cup many
  PROVE  Between(After(s, st), Step(b, st))
  <1>1. /\ Step(b, st).least = Seen((b.least \ low) \cup few)
        /\ Step(b, st).most = Seen((b.most \ high) \cup many)
    BY DEF Step
  <1>2. ASSUME NEW g \in b.least \ low PROVE Blur(g) \in Seen((s \ gone) \cup new)
    <2>1. PICK f \in s : g = Blur(f)
      BY <1>2 DEF Between, Seen
    <2>2. f \notin gone /\ Blur(g) = Blur(f)
      BY <1>2, <2>1, Blurs
    <2>3. QED
      BY <2>1, <2>2 DEF Seen
  <1>3. ASSUME NEW f \in s \ gone PROVE Blur(f) \in Seen((b.most \ high) \cup many)
    <2>1. Blur(f) \in b.most \ high
      BY <1>3 DEF Between, Seen
    <2>2. Blur(f) = Blur(Blur(f))
      BY Blurs
    <2>3. QED
      BY <2>1, <2>2 DEF Seen
  <1>4. /\ Seen((b.least \ low) \cup few) \subseteq Seen((s \ gone) \cup new)
        /\ Seen((s \ gone) \cup new) \subseteq Seen((b.most \ high) \cup many)
    BY <1>2, <1>3 DEF Seen
  <1>5. QED
    BY <1>1, <1>4 DEF Between

LEMMA RemovedBetween ==
  ASSUME NEW s, NEW b, NEW st, Between(s, b),
         NEW gone, NEW low, NEW high,
         \A f \in s : f \in gone => Blur(f) \in low \/ Blur(f) \notin b.least,
         \A f \in s : Blur(f) \in high => f \in gone,
         After(s, st) = s \ gone,
         After(b.least, st) = b.least \ low,
         After(b.most, st) = b.most \ high
  PROVE  Between(After(s, st), Step(b, st))
  <1> DEFINE nothing == {}
  <1>1. /\ After(s, st) = (s \ gone) \cup nothing
        /\ After(b.least, st) = (b.least \ low) \cup nothing
        /\ After(b.most, st) = (b.most \ high) \cup nothing
        /\ nothing \subseteq nothing
    OBVIOUS
  <1> HIDE DEF nothing
  <1>2. QED
    BY <1>1, ReplacedBetween

LEMMA AddedBetween ==
  ASSUME NEW s, NEW b, NEW st, Between(s, b), NEW new,
         \A u : After(u, st) = u \cup new
  PROVE  Between(After(s, st), Step(b, st))
  <1>1. Step(b, st).least = Seen(b.least \cup new) /\ Step(b, st).most = Seen(b.most \cup new)
    BY DEF Step
  <1>2. /\ \A f \in s : Blur(f) \in b.most /\ Blur(Blur(f)) = Blur(f)
        /\ \A g \in b.least : \E f \in s : g = Blur(f) /\ Blur(g) = g
    BY Blurs DEF Between, Seen
  <1>3. Seen(b.least \cup new) \subseteq Seen(s \cup new)
    BY <1>2 DEF Seen
  <1>4. Seen(s \cup new) \subseteq Seen(b.most \cup new)
    BY <1>2 DEF Seen
  <1>5. QED
    BY <1>1, <1>3, <1>4 DEF Between

\* Whatever is between the bounds is between them after a statement.
LEMMA StaysBetween ==
  ASSUME NEW s, NEW b, NEW st, Between(s, b), Clear(b, st)
  PROVE  Between(After(s, st), Step(b, st))
  <1>1. CASE st.kind = "add"
    <2>1. \A u : After(u, st) = u \cup st.new
      BY <1>1 DEF After
    <2>2. QED
      BY <2>1, AddedBetween
  <1>2. CASE st.kind = "build"
    BY <1>2, BuiltBetween
  <1>3. CASE st.kind = "dropTable"
    <2>1. \A u : After(u, st) = u \ OfTable(u, st.table)
      BY <1>3 DEF After
    <2>2. ASSUME NEW f \in s
          PROVE  /\ f \in OfTable(s, st.table) /\ Blur(f) \in b.least =>
                        Blur(f) \in OfTable(b.least, st.table)
                 /\ Blur(f) \in OfTable(b.most, st.table) => f \in OfTable(s, st.table)
      BY Blurs DEF OfTable
    <2> DEFINE gone == OfTable(s, st.table)
               low  == OfTable(b.least, st.table)
               high == OfTable(b.most, st.table)
    <2>3. /\ After(s, st) = s \ gone
          /\ After(b.least, st) = b.least \ low
          /\ After(b.most, st) = b.most \ high
          /\ \A f \in s : f \in gone => Blur(f) \in low \/ Blur(f) \notin b.least
          /\ \A f \in s : Blur(f) \in high => f \in gone
      BY <2>1, <2>2
    <2> HIDE DEF gone, low, high
    <2>4. QED
      BY <2>3, RemovedBetween
  <1>4. CASE st.kind = "dropColumns"
    <2> DEFINE Gone(u) == OfColumns(u, st.table, st.columns)
    <2>1. \A u : After(u, st) = u \ Gone(u)
      BY <1>4 DEF After
    <2>2. ASSUME NEW f \in s, f \in OfTable(s, st.table) \/ Blur(f) \in OfTable(b.most, st.table)
          PROVE  Blur(f) = f
      <3>1. Blur(f) \in OfTable(b.most, st.table)
        BY <2>2, Blurs DEF OfTable, Between, Seen
      <3>2. Plain(Blur(f))
        BY <1>4, <3>1 DEF Clear, Tame
      <3>3. QED
        BY <3>2, Blurs
    <2>3. ASSUME NEW f \in s
          PROVE  /\ f \in Gone(s) /\ Blur(f) \in b.least => Blur(f) \in Gone(b.least)
                 /\ Blur(f) \in Gone(b.most) => f \in Gone(s)
      BY <2>2 DEF OfColumns, OfTable
    <2> HIDE DEF Gone
    <2> DEFINE gone == Gone(s)
               low  == Gone(b.least)
               high == Gone(b.most)
    <2>4. /\ After(s, st) = s \ gone
          /\ After(b.least, st) = b.least \ low
          /\ After(b.most, st) = b.most \ high
          /\ \A f \in s : f \in gone => Blur(f) \in low \/ Blur(f) \notin b.least
          /\ \A f \in s : Blur(f) \in high => f \in gone
      BY <2>1, <2>3
    <2> HIDE DEF gone, low, high
    <2>5. QED
      BY <2>4, RemovedBetween
  <1>5. CASE st.kind = "drop"
    <2> DEFINE Gone(u) == Named(u, st.table, st.name)
    <2>1. \A u : After(u, st) = u \ Gone(u)
      BY <1>5 DEF After
    <2>2. ASSUME NEW f \in s
          PROVE  /\ f \in Gone(s) /\ Blur(f) \in b.least => Blur(f) \in Gone(b.least)
                 /\ Blur(f) \in Gone(b.most) => f \in Gone(s)
      BY Blurs DEF Named
    <2> HIDE DEF Gone
    <2> DEFINE gone == Gone(s)
               low  == Gone(b.least)
               high == Gone(b.most)
    <2>3. /\ After(s, st) = s \ gone
          /\ After(b.least, st) = b.least \ low
          /\ After(b.most, st) = b.most \ high
          /\ \A f \in s : f \in gone => Blur(f) \in low \/ Blur(f) \notin b.least
          /\ \A f \in s : Blur(f) \in high => f \in gone
      BY <2>1, <2>2
    <2> HIDE DEF gone, low, high
    <2>4. QED
      BY <2>3, RemovedBetween
  <1>6. CASE st.kind = "dropView"
    <2> DEFINE Gone(u) == {f \in u : f[1] = "view" /\ f[3] = st.name}
    <2>1. \A u : After(u, st) = u \ Gone(u)
      BY <1>6 DEF After
    <2>2. ASSUME NEW f \in s
          PROVE  /\ f \in Gone(s) /\ Blur(f) \in b.least => Blur(f) \in Gone(b.least)
                 /\ Blur(f) \in Gone(b.most) => f \in Gone(s)
      BY Blurs
    <2> HIDE DEF Gone
    <2> DEFINE gone == Gone(s)
               low  == Gone(b.least)
               high == Gone(b.most)
    <2>3. /\ After(s, st) = s \ gone
          /\ After(b.least, st) = b.least \ low
          /\ After(b.most, st) = b.most \ high
          /\ \A f \in s : f \in gone => Blur(f) \in low \/ Blur(f) \notin b.least
          /\ \A f \in s : Blur(f) \in high => f \in gone
      BY <2>1, <2>2
    <2> HIDE DEF gone, low, high
    <2>4. QED
      BY <2>3, RemovedBetween
  <1>7. CASE st.kind = "forget"
    <2> DEFINE gone == {st.fact}
    <2>1. \A u : After(u, st) = u \ gone
      BY <1>7 DEF After
    <2>2. ASSUME NEW f \in s PROVE f \in gone <=> Blur(f) \in gone
      <3>1. Plain(st.fact)
        BY <1>7 DEF Clear, Tame
      <3>2. QED
        BY <3>1, Blurs DEF Plain
    <2> HIDE DEF gone
    <2>3. /\ After(s, st) = s \ gone
          /\ After(b.least, st) = b.least \ gone
          /\ After(b.most, st) = b.most \ gone
          /\ \A f \in s : f \in gone => Blur(f) \in gone \/ Blur(f) \notin b.least
          /\ \A f \in s : Blur(f) \in gone => f \in gone
      BY <2>1, <2>2
    <2>4. QED
      BY <2>3, RemovedBetween
  <1>8. CASE st.kind = "renameTable"
    <2> DEFINE Gone(u) == OfTable(u, st.from)
               New(u)  == {[f EXCEPT ![2] = st.to] : f \in OfTable(u, st.from)}
    <2>1. \A u : After(u, st) = (u \ Gone(u)) \cup New(u)
      BY <1>8 DEF After
    <2>2. ASSUME NEW f \in s
          PROVE  /\ f \in Gone(s) => Blur(f) = f /\ f \in Gone(b.most)
                 /\ f \in Gone(s) /\ Blur(f) \in b.least => Blur(f) \in Gone(b.least)
                 /\ Blur(f) \in Gone(b.most) => f \in Gone(s)
      <3>1. f \in Gone(s) <=> Blur(f) \in Gone(b.most)
        BY Blurs DEF OfTable, Between, Seen
      <3>2. Blur(f) \in Gone(b.most) => Blur(f) = f
        BY <1>8, Blurs DEF Clear, Tame
      <3>3. f \in Gone(s) /\ Blur(f) \in b.least => Blur(f) \in Gone(b.least)
        BY Blurs DEF OfTable
      <3>4. QED
        BY <3>1, <3>2, <3>3
    <2>3. Gone(b.least) \subseteq Gone(s) /\ Gone(s) \subseteq Gone(b.most)
      <3>1. ASSUME NEW g \in Gone(b.least) PROVE g \in Gone(s)
        <4>1. PICK f \in s : g = Blur(f)
          BY DEF OfTable, Between, Seen
        <4>2. f \in Gone(s)
          BY <4>1, Blurs DEF OfTable
        <4>3. QED
          BY <2>2, <4>1, <4>2
      <3>2. Gone(s) \subseteq Gone(b.most)
        BY <2>2 DEF OfTable
      <3>3. QED
        BY <3>1, <3>2
    <2>4. New(b.least) \subseteq New(s) /\ New(s) \subseteq New(b.most)
      BY <2>3
    <2> HIDE DEF Gone, New
    <2>5. QED
      BY <2>1, <2>2, <2>4, ReplacedBetween
  <1>9. CASE st.kind = "renameColumn"
    <2> DEFINE Gone(u) == ColumnFacts(u, st.table, st.from)
               New(u)  == {[f EXCEPT ![3] = st.to] : f \in ColumnFacts(u, st.table, st.from)}
    <2>1. \A u : After(u, st) = (u \ Gone(u)) \cup New(u)
      BY <1>9 DEF After
    <2>2. ASSUME NEW f \in s
          PROVE  /\ f \in Gone(s) \/ Blur(f) \in Gone(b.most) => Blur(f) = f
                 /\ f \in Gone(s) => f \in Gone(b.most)
                 /\ f \in Gone(s) /\ Blur(f) \in b.least => Blur(f) \in Gone(b.least)
                 /\ Blur(f) \in Gone(b.most) => f \in Gone(s)
      <3>1. f \in Gone(s) \/ Blur(f) \in Gone(b.most) => Blur(f) = f
        BY Blurs DEF ColumnFacts, OfTable
      <3>2. QED
        BY <3>1 DEF ColumnFacts, OfTable, Between, Seen
    <2>3. Gone(b.least) \subseteq Gone(s) /\ Gone(s) \subseteq Gone(b.most)
      <3>1. ASSUME NEW g \in Gone(b.least) PROVE g \in Gone(s)
        <4>1. PICK f \in s : g = Blur(f)
          BY DEF ColumnFacts, OfTable, Between, Seen
        <4>2. f = g
          BY <4>1, Blurs DEF ColumnFacts, OfTable
        <4>3. QED
          BY <4>1, <4>2 DEF ColumnFacts, OfTable
      <3>2. Gone(s) \subseteq Gone(b.most)
        BY <2>2 DEF ColumnFacts, OfTable
      <3>3. QED
        BY <3>1, <3>2
    <2>4. New(b.least) \subseteq New(s) /\ New(s) \subseteq New(b.most)
      BY <2>3
    <2> HIDE DEF Gone, New
    <2>5. QED
      BY <2>1, <2>2, <2>4, ReplacedBetween
  <1>10. CASE st.kind = "renameIndex"
    <2> DEFINE Gone(u) == Named(u, st.table, st.from)
               New(u)  == {[f EXCEPT ![3] = st.to] : f \in Named(u, st.table, st.from)}
    <2>1. \A u : After(u, st) = (u \ Gone(u)) \cup New(u)
      BY <1>10 DEF After
    <2>2. ASSUME NEW f \in s
          PROVE  /\ f \in Gone(s) => Blur(f) = f /\ f \in Gone(b.most)
                 /\ f \in Gone(s) /\ Blur(f) \in b.least => Blur(f) \in Gone(b.least)
                 /\ Blur(f) \in Gone(b.most) => f \in Gone(s)
      <3>1. f \in Gone(s) => Blur(f) \in Gone(b.most)
        BY Blurs DEF Named, Between, Seen
      <3>2. Blur(f) \in Gone(b.most) => Blur(f) = f
        BY <1>10, Blurs DEF Clear, Tame
      <3>3. f \in Gone(s) /\ Blur(f) \in b.least => Blur(f) \in Gone(b.least)
        BY Blurs DEF Named
      <3>4. Blur(f) \in Gone(b.most) => f \in Gone(s)
        BY <3>2 DEF Named
      <3>5. QED
        BY <3>1, <3>2, <3>3, <3>4
    <2>3. Gone(b.least) \subseteq Gone(s) /\ Gone(s) \subseteq Gone(b.most)
      <3>1. ASSUME NEW g \in Gone(b.least) PROVE g \in Gone(s)
        <4>1. PICK f \in s : g = Blur(f)
          BY DEF Named, Between, Seen
        <4>2. f \in Gone(s)
          BY <4>1, Blurs DEF Named
        <4>3. QED
          BY <2>2, <4>1, <4>2
      <3>2. Gone(s) \subseteq Gone(b.most)
        BY <2>2 DEF Named
      <3>3. QED
        BY <3>1, <3>2
    <2>4. New(b.least) \subseteq New(s) /\ New(s) \subseteq New(b.most)
      BY <2>3
    <2> HIDE DEF Gone, New
    <2>5. QED
      BY <2>1, <2>2, <2>4, ReplacedBetween
  <1>11. CASE st.kind \in {"body", "newBody"}
    <2> DEFINE Gone(u) == {f \in u : f[1] = "body" /\ f[2] = st.function}
               new == {<<"function", st.function>>, <<"body", st.function, st.body>>}
    <2>1. \A u : After(u, st) = (u \ Gone(u)) \cup new
      BY <1>11 DEF After
    <2>2. ASSUME NEW f \in s
          PROVE  /\ f \in Gone(s) /\ Blur(f) \in b.least => Blur(f) \in Gone(b.least)
                 /\ Blur(f) \in Gone(b.most) => f \in Gone(s)
      BY Blurs
    <2> HIDE DEF Gone, new
    <2>3. /\ After(s, st) = (s \ Gone(s)) \cup new
          /\ After(b.least, st) = (b.least \ Gone(b.least)) \cup new
          /\ After(b.most, st) = (b.most \ Gone(b.most)) \cup new
          /\ new \subseteq new
      BY <2>1
    <2>4. QED
      BY <2>2, <2>3, ReplacedBetween
  <1>12. CASE st.kind = "dropBody"
    <2> DEFINE Gone(u) == {f \in u : f[1] \in {"function", "body"} /\ f[2] = st.function}
    <2>1. \A u : After(u, st) = u \ Gone(u)
      BY <1>12 DEF After
    <2>2. ASSUME NEW f \in s
          PROVE  /\ f \in Gone(s) /\ Blur(f) \in b.least => Blur(f) \in Gone(b.least)
                 /\ Blur(f) \in Gone(b.most) => f \in Gone(s)
      BY Blurs
    <2> HIDE DEF Gone
    <2> DEFINE gone == Gone(s)
               low  == Gone(b.least)
               high == Gone(b.most)
    <2>3. /\ After(s, st) = s \ gone
          /\ After(b.least, st) = b.least \ low
          /\ After(b.most, st) = b.most \ high
          /\ \A f \in s : f \in gone => Blur(f) \in low \/ Blur(f) \notin b.least
          /\ \A f \in s : Blur(f) \in high => f \in gone
      BY <2>1, <2>2
    <2> HIDE DEF gone, low, high
    <2>4. QED
      BY <2>3, RemovedBetween
  <1>13. CASE st.kind = "require"
    <2> DEFINE new == {st.fact}
    <2>1. \A u : After(u, st) = u \cup new
      BY <1>13 DEF After
    <2> HIDE DEF new
    <2>2. QED
      BY <2>1, AddedBetween
  <1>14. CASE st.kind \notin {"add", "build", "dropTable", "dropColumns", "drop", "dropView",
                              "forget", "renameTable", "renameColumn", "renameIndex", "body",
                              "newBody", "dropBody", "require"}
    <2> DEFINE nothing == {}
    <2>1. \A u : After(u, st) = u \cup nothing
      BY <1>14 DEF After
    <2> HIDE DEF nothing
    <2>2. QED
      BY <2>1, AddedBetween
  <1>15. QED
    BY <1>1, <1>2, <1>3, <1>4, <1>5, <1>6, <1>7, <1>8, <1>9, <1>10, <1>11, <1>12, <1>13, <1>14

-----------------------------------------------------------------------------
(* The commands.                                                           *)
LEMMA HeadIsNat == HeadRevision \in Nat
  BY DEF HeadRevision, Migrations

\* The bounds of the file a command is in.
Bounds(c) == Stages[c.pc][File(c)]

\* The command is in one of the files, at one of its statements, and a block
\* is open only where the version row says what it says.
OnItsWay ==
    /\ command = [pc |-> command.pc, target |-> command.target, from |-> command.from,
                  work |-> command.work, at |-> command.at, next |-> command.next,
                  block |-> command.block]
    /\ command.pc \in Ways
    /\ command.at \in 0..HeadRevision /\ command.target \in 0..HeadRevision
    /\ command.from \in 0..HeadRevision
    /\ command.pc = "up" => command.at < command.target /\ command.from <= command.at
    /\ command.pc = "down" => command.target < command.at /\ Floor <= command.target
    /\ command.next \in 1..Len(Statements(command)) + 1
    /\ command.block = Bounds(command)[command.next].inside
    /\ command.block => revision = command.at
    /\ Between(command.work, Bounds(command)[command.next])

\* Everything committed is within bounds, and those of its revision wherever
\* the command may end there.
SchemaInv ==
    /\ revision \in 0..HeadRevision /\ ~refused
    /\ command # Idle => OnItsWay
    /\ command = Idle \/ ~PastSpared(command) => Between(db, Rest[revision])
    /\ \E b \in Resting(Rest) \cup Stranded(Stages) : Between(db, b)

LEMMA WiderBetween ==
  ASSUME NEW s, NEW b, NEW c, Between(s, b), Narrower(b, c)
  PROVE  Between(s, c)
  BY DEF Between, Narrower

\* The file of a command has the bounds of its file.
LEMMA InItsFile ==
  ASSUME HistoryIsSound, command # Idle, OnItsWay
  PROVE  /\ File(command) \in Files(command.pc)
         /\ Statements(command) = Lines(command.pc, File(command))
         /\ command.at = Before(command.pc, File(command))
         /\ FileIsSound(Rest, command.pc, File(command), Statements(command), Bounds(command))
  <1>1. command.pc \in {"up", "down"} /\ Floor \in 0..HeadRevision
    BY BoundsAssumption DEF OnItsWay, Ways
  <1>2. File(command) \in Files(command.pc)
    BY <1>1, HeadIsNat DEF OnItsWay, File, Files
  <1>3. Statements(command) = Lines(command.pc, File(command))
    BY <1>1 DEF Statements, Lines, Up, Down
  <1>4. command.at = Before(command.pc, File(command))
    BY <1>1, HeadIsNat DEF File, Before, OnItsWay
  <1>5. FileIsSound(Rest, command.pc, File(command), Statements(command), Bounds(command))
    BY <1>1, <1>2, <1>3 DEF HistoryIsSound, Sound, FilesAreSound, Ways, Bounds
  <1>6. QED
    BY <1>2, <1>3, <1>4, <1>5

\* A command begins with the committed schema, before the first statement.
LEMMA Begins ==
  ASSUME HistoryIsSound, SchemaInv, command = Idle, NEW way \in Ways, NEW target \in 0..HeadRevision,
         way = "up" => revision < target,
         way = "down" => target < revision /\ Floor <= target,
         command' = Running(way, target), UNCHANGED <<db, revision, refused>>
  PROVE  SchemaInv'
  <1> DEFINE r == IF way = "up" THEN revision + 1 ELSE revision
  <1>1. /\ command'.pc = way /\ command'.target = target /\ command'.from = revision
        /\ command'.work = db /\ command'.at = revision /\ command'.next = 1
        /\ command'.block = FALSE /\ command' # Idle
    BY DEF Running, Idle, Ways
  <1>2. File(command)' = r
    BY <1>1 DEF File
  <1>3. r \in Files(way) /\ revision = Before(way, r)
    BY HeadIsNat, BoundsAssumption DEF SchemaInv, Files, Before, Ways
  <1>4. Statements(command)' = Lines(way, r) /\ Bounds(command)' = Stages[way][r]
    BY <1>1, <1>2 DEF Statements, Lines, Up, Down, Bounds, File
  <1>5. FileIsSound(Rest, way, r, Lines(way, r), Stages[way][r])
    BY <1>3 DEF HistoryIsSound, Sound, FilesAreSound
  <1> HIDE DEF r
  <1>6. Between(db, Rest[revision])
    BY DEF SchemaInv
  <1>7. Between(db, Stages[way][r][1]) /\ Stages[way][r][1].inside = FALSE
    BY <1>3, <1>5, <1>6, WiderBetween DEF FileIsSound
  <1>8. Len(Lines(way, r)) \in Nat
    BY <1>5 DEF FileIsSound
  <1>9. OnItsWay'
    <2>1. command' = [pc |-> command'.pc, target |-> command'.target, from |-> command'.from,
                      work |-> command'.work, at |-> command'.at, next |-> command'.next,
                      block |-> command'.block]
      BY DEF Running
    <2>2. command'.next \in 1..Len(Statements(command)') + 1
      BY <1>1, <1>4, <1>8
    <2>3. command'.block = Bounds(command)'[command'.next].inside
      BY <1>1, <1>4, <1>7
    <2>4. Between(command.work, Bounds(command)[command.next])'
      BY <1>1, <1>4, <1>7 DEF Between
    <2>5. QED
      BY <1>1, <2>1, <2>2, <2>3, <2>4 DEF OnItsWay, SchemaInv
  <1>10. QED
    BY <1>6, <1>9 DEF SchemaInv, Between

\* What a command has come to can be committed where it is not spared.
LEMMA CommitsWithin ==
  ASSUME HistoryIsSound, SchemaInv, command # Idle, command.next <= Len(Statements(command)),
         NEW s, Between(s, Bounds(command)[command.next + 1]),
         Statements(command)[command.next] = Commit \/ command.block
  PROVE  /\ ~PastSpared(command) => Between(s, Rest[command.at])
         /\ \E b \in Resting(Rest) \cup Stranded(Stages) : Between(s, b)
  <1> DEFINE r == File(command)
             sts == Statements(command)
             trail == Bounds(command)
             i == command.next
  <1>1. /\ r \in Files(command.pc) /\ sts = Lines(command.pc, r)
        /\ command.at = Before(command.pc, r) /\ FileIsSound(Rest, command.pc, r, sts, trail)
        /\ OnItsWay
    BY InItsFile DEF SchemaInv
  <1>2. i \in 1..Len(sts) /\ Len(sts) \in Nat
    BY <1>1 DEF OnItsWay, FileIsSound
  <1>3. Commits(trail, sts, i)
    BY <1>1 DEF Commits, OnItsWay
  <1>4. CASE command.pc = "up" /\ r \in Spared
    <2>1. PastSpared(command)
      <3>1. command.from < r /\ File(command) >= r
        BY <1>4, <1>1, HeadIsNat DEF OnItsWay, File
      <3>2. QED
        BY <1>4, <3>1 DEF PastSpared
    <2>2. trail = Stages.up[r] /\ sts = Up(r)
      BY <1>1, <1>4 DEF Bounds, Lines
    <2>3. trail[i + 1] \in Stranded(Stages)
      <3>1. i + 1 \in 1..Len(Up(r)) + 1
        BY <1>2, <2>2
      <3>2. QED
        BY <1>4, <2>2, <3>1 DEF Stranded
    <2>4. QED
      BY <2>1, <2>3
  <1>5. CASE ~(command.pc = "up" /\ r \in Spared)
    <2>1. Narrower(trail[i + 1], Rest[Before(command.pc, r)])
      BY <1>1, <1>2, <1>3, <1>5 DEF FileIsSound
    <2>2. Between(s, Rest[command.at])
      BY <1>1, <2>1, WiderBetween
    <2>3. Rest[command.at] \in Resting(Rest)
      BY <1>1 DEF Resting, OnItsWay
    <2>4. QED
      BY <2>2, <2>3
  <1>6. QED
    BY <1>4, <1>5

LEMMA Executes == HistoryIsSound /\ SchemaInv /\ Execute => SchemaInv'
  <1> SUFFICES ASSUME HistoryIsSound, SchemaInv, Execute PROVE SchemaInv'
    OBVIOUS
  <1> DEFINE r == File(command)
             sts == Statements(command)
             trail == Bounds(command)
             i == command.next
             st == sts[i]
             s == After(command.work, st)
  <1>1. /\ command # Idle /\ OnItsWay /\ i <= Len(sts)
        /\ FileIsSound(Rest, command.pc, r, sts, trail)
    BY InItsFile DEF SchemaInv, Execute
  <1>2. i \in 1..Len(sts) /\ Len(sts) \in Nat
    BY <1>1 DEF OnItsWay, FileIsSound
  <1>3. Between(command.work, trail[i]) /\ Clear(trail[i], st)
    BY <1>1, <1>2 DEF OnItsWay, FileIsSound
  <1>4. Accepted(command.work, st)
    BY <1>3, AcceptedBetween
  <1>5. Between(s, trail[i + 1])
    <2>1. Between(s, Step(trail[i], st))
      BY <1>3, StaysBetween
    <2>2. Narrower(Step(trail[i], st), trail[i + 1])
      BY <1>1, <1>2 DEF FileIsSound
    <2>3. QED
      BY <2>1, <2>2, WiderBetween
  <1>6. /\ ~refused'
        /\ command' = [command EXCEPT !.work = s, !.next = @ + 1,
                                      !.block = IF st = Commit THEN ~@ ELSE @]
        /\ IF st = Commit \/ command.block THEN db' = s /\ revision' = command.at
                                           ELSE UNCHANGED <<db, revision>>
    BY <1>4 DEF Execute, SchemaInv
  <1> HIDE DEF r, sts, trail, i, st, s
  <1>7. /\ command'.pc = command.pc /\ command'.target = command.target
        /\ command'.from = command.from /\ command'.at = command.at
        /\ command'.work = s /\ command'.next = i + 1
        /\ command'.block = IF st = Commit THEN ~command.block ELSE command.block
        /\ command' = [pc |-> command'.pc, target |-> command'.target, from |-> command'.from,
                       work |-> command'.work, at |-> command'.at, next |-> command'.next,
                       block |-> command'.block]
    BY <1>1, <1>6 DEF OnItsWay, i
  <1>8. /\ File(command)' = r /\ Statements(command)' = sts /\ Bounds(command)' = trail
        /\ PastSpared(command)' = PastSpared(command)
    BY <1>7 DEF File, Statements, Bounds, PastSpared, r, sts, trail
  <1>9. command' # Idle
    BY <1>1, <1>7 DEF Idle, OnItsWay, Ways
  <1>10. command'.block = trail[i + 1].inside
    BY <1>1, <1>2, <1>7 DEF FileIsSound, Step, OnItsWay, i, trail, sts, st
  <1>11. command'.block => revision' = command'.at
    BY <1>1, <1>6, <1>7 DEF OnItsWay
  <1>12. OnItsWay'
    BY <1>1, <1>2, <1>5, <1>7, <1>8, <1>10, <1>11 DEF OnItsWay, Between
  <1>13. QED
    <2>1. CASE st = Commit \/ command.block
      <3>1. /\ ~PastSpared(command) => Between(s, Rest[command.at])
            /\ \E b \in Resting(Rest) \cup Stranded(Stages) : Between(s, b)
        BY <1>1, <1>5, <2>1, CommitsWithin DEF i, sts, st, trail
      <3>2. QED
        BY <1>1, <1>6, <1>8, <1>9, <1>12, <2>1, <3>1 DEF SchemaInv, Between, OnItsWay
    <2>2. CASE ~(st = Commit \/ command.block)
      BY <1>1, <1>6, <1>8, <1>9, <1>12, <2>2 DEF SchemaInv, Between
    <2>3. QED
      BY <2>1, <2>2

LEMMA Finishes == HistoryIsSound /\ SchemaInv /\ FinishFile => SchemaInv'
  <1> SUFFICES ASSUME HistoryIsSound, SchemaInv, FinishFile PROVE SchemaInv'
    OBVIOUS
  <1> DEFINE r == File(command)
             sts == Statements(command)
             trail == Bounds(command)
             end == IF command.pc = "up" THEN command.at + 1 ELSE command.at - 1
  <1>1. /\ command # Idle /\ OnItsWay /\ command.next > Len(sts)
        /\ r \in Files(command.pc) /\ FileIsSound(Rest, command.pc, r, sts, trail)
    BY InItsFile DEF SchemaInv, FinishFile
  <1>2. command.next = Len(sts) + 1
    BY <1>1 DEF OnItsWay, FileIsSound
  <1>3. end = Behind(command.pc, r) /\ end \in 0..HeadRevision
    BY <1>1, HeadIsNat, BoundsAssumption DEF Behind, File, OnItsWay, Ways
  <1>4. Between(command.work, Rest[end]) /\ command.block = FALSE
    <2>1. Between(command.work, trail[Len(sts) + 1]) /\ command.block = trail[Len(sts) + 1].inside
      BY <1>1, <1>2 DEF OnItsWay
    <2>2. QED
      BY <1>1, <1>3, <2>1, WiderBetween DEF FileIsSound
  <1>5. Rest[end] \in Resting(Rest)
    BY <1>3 DEF Resting
  <1>6. CASE end = command.target
    <2>1. command' = Idle /\ db' = command.work /\ revision' = end /\ refused' = refused
      BY <1>6 DEF FinishFile
    <2> HIDE DEF end
    <2>2. QED
      BY <1>3, <1>4, <1>5, <2>1 DEF SchemaInv, Between
  <1>7. CASE end # command.target
    <2>1. /\ command' = [command EXCEPT !.at = end, !.next = 1]
          /\ UNCHANGED <<db, revision, refused>>
      BY <1>7 DEF FinishFile
    <2>2. /\ command'.pc = command.pc /\ command'.target = command.target
          /\ command'.from = command.from /\ command'.at = end
          /\ command'.work = command.work /\ command'.next = 1
          /\ command'.block = FALSE
          /\ command' = [pc |-> command'.pc, target |-> command'.target, from |-> command'.from,
                         work |-> command'.work, at |-> command'.at, next |-> command'.next,
                         block |-> command'.block]
      BY <1>1, <1>4, <2>1 DEF OnItsWay
    <2> DEFINE q == File(command)'
    <2>3. q = IF command.pc = "up" THEN end + 1 ELSE end
      BY <2>2 DEF File
    <2>4. /\ command.pc = "up" => end < command.target /\ command.from <= end
          /\ command.pc = "down" => command.target < end /\ Floor <= command.target
      BY <1>1, <1>7, HeadIsNat DEF OnItsWay
    <2>5. q \in Files(command.pc) /\ end = Before(command.pc, q)
      BY <1>1, <1>3, <2>3, <2>4, HeadIsNat, BoundsAssumption DEF Files, Before, OnItsWay, Ways
    <2>6. Statements(command)' = Lines(command.pc, q) /\ Bounds(command)' = Stages[command.pc][q]
      BY <1>1, <2>2 DEF Statements, Lines, Up, Down, Bounds, File, OnItsWay, Ways
    <2>7. FileIsSound(Rest, command.pc, q, Lines(command.pc, q), Stages[command.pc][q])
      BY <1>1, <2>5 DEF HistoryIsSound, Sound, FilesAreSound, OnItsWay
    <2>8. PastSpared(command) => PastSpared(command)'
      BY <1>1, <1>3, <2>2, <2>3, HeadIsNat, BoundsAssumption DEF PastSpared, File, OnItsWay
    <2>9. command' # Idle
      BY <1>1, <2>2 DEF Idle, OnItsWay, Ways
    <2> HIDE DEF q, end
    <2>10. Between(command.work, Stages[command.pc][q][1]) /\ Stages[command.pc][q][1].inside = FALSE
      BY <1>4, <2>5, <2>7, WiderBetween DEF FileIsSound
    <2>11. command'.next \in 1..Len(Statements(command)') + 1
      BY <2>2, <2>6, <2>7 DEF FileIsSound
    <2>12. Between(command.work, Bounds(command)[command.next])'
      BY <2>2, <2>6, <2>10 DEF Between
    <2>13. OnItsWay'
      BY <1>1, <1>3, <2>2, <2>4, <2>6, <2>10, <2>11, <2>12 DEF OnItsWay
    <2>14. QED
      BY <1>1, <2>1, <2>8, <2>9, <2>13 DEF SchemaInv, Between
  <1>8. QED
    BY <1>6, <1>7

LEMMA BuildDies == HistoryIsSound /\ SchemaInv /\ KillBuild => SchemaInv'
  <1> SUFFICES ASSUME HistoryIsSound, SchemaInv, KillBuild PROVE SchemaInv'
    OBVIOUS
  <1> DEFINE r == File(command)
             sts == Statements(command)
             trail == Bounds(command)
             i == command.next
             st == sts[i]
             husk == <<"invalid", st.index[2], st.index[3]>>
  <1>1. /\ command # Idle /\ OnItsWay /\ ~PastSpared(command) /\ command.block
        /\ st.kind = "build"
        /\ command' = Idle /\ UNCHANGED <<revision, refused>> /\ db' = db \cup {husk}
    BY DEF SchemaInv, KillBuild
  <1>2. FileIsSound(Rest, command.pc, r, sts, trail)
    BY <1>1, InItsFile
  <1>3. command.next # Len(sts) + 1
    BY <1>1, <1>2 DEF FileIsSound, OnItsWay
  <1>4. i \in 1..Len(sts)
    BY <1>1, <1>2, <1>3 DEF FileIsSound, OnItsWay
  <1>5. revision = command.at /\ Between(db, Rest[revision])
    BY <1>1 DEF OnItsWay, SchemaInv
  <1>6. Clear(trail[i], st) /\ Narrower(Step(trail[i], st), trail[i + 1])
    BY <1>2, <1>4 DEF FileIsSound
  <1>7. husk = Blur(st.index) /\ husk \in Step(trail[i], st).most
    BY <1>1, <1>6, BuiltIsThere DEF Clear, Tame, Blur
  <1>8. Blur(husk) = husk
    BY <1>7, Blurs
  <1>9. husk \in Rest[command.at].most
    <2>1. Commits(trail, sts, i)
      BY <1>1 DEF Commits, OnItsWay
    <2>2. ~(command.pc = "up" /\ r \in Spared)
      BY <1>1, HeadIsNat DEF PastSpared, OnItsWay, File
    <2>3. command.at = Before(command.pc, r)
      BY <1>1, InItsFile
    <2>4. Narrower(trail[i + 1], Rest[command.at])
      BY <1>2, <1>4, <2>1, <2>2, <2>3 DEF FileIsSound
    <2>5. QED
      BY <1>6, <1>7, <2>4 DEF Narrower
  <1> HIDE DEF husk, st, i, sts, trail, r
  <1>10. Seen(db') = Seen(db) \cup {husk}
    BY <1>1, <1>8 DEF Seen
  <1>11. Between(db', Rest[revision])
    BY <1>5, <1>9, <1>10 DEF Between
  <1>12. Rest[revision] \in Resting(Rest)
    BY DEF Resting, SchemaInv
  <1>13. QED
    BY <1>1, <1>11, <1>12 DEF SchemaInv, Between

\* The rows refuse a NOT NULL: only in a downgrade, which passes nothing.
LEMMA RowsEnd == HistoryIsSound /\ SchemaInv /\ RowsRefuse => SchemaInv'
  <1> SUFFICES ASSUME HistoryIsSound, SchemaInv, RowsRefuse PROVE SchemaInv'
    OBVIOUS
  <1>1. /\ command # Idle /\ OnItsWay /\ command.next <= Len(Statements(command))
        /\ Statements(command)[command.next].kind = "require"
        /\ FileIsSound(Rest, command.pc, File(command), Statements(command), Bounds(command))
    BY InItsFile DEF SchemaInv, RowsRefuse
  <1>2. command.next \in 1..Len(Statements(command))
    BY <1>1 DEF OnItsWay, FileIsSound
  <1>3. command.pc = "down"
    BY <1>1, <1>2 DEF FileIsSound
  <1>4. ~PastSpared(command)
    BY <1>3 DEF PastSpared
  <1>5. command' = Idle /\ UNCHANGED <<db, revision, refused>>
    BY DEF RowsRefuse
  <1>6. QED
    BY <1>1, <1>4, <1>5 DEF SchemaInv, Between

\* At first: the schema of a revision.
LEMMA AtFirst == HistoryIsSound /\ Init => SchemaInv
  <1> SUFFICES ASSUME HistoryIsSound, Init PROVE SchemaInv
    OBVIOUS
  <1>1. revision \in 0..HeadRevision
    BY BoundsAssumption DEF Init
  <1>2. Between(db, Rest[revision])
    BY <1>1 DEF Init, HistoryIsSound, Sound, RestIsSound
  <1>3. QED
    BY <1>1, <1>2 DEF SchemaInv, Init, Resting

LEMMA SchemaNext == HistoryIsSound /\ SchemaInv /\ [Next]_vars => SchemaInv'
  <1> SUFFICES ASSUME HistoryIsSound, SchemaInv, [Next]_vars PROVE SchemaInv'
    OBVIOUS
  <1>1. CASE StartContainer
    BY <1>1, Begins, HeadIsNat DEF StartContainer, Ways, SchemaInv
  <1>2. CASE Downgrade
    <2>1. PICK n \in Floor..(revision - 1) : command' = Running("down", n)
      BY <1>2 DEF Downgrade
    <2>2. n \in 0..HeadRevision /\ n < revision /\ Floor <= n
      BY <2>1, HeadIsNat, BoundsAssumption DEF SchemaInv
    <2>3. QED
      BY <1>2, <2>1, <2>2, Begins DEF Downgrade, Ways
  <1>3. CASE Execute
    BY <1>3, Executes
  <1>4. CASE FinishFile
    BY <1>4, Finishes
  <1>5. CASE Kill
    BY <1>5 DEF Kill, SchemaInv, Between
  <1>6. CASE KillBuild
    BY <1>6, BuildDies
  <1>7. CASE RowsRefuse
    BY <1>7, RowsEnd
  <1>8. CASE UNCHANGED vars
    BY <1>8 DEF vars, SchemaInv, OnItsWay, Between, Statements, Bounds, File, PastSpared
  <1>9. QED
    BY <1>1, <1>2, <1>3, <1>4, <1>5, <1>6, <1>7, <1>8 DEF Next, Command

LEMMA SchemaAlways == ASSUME HistoryIsSound PROVE Spec => []SchemaInv
  <1>1. Init => SchemaInv
    BY AtFirst
  <1>2. SchemaInv /\ [Next]_vars => SchemaInv'
    BY SchemaNext
  <1>3. QED
    BY <1>1, <1>2, PTL DEF Spec

-----------------------------------------------------------------------------
(* The theorems.                                                           *)

\* The committed schema, and the transaction of a command at each of its
\* statements, never leave the bounds that one pass over the files finds:
\* whatever command was killed, wherever and however often.
THEOREM EverythingIsWithinBounds ==
  ASSUME HistoryIsSound, BodiesAreServed, ModelsAreServed
  PROVE  Spec => []WithinBounds
  <1>1. SchemaInv => WithinBounds
    BY DEF SchemaInv, WithinBounds, OnItsWay, Bounds
  <1>2. QED
    BY <1>1, SchemaAlways, PTL

\* No statement is refused for what the schema is: for every Floor, Starts,
\* MaxKills, MaxDowns and Spared for which the one pass finds the files sound
\* (TLC computes it for Floor = 4, Spared = {88}; it does not hold below, nor
\* without Spared).
THEOREM NothingIsEverRefused == ASSUME HistoryIsSound PROVE Spec => []NothingRefused
  <1>1. SchemaInv => NothingRefused
    BY DEF SchemaInv, NothingRefused
  <1>2. QED
    BY <1>1, SchemaAlways, PTL

\* In every committed schema each function finds its columns.
THEOREM FunctionsAlwaysRun == ASSUME HistoryIsSound, BodiesAreServed PROVE Spec => []FunctionsRun
  <1>1. SchemaInv => FunctionsRun
    <2> SUFFICES ASSUME SchemaInv, NEW f \in db, f[1] = "body", NEW g \in Reads(f[2], f[3])
                 PROVE  g \in db
      BY DEF FunctionsRun, Runs
    <2>1. PICK b \in Resting(Rest) \cup Stranded(Stages) : Between(db, b)
      BY DEF SchemaInv
    <2>2. f \in b.most
      BY <2>1, Blurs DEF Between, Seen
    <2>3. g \in b.least /\ Plain(g)
      BY <2>2 DEF BodiesAreServed, BodiesServed, Serves, Runs
    <2>4. QED
      BY <2>1, <2>3, PlainSeen DEF Between
  <1>2. QED
    BY <1>1, SchemaAlways, PTL

\* What lasts of a schema within the bounds of a revision is what the
\* upgrades of an empty database leave.
LEMMA LastingWithin ==
  ASSUME HistoryIsSound, NEW r \in 0..HeadRevision, NEW s, Between(s, Rest[r])
  PROVE  Lasting(s) = Lasting(Rest[r].least) /\ Lasting(s) = LastingBuilt[r]
  <1>1. ASSUME NEW u, Between(u, Rest[r]) PROVE Lasting(u) = Lasting(Rest[r].least)
    <2>1. Lasting(Rest[r].least) = Lasting(Rest[r].most)
      BY DEF HistoryIsSound, Sound, RestIsSound
    <2>2. Lasting(Seen(u)) = Lasting(Rest[r].least)
      BY <1>1, <2>1 DEF Between, Lasting
    <2>3. QED
      BY <2>2, LastingIsSeen
  <1>2. Between(BuiltBy[r], Rest[r])
    BY DEF HistoryIsSound, Sound, RestIsSound
  <1>3. QED
    BY <1>1, <1>2 DEF LastingBuilt

\* At the head the ORM and the database agree.
THEOREM HeadAlwaysServes ==
  ASSUME HistoryIsSound, ModelsAreServed PROVE Spec => []HeadServesModels
  <1>1. SchemaInv => HeadServesModels
    <2> SUFFICES ASSUME SchemaInv, revision = HeadRevision, command = Idle, NEW m \in Models
                 PROVE  Fits(db, m)
      BY DEF HeadServesModels
    <2> DEFINE low == Rest[HeadRevision].least
    <2>1. Between(db, Rest[HeadRevision]) /\ Fits(low, m)
      BY DEF SchemaInv, ModelsAreServed, FitsAll
    <2>2. Lasting(db) = Lasting(low)
      BY <2>1, HeadIsNat, LastingWithin
    <2>3. \A f : f[1] \in {"column", "required", "key"} => (f \in db <=> f \in low)
      BY <2>2 DEF Lasting
    <2>4. \A f \in low : f[1] # "invalid" => f \in db
      BY <2>1, Blurs DEF Between, Seen, Blur
    <2> HIDE DEF low
    <2> DEFINE written == m.required \cup m.optional
               Others(s) == {f[3] : f \in {g \in OfTable(s, m.table) : g[1] = "column"}} \ written
    <2>5. Columns(m.table, written) \subseteq db
      BY <2>1, <2>3 DEF Fits, Columns, ColumnFact
    <2>6. \A c \in written : RequiredFact(m.table, c) \in db <=> c \in m.required
      BY <2>1, <2>3 DEF Fits, RequiredFact
    <2>7. \A k \in m.keys : \E f \in OfTable(db, m.table) :
              f[1] = "key" /\ f[4] = {k[1]} /\ f[5] = k[2]
      BY <2>1, <2>3 DEF Fits, OfTable
    <2>8. Others(db) = Others(low)
      BY <2>3 DEF OfTable
    <2>9. \A c \in Others(low) : RequiredFact(m.table, c) \in low => DefaultFact(m.table, c) \in low
      BY <2>1 DEF Fits
    <2>10. \A c \in Others(db) : RequiredFact(m.table, c) \in db => DefaultFact(m.table, c) \in db
      BY <2>3, <2>4, <2>8, <2>9 DEF RequiredFact, DefaultFact
    <2>11. QED
      BY <2>5, <2>6, <2>7, <2>10 DEF Fits
  <1>2. QED
    BY <1>1, SchemaAlways, PTL

\* Schema implements Versions: seen between commands, the database goes from
\* revision to revision in one step and is at each what the upgrades make.
THEOREM DatabasesAreAtARevision == ASSUME HistoryIsSound PROVE Spec => AlwaysAtARevision
  <1> DEFINE shown == IF command = Idle THEN Lasting(db) ELSE LastingBuilt[revision]
  <1>1. SchemaInv => revision \in 0..HeadRevision /\ shown = LastingBuilt[revision]
    BY LastingWithin DEF SchemaInv
  <1>2. SchemaInv => V!Init
    BY <1>1 DEF V!Init
  <1>3. SchemaInv /\ SchemaInv' => [V!Deploy]_<<revision, shown>>
    <2> SUFFICES ASSUME SchemaInv, SchemaInv' PROVE [V!Deploy]_<<revision, shown>>
      OBVIOUS
    <2>1. shown' = LastingBuilt[revision'] /\ revision' \in 0..HeadRevision
      BY LastingWithin DEF SchemaInv, Between
    <2>2. shown = LastingBuilt[revision]
      BY <1>1
    <2>3. CASE revision' = revision
      BY <2>1, <2>2, <2>3
    <2>4. CASE revision' # revision
      <3>1. revision' \in 0..HeadRevision \ {revision}
        BY <2>1, <2>4
      <3>2. V!Deploy
        BY <2>1, <3>1 DEF V!Deploy
      <3>3. QED
        BY <3>2
    <2>5. QED
      BY <2>3, <2>4
  <1>4. QED
    BY <1>2, <1>3, SchemaAlways, PTL DEF AlwaysAtARevision, V!Spec
=============================================================================
