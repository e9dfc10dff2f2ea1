---------------------------- MODULE SchemaBounds ----------------------------
(***************************************************************************)
(* What one pass over the files says of every run of them.  A committed    *)
(* schema of revision r lies between two sets of facts, whatever commands  *)
(* were killed and however often the database went down and up again:      *)
(* Rest[r] has them, and Stages has the same for the transaction of a      *)
(* command, before each statement of each file and after the last.         *)
(*                                                                         *)
(* The bounds are found by running the statements on the bounds            *)
(* themselves.  Nothing rests on how: HistoryIsSound says that they are    *)
(* closed under whatever a command can do, and that no statement is        *)
(* refused between them.                                                   *)
(***************************************************************************)
EXTENDS Schema

(* An index built CONCURRENTLY that is there by name, valid or not. *)
Blur(f) == IF f[1] = "index" /\ f[3] \in Concurrent THEN <<"invalid", f[2], f[3]>> ELSE f
Seen(s) == {Blur(f) : f \in s}

(* A bound: the facts that must be there, those that may be, and whether   *)
(* an autocommit block is open.                                            *)
Between(s, b)   == b.least \subseteq Seen(s) /\ Seen(s) \subseteq b.most
Narrower(b, c)  == c.least \subseteq b.least /\ b.most \subseteq c.most

Step(b, st) == [least  |-> Seen(After(b.least, st)),
                most   |-> Seen(After(b.most, st)),
                inside |-> IF st = Commit THEN ~b.inside ELSE b.inside]

(* What a file commits before its version row is written. *)
Commits(trail, sts, i) == sts[i] = Commit \/ trail[i].inside
Up(r)   == Migrations[r].up
Down(r) == Migrations[r].down

Exactly(s)       == [least |-> s, most |-> s, inside |-> FALSE]
Widened(b, c)    == [b EXCEPT !.least = @ \cap c.least, !.most = @ \cup c.most]
WidenedBy(b, bs) == FoldSet(LAMBDA c, d : Widened(d, c), b, bs)

(* `acc` with one more at its end, made from it; the same until n are      *)
(* added.  (F is applied to a bound variable, and by tens, so that TLC     *)
(* computes every `acc` once and before it is used.)                       *)
Applied(F(_), acc) == CHOOSE w \in {F(a) : a \in {acc}} : TRUE
Grown(F(_), acc)   == Applied(LAMBDA a : Append(a, F(a)), acc)
Series(F(_), first, n) ==
    LET more(acc)    == IF Len(acc) > n THEN acc ELSE Grown(F, acc)
        tenMore(acc) == FoldLeft(LAMBDA a, i : Applied(more, a), acc, [i \in 1..10 |-> i])
    IN  FoldLeft(LAMBDA a, i : Applied(tenMore, a), <<first>>, [i \in 1..n \div 10 + 1 |-> i])

(* The bounds before each statement of a file, and after the last. *)
Trail(b, sts) == FoldLeft(LAMBDA trail, st : Grown(LAMBDA t : Step(Last(t), st), trail), <<b>>, sts)
End(b, sts)   == Last(Trail(b, sts))
\* A revision's bounds with what one of its files commits when it dies.
Dying(b, sts) ==
    LET trail == Trail(b, sts)
    IN  WidenedBy(b, {trail[i + 1] : i \in {j \in 1..Len(sts) : Commits(trail, sts, j)}})

(* The bounds of every revision of a new database, widened by what a       *)
(* downgrade leaves there, then by what a deployment leaves.               *)
Built(files) ==
    LET ends == Series(LAMBDA a : End(Last(a), files[Len(a)].up), Exactly({}), Len(files))
    IN  [r \in 0..Len(files) |-> ends[r + 1]]

Downwards(rest, files) ==
    LET head == Len(files)
        ends == Series(LAMBDA a : Widened(rest[head - Len(a)], End(Last(a), files[head - Len(a) + 1].down)),
                       rest[head], head - Floor)
        end(r) == ends[head - r + 1]
    IN  [r \in 0..head |-> IF r < Floor THEN rest[r]
                           ELSE IF r = Floor THEN end(r) ELSE Dying(end(r), files[r].down)]

Upwards(rest, files) ==
    LET ends == Series(LAMBDA a : Widened(rest[Len(a)], End(Last(a), files[Len(a)].up)),
                       rest[0], Len(files))
    IN  [r \in 0..Len(files) |-> IF r + 1 \in Spared \cup {Len(files) + 1} THEN ends[r + 1]
                                 ELSE Dying(ends[r + 1], files[r + 1].up)]

\* (A function that @@ has made is a table to TLC.)
Rests(files) == Upwards(Downwards(Built(files), files), files) @@ <<>>
Staged(rest, files) ==
    [up   |-> [r \in 1..Len(files) |-> Trail(rest[r - 1], files[r].up)],
     down |-> [r \in Floor + 1..Len(files) |-> Trail(rest[r], files[r].down)]]

Rest   == Rests(Migrations)
Stages == Staged(Rest, Migrations)

(* ------------------------ the bounds are closed ----------------------- *)
(* A fact that looks the same whatever became of the concurrent indexes.  *)
Plain(f) == Blur(f) = f /\ f[1] # "invalid"

(* A statement is about plain facts, or builds a concurrent index.         *)
Tame(b, st) ==
    CASE st.kind = "add"          -> \A f \in st.needs \cup st.new : Plain(f)
      [] st.kind = "build"        -> /\ \A f \in st.needs : Plain(f)
                                     /\ st.index[1] = "index" /\ st.index[3] \in Concurrent
                                     /\ Named(b.most, st.index[2], st.index[3]) \subseteq {Blur(st.index)}
      [] st.kind = "dropColumns"  -> \A f \in OfTable(b.most, st.table) : Plain(f)
      [] st.kind \in {"forget", "require"} -> Plain(st.fact)
      [] st.kind \in {"body", "newBody"} -> \A f \in Reads(st.function, st.body) : Plain(f)
      [] st.kind = "renameTable"  -> \A f \in OfTable(b.most, st.from) :
                                         Plain(f) /\ Plain([f EXCEPT ![2] = st.to])
      [] st.kind = "renameColumn" -> \A f \in ColumnFacts(b.most, st.table, st.from) :
                                         Plain([f EXCEPT ![3] = st.to])
      [] st.kind = "renameIndex"  -> \A f \in Named(b.most, st.table, st.from) :
                                         Plain(f) /\ Plain([f EXCEPT ![3] = st.to])
      [] OTHER                    -> TRUE

(* It is accepted on both bounds, so on whatever is between them.          *)
Clear(b, st) == Tame(b, st) /\ Accepted(b.least, st) /\ Accepted(b.most, st)

Ways        == {"up", "down"}
Files(way)  == IF way = "up" THEN 1..HeadRevision ELSE Floor + 1..HeadRevision
Before(way, r) == IF way = "up" THEN r - 1 ELSE r
Behind(way, r) == IF way = "up" THEN r ELSE r - 1
Lines(way, r)  == IF way = "up" THEN Up(r) ELSE Down(r)

FileIsSound(rest, way, r, sts, trail) ==
    /\ Len(sts) \in Nat
    /\ Narrower(rest[Before(way, r)], trail[1]) /\ trail[1].inside = FALSE
    /\ \A i \in 1..Len(sts) :
          /\ Clear(trail[i], sts[i])
          /\ sts[i].kind = "require" => way = "down"
          /\ Narrower(Step(trail[i], sts[i]), trail[i + 1])
          /\ trail[i + 1].inside = Step(trail[i], sts[i]).inside
          /\ Commits(trail, sts, i) /\ ~(way = "up" /\ r \in Spared) =>
                Narrower(trail[i + 1], rest[Before(way, r)])
    /\ Narrower(trail[Len(sts) + 1], rest[Behind(way, r)]) /\ trail[Len(sts) + 1].inside = FALSE

RestIsSound(rest) ==
    \A r \in 0..HeadRevision :
        Between(BuiltBy[r], rest[r]) /\ Lasting(rest[r].least) = Lasting(rest[r].most)

FilesAreSound(rest, stages) ==
    \A way \in Ways : \A r \in Files(way) :
        FileIsSound(rest, way, r, Lines(way, r), stages[way][r])

(* -------------------- what the bounds are good for -------------------- *)
(* The bounds of a committed schema: those of its revision, or, during a   *)
(* deployment past a spared revision, what that file committed.            *)
Resting(rest) == {rest[r] : r \in 0..HeadRevision}
Stranded(stages) == UNION {{stages.up[f][i] : i \in 1..Len(Up(f)) + 1} : f \in Spared}

Serves(b) ==
    \A f \in b.most : Runs(b.least, f) /\ (f[1] = "body" => \A g \in Reads(f[2], f[3]) : Plain(g))
FitsAll(s) == \A m \in Models : Fits(s, m)

(* --------------------------- of this history -------------------------- *)
\* (The constants are arguments so that TLC computes them once.)
Sound(rest, stages) == RestIsSound(rest) /\ FilesAreSound(rest, stages)
HistoryIsSound == Sound(Rest, Stages)

\* Every body that may be there finds every column it reads.
BodiesServed(rest, stages) == \A b \in Resting(rest) \cup Stranded(stages) : Serves(b)
BodiesAreServed == BodiesServed(Rest, Stages)

\* The least that is there at the head is enough for the ORM.
ModelsAreServed == FitsAll(Rest[HeadRevision].least)

(* Between commands the committed schema is within the bounds of its       *)
(* revision, and the transaction of a command within those of the          *)
(* statement it has come to: whatever env.py's one transaction, the        *)
(* autocommit blocks and a kill leave, the files have counted with it.     *)
WithinBounds ==
    /\ HistoryIsSound /\ BodiesAreServed /\ ModelsAreServed
    /\ IF command = Idle THEN Between(db, Rest[revision])
       ELSE Between(command.work, Stages[command.pc][File(command)][command.next])
=============================================================================
