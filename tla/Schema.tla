------------------------------- MODULE Schema -------------------------------
(***************************************************************************)
(* Running the Alembic history.  The API container runs `alembic upgrade   *)
(* head` before uvicorn (backend/docker-entrypoint.sh, `set -e`) and is    *)
(* restarted for ever (restart: unless-stopped); an operator may run       *)
(* `alembic downgrade`.  backend/alembic/env.py gives ONE transaction to   *)
(* the whole command: nothing is committed before the last revision,       *)
(* except by an autocommit_block, which commits everything that ran so far *)
(* with the version row of the LAST FINISHED revision, then each statement *)
(* of the block.                                                           *)
(*                                                                         *)
(* One action is one statement.  What PostgreSQL refuses (a relation that  *)
(* exists already, a column that does not, a table another one refers to)  *)
(* ends the command with an error.                                         *)
(***************************************************************************)
EXTENDS Migrations, Models, SequencesExt

CONSTANTS Starts,    \* the revisions the databases of the run are at first
          Floor,     \* the lowest revision a downgrade aims at
          MaxKills,  \* bound: kills of a running command
          MaxDowns,  \* bound: downgrade commands
          Spared     \* revisions whose commands are not killed past their block

HeadRevision == Len(Migrations)

ASSUME BoundsAssumption ==
    /\ Starts \subseteq 0..HeadRevision
    /\ Floor \in 0..HeadRevision
    /\ MaxKills \in Nat /\ MaxDowns \in Nat
    /\ Spared \subseteq 1..HeadRevision

VARIABLES db,       \* the committed schema
          revision, \* alembic_version: how many files are applied
          command,  \* the running alembic command, or Idle
          refused,  \* some statement was refused for what the schema is
          kills, downs

vars == <<db, revision, command, refused, kills, downs>>

(* ------------------------- what a statement does ---------------------- *)
Named(s, t, name) == {f \in s : f[1] \in {"index", "unique", "key", "trigger", "invalid"}
                                /\ f[2] = t /\ f[3] = name}
OfTable(s, t)     == {f \in s : f[1] \notin {"function", "body"} /\ f[2] = t}
(* What refers to a table from outside: foreign keys and views. *)
Referrers(s, t)   == {f \in s : \/ f[1] = "key" /\ f[5] = t /\ f[2] # t
                                \/ f[1] = "view" /\ f[2] = t}
(* What a column of a table is, without what is built on it. *)
ColumnFacts(s, t, c) ==
    {f \in OfTable(s, t) : f[1] \in {"column", "required", "default"} /\ f[3] = c}
(* PostgreSQL drops a column with its indexes and constraints. *)
OfColumns(s, t, cs) ==
    {f \in OfTable(s, t) : \/ f[1] \in {"column", "required", "default"} /\ f[3] \in cs
                           \/ f[1] \in {"index", "unique", "key"} /\ f[4] \cap cs # {}}

(* The columns a function's body reads.                                    *)
Clients == Columns("lrs", {"id", "client_blocked", "client_blocked_at", "client_blocked_reason",
                           "block_mode", "client_block_enforced_at"})
           \cup Columns("devices", {"id", "name", "ip_address"})
Stations == Columns("lrs", {"uisp_mode", "uisp_status", "uisp_last_seen", "uisp_ap_name"})
Outages  == Columns("devices", {"id", "device_type", "site"})
            \cup Columns("incidents", {"alert_type", "detected_at", "device_id", "resolved_at"})

Reads(f, body) ==
    CASE f = "fn_access_clients" ->
             Clients \cup (IF body = "c0d1" THEN Columns("lrs", {"topology_mode"}) ELSE Stations)
                     \cup (IF body \in {"w5j6", "g3b4"} THEN Columns("lrs", {"router_blocked"})
                           ELSE {})
                     \cup (IF body = "g3b4" THEN Columns("lrs", {"uisp_crm_client_id"}) ELSE {})
      [] f = "fn_site_overview" ->
             Columns("devices", {"id", "name", "device_type", "site", "status", "last_seen"})
                 \cup Columns("lrs", {"id", "client_blocked"})
                 \cup Columns("device_metrics", {"device_id", "metric_name", "metric_value",
                                                 "collected_at"})
      [] f \in {"fn_site_outage_summary", "fn_network_health"} -> Outages
      [] f = "fn_dashboard_summary" ->
             Columns("devices", {"device_type", "site", "status"}) \cup Columns("incidents", {"status"})
      [] OTHER -> Columns("devices", {"device_type", "location", "site"})
                      \cup Columns("lrs", {"id", "rocket_id"})

(* LANGUAGE sql: PostgreSQL looks the columns up when the body is created. *)
(* Triggers are plpgsql, whose bodies it does not read before they run.    *)
Triggered == {"trg_device_set_site", "trg_rocket_cascade_site", "trg_lr_set_site"}
Readable(s, st) == st.function \in Triggered \/ Reads(st.function, st.body) \subseteq s

Accepted(s, st) ==
    CASE st.kind = "add"          -> st.needs \subseteq s /\ st.new \cap s = {}
      [] st.kind = "build"        -> st.needs \subseteq s
      [] st.kind = "dropTable"    -> TableFact(st.table) \in s /\ Referrers(s, st.table) = {}
      [] st.kind = "dropColumns"  -> Columns(st.table, st.columns) \subseteq s
      [] st.kind = "drop"         -> st.lenient \/ Named(s, st.table, st.name) # {}
      [] st.kind = "forget"       -> ColumnFact(st.fact[2], st.fact[3]) \in s
      [] st.kind = "renameTable"  -> TableFact(st.from) \in s /\ TableFact(st.to) \notin s
      [] st.kind = "renameColumn" -> /\ ColumnFact(st.table, st.from) \in s
                                     /\ ColumnFact(st.table, st.to) \notin s
      [] st.kind = "renameIndex"  -> /\ Named(s, st.table, st.from) # {}
                                     /\ Named(s, st.table, st.to) = {}
      [] st.kind = "require"      -> ColumnFact(st.fact[2], st.fact[3]) \in s
      [] st.kind = "body"         -> Readable(s, st)
      [] st.kind = "newBody"      -> <<"function", st.function>> \notin s /\ Readable(s, st)
      [] st.kind = "dropBody"     -> ~ \E f \in s : f[1] = "trigger" /\ f[4] = st.function
      [] OTHER                    -> TRUE

Renamed(s, old, new) == (s \ old) \cup new

After(s, st) ==
    CASE st.kind = "add"          -> s \cup st.new
      [] st.kind = "build"        -> IF Named(s, st.index[2], st.index[3]) # {} THEN s
                                     ELSE s \cup {st.index}
      [] st.kind = "dropTable"    -> s \ OfTable(s, st.table)
      [] st.kind = "dropColumns"  -> s \ OfColumns(s, st.table, st.columns)
      [] st.kind = "drop"         -> s \ Named(s, st.table, st.name)
      [] st.kind = "dropView"     -> {f \in s : ~(f[1] = "view" /\ f[3] = st.name)}
      [] st.kind = "forget"       -> s \ {st.fact}
      [] st.kind = "renameTable"  ->
             LET here == OfTable(s, st.from)
             IN  (s \ here) \cup {[f EXCEPT ![2] = st.to] : f \in here}
      [] st.kind = "renameColumn" ->
             LET here == ColumnFacts(s, st.table, st.from)
             IN  (s \ here) \cup {[f EXCEPT ![3] = st.to] : f \in here}
      [] st.kind = "renameIndex"  ->
             LET here == Named(s, st.table, st.from)
             IN  (s \ here) \cup {[f EXCEPT ![3] = st.to] : f \in here}
      [] st.kind = "require"      -> s \cup {st.fact}
      [] st.kind \in {"body", "newBody"} ->
             {f \in s : ~(f[1] = "body" /\ f[2] = st.function)}
                 \cup {<<"function", st.function>>, <<"body", st.function, st.body>>}
      [] st.kind = "dropBody"     ->
             {f \in s : ~(f[1] \in {"function", "body"} /\ f[2] = st.function)}
      [] OTHER                    -> s

(* The schema that revision n describes: every upgrade up to it, in order. *)
Completed(s)    == {f \in s : f[1] # "invalid"}
Upgraded(s, m)  == FoldLeft(LAMBDA t, st : Completed(After(t, st)), s, m.up)
BuiltBy[n \in 0..HeadRevision] ==
    IF n = 0 THEN {} ELSE UNION {Upgraded(s, Migrations[n]) : s \in {BuiltBy[n - 1]}}

(* ------------------------------- commands ----------------------------- *)
Idle == [pc |-> "idle"]

Running(way, target) ==
    [pc |-> way, target |-> target, from |-> revision,
     work |-> db,          \* the schema inside the transaction
     at |-> revision,      \* revisions whose version row is written
     next |-> 1,           \* the next statement of the file
     block |-> FALSE]      \* inside an autocommit block

(* The file the command is in, and its statements. *)
File(c)       == IF c.pc = "up" THEN c.at + 1 ELSE c.at
Statements(c) == IF c.pc = "up" THEN Migrations[File(c)].up ELSE Migrations[File(c)].down

Init == /\ revision \in Starts
        /\ db = BuiltBy[revision]
        /\ command = Idle
        /\ refused = FALSE
        /\ kills = 0 /\ downs = 0

(* docker-entrypoint.sh: the container starts, or starts again. *)
StartContainer ==
    /\ command = Idle
    /\ revision < HeadRevision
    /\ command' = Running("up", HeadRevision)
    /\ UNCHANGED <<db, revision, refused, kills, downs>>

Downgrade ==
    /\ command = Idle
    /\ downs < MaxDowns
    /\ \E r \in Floor..(revision - 1) : command' = Running("down", r)
    /\ downs' = downs + 1
    /\ UNCHANGED <<db, revision, refused, kills>>

(* One statement.  Inside a block it is committed at once; one that        *)
(* PostgreSQL refuses rolls the transaction back and ends the command.     *)
Execute ==
    /\ command # Idle
    /\ command.next <= Len(Statements(command))
    /\ LET st == Statements(command)[command.next]
           ok == Accepted(command.work, st)
           s  == After(command.work, st)
       IN  /\ refused' = (refused \/ ~ok)
           /\ command' = IF ok
                         THEN [command EXCEPT !.work = s, !.next = @ + 1,
                                              !.block = IF st = Commit THEN ~@ ELSE @]
                         ELSE Idle
           /\ IF ok /\ (st = Commit \/ command.block)
              THEN db' = s /\ revision' = command.at
              ELSE UNCHANGED <<db, revision>>
    /\ UNCHANGED <<kills, downs>>

(* ALTER COLUMN SET NOT NULL fails on a row that has a NULL there          *)
(* (y6e7f8a9b0c1: "Will fail if any device has a NULL ip_address").        *)
RowsRefuse ==
    /\ command # Idle
    /\ command.next <= Len(Statements(command))
    /\ Statements(command)[command.next].kind = "require"
    /\ command' = Idle
    /\ UNCHANGED <<db, revision, refused, kills, downs>>

(* The end of a file: its version row; after the last one, the commit. *)
FinishFile ==
    /\ command # Idle
    /\ command.next > Len(Statements(command))
    /\ LET at == IF command.pc = "up" THEN command.at + 1 ELSE command.at - 1
       IN  IF at = command.target
           THEN command' = Idle /\ db' = command.work /\ revision' = at
           ELSE /\ command' = [command EXCEPT !.at = at, !.next = 1]
                /\ UNCHANGED <<db, revision>>
    /\ UNCHANGED <<refused, kills, downs>>

(* A deployment that has come to a spared revision. *)
PastSpared(c) == c.pc = "up" /\ \E f \in Spared : c.from < f /\ File(c) >= f

(* Mutant: no transaction around the command. *)
KillLeavesWork ==
    /\ command # Idle
    /\ kills < MaxKills
    /\ ~PastSpared(command)
    /\ command' = Idle
    /\ db' = command.work
    /\ kills' = kills + 1
    /\ UNCHANGED <<revision, refused, downs>>

(* The process dies: what was not committed is lost.  A CONCURRENTLY build *)
(* that dies leaves an index that is there by name and serves nothing.     *)
Kill ==
    /\ command # Idle
    /\ kills < MaxKills
    /\ ~PastSpared(command)
    /\ command' = Idle
    /\ kills' = kills + 1
    /\ UNCHANGED <<db, revision, refused, downs>>

KillBuild ==
    /\ command # Idle
    /\ kills < MaxKills
    /\ command.block
    /\ ~PastSpared(command)
    /\ LET st == Statements(command)[command.next]
       IN  /\ st.kind = "build"
           /\ Named(db, st.index[2], st.index[3]) = {}
           /\ db' = db \cup {<<"invalid", st.index[2], st.index[3]>>}
    /\ command' = Idle
    /\ kills' = kills + 1
    /\ UNCHANGED <<revision, refused, downs>>

Command == Execute \/ RowsRefuse \/ FinishFile

Next == StartContainer \/ Downgrade \/ Command \/ Kill \/ KillBuild

Spec == Init /\ [][Next]_vars

(* ------------------------------ properties ---------------------------- *)
(* The version number, the schema and the command have the types the rest  *)
(* relies on, and a command only moves towards its target.                 *)
TypeOK ==
    /\ revision \in 0..HeadRevision
    /\ refused \in BOOLEAN
    /\ kills \in 0..MaxKills /\ downs \in 0..MaxDowns
    /\ command # Idle =>
          /\ command.at \in 0..HeadRevision /\ command.target \in 0..HeadRevision
          /\ IF command.pc = "up" THEN command.at < command.target
                                  ELSE command.at > command.target

(* No statement is refused for what the schema is, on the way up or back   *)
(* down to revision Floor, wherever the earlier command died: names match  *)
(* between upgrades and downgrades, objects are dropped in an order their  *)
(* references allow, a plain CREATE finds nothing of its name, a SQL       *)
(* function finds the columns it reads.  (A NOT NULL that the rows refuse  *)
(* is RowsRefuse; the file a kill leaves half committed is Spared, and     *)
(* StartsReachHead is about it.)                                           *)
NothingRefused == ~refused

(* An upgrade is over, and nobody killed it. *)
Ended == command # Idle /\ command.pc = "up" /\ command' = Idle /\ kills' = kills

(* backup-database.md: "le backend applique les migrations manquantes à    *)
(* son démarrage".  An upgrade that nobody kills ends at the head.         *)
StartsReachHead ==
    [][Ended => revision' = HeadRevision]_vars

(* What of a schema the refinement is about: tables, columns, NOT NULL,    *)
(* keys, uniques, views, triggers and functions.  Defaults do not come     *)
(* back with every downgrade; indexes built or dropped CONCURRENTLY are    *)
(* committed before their revision; bodies have a property of their own.   *)
Concurrent == {"ix_device_metrics_collected_at", "ix_device_metrics_collected_brin"}
Lasting(s) == {f \in s : f[1] \notin {"default", "body", "invalid"}
                         /\ (f[1] = "index" => f[3] \notin Concurrent)}
LastingBuilt == [n \in 0..HeadRevision |-> Lasting(BuiltBy[n])]

V == INSTANCE Versions WITH Top <- HeadRevision, Built <- LAMBDA n : LastingBuilt[n],
                            schema <- IF command = Idle THEN Lasting(db)
                                      ELSE LastingBuilt[revision]

(* Seen between commands, the database moves from revision to revision in  *)
(* one step, and is at each exactly what the upgrades of an empty database *)
(* up to it make: after kills and retries, and when it got there by        *)
(* downgrades.                                                             *)
AlwaysAtARevision == V!Spec

(* fn_site_overview, fn_access_clients and the others are text to          *)
(* PostgreSQL: dropping a column they read breaks them silently.  In every *)
(* committed schema each function finds its columns.                       *)
Runs(s, f)   == f[1] = "body" => Reads(f[2], f[3]) \subseteq s
FunctionsRun == \A f \in db : Runs(db, f)

(* At the head the ORM and the database agree: every mapped column is      *)
(* there with the nullability the class declares and the keys it joins on, *)
(* and a NOT NULL column no class writes has a default, so that an insert  *)
(* by the ORM is accepted.                                                 *)
Fits(s, m) ==
    LET written == m.required \cup m.optional
        others  == {f[3] : f \in {g \in OfTable(s, m.table) : g[1] = "column"}} \ written
    IN  /\ Columns(m.table, written) \subseteq s
        /\ \A c \in written : RequiredFact(m.table, c) \in s <=> c \in m.required
        /\ \A k \in m.keys : \E f \in OfTable(s, m.table) :
                                 f[1] = "key" /\ f[4] = {k[1]} /\ f[5] = k[2]
        /\ \A c \in others : RequiredFact(m.table, c) \in s => DefaultFact(m.table, c) \in s

HeadServesModels == revision = HeadRevision /\ command = Idle => \A m \in Models : Fits(db, m)

(* c1d2e3f4a5b6: "a final function that has BOTH the LATERAL power_metrics *)
(* and the `ip_address` field in down_devices".  Whatever comes later      *)
(* should keep both.                                                       *)
OverviewKeepsBoth ==
    revision = HeadRevision => \E f \in db : f[1] = "body" /\ f[2] = "fn_site_overview"
                                     /\ f[3] \in {"c1d2"}
=============================================================================
