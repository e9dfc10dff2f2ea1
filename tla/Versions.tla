------------------------------ MODULE Versions ------------------------------
(***************************************************************************)
(* What a database under Alembic promises, whatever the migrations say: a  *)
(* database is always exactly at one revision, and goes to another one in  *)
(* a single step.  Schema implements it for the tables, columns and keys.  *)
(***************************************************************************)
EXTENDS Naturals

CONSTANTS Top,        \* the number of revisions
          Built(_)     \* the schema that revision n describes

VARIABLES revision, schema

Init == revision \in 0..Top /\ schema = Built(revision)

Deploy == \E r \in 0..Top \ {revision} :
              revision' = r /\ schema' = Built(r)

Spec == Init /\ [][Deploy]_<<revision, schema>>
=============================================================================
