------------------------------ MODULE MCSchema ------------------------------
(* Databases at the revisions where something delicate follows, and the head. *)
EXTENDS SchemaBounds
MCStarts      == {0, 37, 56, 87, HeadRevision}
MCBeforeDaily == {87}
MCLateral     == {44}
=============================================================================
