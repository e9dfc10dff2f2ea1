-------------------------- MODULE MCContentFilter --------------------------
(* Two services of the catalogue, one request slot and the job. *)
EXTENDS ContentFilter

MCCategories == {"tiktok", "youtube"}
MCRequests == {"r1"}
=============================================================================
